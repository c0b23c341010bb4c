-------------------------------- MODULE Sums --------------------------------
(***************************************************************************)
(* Sums over finite sets, as the folds of the community modules compute    *)
(* them, and the lemmas the proofs about limits and ledgers need: what a   *)
(* sum changes by when one entry changes, and that it depends on nothing   *)
(* but the entries it ranges over.                                         *)
(*                                                                         *)
(* The induction is over the subsets of a finite set, by a smallest        *)
(* counterexample: the set of the subsets where a fact fails has a minimal *)
(* member, because strict inclusion is well founded on a finite set.       *)
(***************************************************************************)
EXTENDS Functions, FiniteSets, FiniteSetTheorems, TLAPS

\* The element a fold takes next.
Pick(s) == CHOOSE x \in s : TRUE

\* h sums g over every subset of U.
IsSum(h, g, U) ==
    h = [s \in SUBSET U |-> IF s = {} THEN 0 ELSE g[Pick(s)] + h[s \ {Pick(s)}]]

\* The sum of g over S.
SumOver(g, S) == (CHOOSE h : IsSum(h, g, S))[S]

Agree(g, f, S) == \A x \in S : g[x] = f[x]

-----------------------------------------------------------------------------
\* A non-empty set of subsets of a finite set has a minimal member.
LEMMA Smallest ==
    ASSUME NEW S, IsFiniteSet(S), NEW B, B \subseteq SUBSET S, B # {}
    PROVE  \E m \in B : \A y \in B : y \subseteq m => y = m
<1>1. IsWellFoundedOn(StrictSubsetOrdering(S), FiniteSubsetsOf(S))
  BY FS_StrictSubsetOrderingWellFounded
<1>2. FiniteSubsetsOf(S) = SUBSET S
  BY FS_FiniteSubsetsOfFinite
<1>3. \E m \in B : \A y \in B : ~ (<<y, m>> \in StrictSubsetOrdering(S))
  BY <1>1, <1>2, WFMin
<1>4. QED
  BY <1>3 DEF StrictSubsetOrdering

\* A choice from a non-empty set is one of its members.
LEMMA PickIn == \A s : s # {} => Pick(s) \in s
<1> SUFFICES ASSUME NEW s, NEW x \in s PROVE Pick(s) \in s
  OBVIOUS
<1> QED
  BY DEF Pick

\* Two sums of functions that agree on S agree at S, whatever larger sets they
\* are defined on.
LEMMA SumUnique ==
    ASSUME NEW h, NEW k, NEW g, NEW f, NEW U, NEW V, NEW S,
           IsSum(h, g, U), IsSum(k, f, V), IsFiniteSet(S),
           S \subseteq U, S \subseteq V, Agree(g, f, S)
    PROVE  h[S] = k[S]
<1> DEFINE B == {T \in SUBSET S : h[T] # k[T]}
<1>1. SUFFICES ASSUME B # {} PROVE FALSE
  OBVIOUS
<1>2. PICK m \in B : \A y \in B : y \subseteq m => y = m
  <2>1. B \subseteq SUBSET S
    OBVIOUS
  <2> HIDE DEF B
  <2>2. QED
    BY <1>1, <2>1, Smallest
<1>3. m # {}
  BY <1>2 DEF IsSum
<1>4. Pick(m) \in m
  BY <1>3, PickIn
<1>5. m \ {Pick(m)} \notin B
  BY <1>2, <1>4
<1>6. h[m \ {Pick(m)}] = k[m \ {Pick(m)}]
  BY <1>5
<1>7. h[m] = g[Pick(m)] + h[m \ {Pick(m)}] /\ k[m] = f[Pick(m)] + k[m \ {Pick(m)}]
  BY <1>3 DEF IsSum
<1>8. g[Pick(m)] = f[Pick(m)]
  BY <1>4 DEF Agree
<1>9. QED
  BY <1>6, <1>7, <1>8

\* The recursion of a sum has a solution over every finite set.
LEMMA SumExists ==
    ASSUME NEW g, NEW U, IsFiniteSet(U)
    PROVE  \E h : IsSum(h, g, U)
<1> DEFINE B == {T \in SUBSET U : ~\E h : IsSum(h, g, T)}
<1>1. SUFFICES ASSUME B # {} PROVE FALSE
  OBVIOUS
<1>2. PICK m \in B : \A y \in B : y \subseteq m => y = m
  <2>1. B \subseteq SUBSET U
    OBVIOUS
  <2> HIDE DEF B
  <2>2. QED
    BY <1>1, <2>1, Smallest
<1>3. \A s \in SUBSET m : s # m => \E h : IsSum(h, g, s)
  BY <1>2
<1> DEFINE H(s) == (CHOOSE h : IsSum(h, g, s))[s]
<1>4. ASSUME NEW s \in SUBSET m, s # m, s # {}
      PROVE  H(s) = g[Pick(s)] + H(s \ {Pick(s)})
  <2>1. Pick(s) \in s
    BY <1>4, PickIn
  <2> DEFINE r == s \ {Pick(s)}
             hs == CHOOSE h : IsSum(h, g, s)
             hr == CHOOSE h : IsSum(h, g, r)
  <2>2. IsSum(hs, g, s)
    BY <1>3, <1>4
  <2>3. r \in SUBSET m /\ r # m /\ r \subseteq s
    BY <1>4, <2>1
  <2>4. IsSum(hr, g, r)
    BY <1>3, <2>3
  <2>5. IsFiniteSet(r)
    BY <2>3, FS_Subset
  <2> HIDE DEF r
  <2>6. hs[r] = hr[r]
    <3> HIDE DEF hs, hr
    <3>1. Agree(g, g, r) /\ r \subseteq r
      BY DEF Agree
    <3> QED BY <2>2, <2>3, <2>4, <2>5, <3>1, SumUnique
  <2>7. hs[s] = g[Pick(s)] + hs[r]
    <3> HIDE DEF hs
    <3> QED BY <1>4, <2>2 DEF r, IsSum
  <2>8. QED
    BY <2>6, <2>7 DEF r
<1> DEFINE k == [s \in SUBSET m |->
                   IF s = m /\ s # {} THEN g[Pick(m)] + H(m \ {Pick(m)}) ELSE H(s)]
<1>5. H({}) = 0
  <2>1. {} \in SUBSET m
    OBVIOUS
  <2>2. \E h : IsSum(h, g, {})
    <3> DEFINE h == [s \in SUBSET {} |-> 0]
    <3>1. IsSum(h, g, {})
      BY DEF IsSum
    <3> QED BY <3>1
  <2>3. QED
    BY <2>2 DEF IsSum
<1>6. IsSum(k, g, m)
  <2> HIDE DEF H
  <2>1. ASSUME NEW s \in SUBSET m
        PROVE  k[s] = IF s = {} THEN 0 ELSE g[Pick(s)] + k[s \ {Pick(s)}]
    <3>1. CASE s = {}
      BY <3>1, <1>5
    <3>2. CASE s # {}
      <4>1. Pick(s) \in s
        BY <3>2, PickIn
      <4>2. k[s \ {Pick(s)}] = H(s \ {Pick(s)})
        BY <4>1
      <4>3. QED
        BY <3>2, <4>2, <1>4
    <3>3. QED
      BY <3>1, <3>2
  <2>2. QED
    BY <2>1 DEF IsSum
<1>7. QED
  BY <1>2, <1>6

\* A sum over a subset can be read off a sum over the whole set.
LEMMA SumValue ==
    ASSUME NEW g, NEW S, IsFiniteSet(S), NEW U, IsFiniteSet(U), S \subseteq U,
           NEW h, IsSum(h, g, U)
    PROVE  SumOver(g, S) = h[S]
<1>1. IsSum(CHOOSE k : IsSum(k, g, S), g, S)
  BY SumExists
<1> DEFINE k == CHOOSE k : IsSum(k, g, S)
<1> HIDE DEF k
<1>2. k[S] = h[S]
  <2>1. Agree(g, g, S) /\ S \subseteq S /\ IsSum(k, g, S)
    BY <1>1 DEF Agree, k
  <2>2. QED
    BY <2>1, SumUnique
<1>3. QED
  BY <1>2 DEF k, SumOver

\* The sum over nothing is 0.
LEMMA SumEmpty == \A g : SumOver(g, {}) = 0
<1> SUFFICES ASSUME NEW g PROVE SumOver(g, {}) = 0
  OBVIOUS
<1>1. PICK h : IsSum(h, g, {})
  BY FS_EmptySet, SumExists
<1>2. SumOver(g, {}) = h[{}]
  BY <1>1, FS_EmptySet, SumValue
<1>3. QED
  BY <1>1, <1>2 DEF IsSum

\* One step of the fold.
LEMMA SumStep ==
    ASSUME NEW g, NEW S, IsFiniteSet(S), S # {}
    PROVE  SumOver(g, S) = g[Pick(S)] + SumOver(g, S \ {Pick(S)})
<1>1. PICK h : IsSum(h, g, S)
  BY SumExists
<1>2. SumOver(g, S) = h[S]
  BY <1>1, SumValue
<1>3. IsFiniteSet(S \ {Pick(S)})
  BY FS_RemoveElement
<1>4. SumOver(g, S \ {Pick(S)}) = h[S \ {Pick(S)}]
  BY <1>1, <1>3, SumValue
<1>5. QED
  BY <1>1, <1>2, <1>4 DEF IsSum

\* A sum depends on nothing but the entries it ranges over.
LEMMA SumCongruent ==
    ASSUME NEW g, NEW f, NEW S, IsFiniteSet(S), \A x \in S : g[x] = f[x]
    PROVE  SumOver(g, S) = SumOver(f, S)
<1>1. PICK h : IsSum(h, g, S)
  BY SumExists
<1>2. PICK k : IsSum(k, f, S)
  BY SumExists
<1>3. SumOver(g, S) = h[S] /\ SumOver(f, S) = k[S]
  BY <1>1, <1>2, SumValue
<1>4. h[S] = k[S]
  <2>1. S \subseteq S /\ Agree(g, f, S)
    BY DEF Agree
  <2>2. QED
    BY <1>1, <1>2, <2>1, SumUnique
<1>5. QED
  BY <1>3, <1>4

\* A sum of integers is an integer, and of naturals a natural.
LEMMA SumType ==
    ASSUME NEW g, NEW S, IsFiniteSet(S), \A x \in S : g[x] \in Int
    PROVE  /\ SumOver(g, S) \in Int
           /\ (\A x \in S : g[x] \in Nat) => SumOver(g, S) \in Nat
<1> DEFINE OK(T) == /\ SumOver(g, T) \in Int
                    /\ (\A x \in S : g[x] \in Nat) => SumOver(g, T) \in Nat
<1> DEFINE B == {T \in SUBSET S : ~OK(T)}
<1>1. SUFFICES ASSUME B # {} PROVE FALSE
  OBVIOUS
<1>2. PICK m \in B : \A y \in B : y \subseteq m => y = m
  <2>1. B \subseteq SUBSET S
    OBVIOUS
  <2> HIDE DEF B
  <2>2. QED
    BY <1>1, <2>1, Smallest
<1>3. m # {}
  <2>1. OK({})
    BY SumEmpty
  <2>2. OK(m) => m \notin B
    OBVIOUS
  <2>3. QED
    BY <1>2, <2>1
<1>4. Pick(m) \in m /\ m \subseteq S
  BY <1>3, PickIn
<1>5. OK(m \ {Pick(m)})
  BY <1>2, <1>4
<1>6. IsFiniteSet(m)
  BY <1>4, FS_Subset
<1>7. SumOver(g, m) = g[Pick(m)] + SumOver(g, m \ {Pick(m)})
  BY <1>3, <1>6, SumStep
<1>8. g[Pick(m)] \in Int
  BY <1>4
<1>9. OK(m)
  BY <1>4, <1>5, <1>7, <1>8
<1>10. QED
  BY <1>2, <1>9

\* The fold may take any entry first: no order shows in the sum.
LEMMA SumAdd ==
    ASSUME NEW g, NEW S, IsFiniteSet(S), NEW x \in S, \A y \in S : g[y] \in Int
    PROVE  SumOver(g, S) = g[x] + SumOver(g, S \ {x})
<1> DEFINE OK(T) == \A y \in T : SumOver(g, T) = g[y] + SumOver(g, T \ {y})
<1> DEFINE B == {T \in SUBSET S : ~OK(T)}
<1>1. SUFFICES ASSUME B # {} PROVE FALSE
  OBVIOUS
<1>2. PICK m \in B : \A y \in B : y \subseteq m => y = m
  <2>1. B \subseteq SUBSET S
    OBVIOUS
  <2> HIDE DEF B
  <2>2. QED
    BY <1>1, <2>1, Smallest
<1> DEFINE c == Pick(m)
<1>3. m # {} /\ m \subseteq S
  BY <1>2
<1>4. c \in m
  BY <1>3, PickIn
<1>5. \A T \in SUBSET m : IsFiniteSet(T)
  BY <1>3, FS_Subset
<1>6. SumOver(g, m) = g[c] + SumOver(g, m \ {c})
  BY <1>3, <1>5, SumStep
<1> HIDE DEF c
<1>7. \A T \in SUBSET m : T # m => OK(T)
  BY <1>2
<1>8. ASSUME NEW y \in m PROVE SumOver(g, m) = g[y] + SumOver(g, m \ {y})
  <2>1. CASE y = c
    BY <2>1, <1>6
  <2>2. CASE y # c
    <3>1. SumOver(g, m \ {c}) = g[y] + SumOver(g, (m \ {c}) \ {y})
      BY <1>4, <1>7, <2>2
    <3>2. SumOver(g, m \ {y}) = g[c] + SumOver(g, (m \ {y}) \ {c})
      BY <1>4, <1>7, <2>2
    <3>3. (m \ {c}) \ {y} = (m \ {y}) \ {c}
      OBVIOUS
    <3>4. SumOver(g, (m \ {c}) \ {y}) \in Int
      <4> DEFINE r == (m \ {c}) \ {y}
      <4>1. IsFiniteSet(r) /\ \A z \in r : g[z] \in Int
        BY <1>3, <1>5
      <4> HIDE DEF r
      <4>2. SumOver(g, r) \in Int
        BY <4>1, SumType
      <4>3. QED
        BY <4>2 DEF r
    <3>5. g[y] \in Int /\ g[c] \in Int
      BY <1>3, <1>4
    <3> DEFINE n == SumOver(g, (m \ {c}) \ {y})
    <3>6. SumOver(g, m \ {c}) = g[y] + n /\ SumOver(g, m \ {y}) = g[c] + n /\ n \in Int
      BY <3>1, <3>2, <3>3, <3>4
    <3> HIDE DEF n
    <3>7. g[c] + (g[y] + n) = g[y] + (g[c] + n)
      BY <3>5, <3>6
    <3>8. QED
      BY <1>6, <3>6, <3>7
  <2>3. QED
    BY <2>1, <2>2
<1>9. QED
  BY <1>2, <1>8

\* One more entry adds its own value.
LEMMA SumExtend ==
    ASSUME NEW g, NEW S, IsFiniteSet(S), NEW x, x \notin S,
           \A y \in S \cup {x} : g[y] \in Int
    PROVE  SumOver(g, S \cup {x}) = g[x] + SumOver(g, S)
<1> DEFINE T == S \cup {x}
<1>1. IsFiniteSet(T) /\ x \in T /\ T \ {x} = S
  BY FS_AddElement
<1>2. \A y \in T : g[y] \in Int
  OBVIOUS
<1> HIDE DEF T
<1>3. SumOver(g, T) = g[x] + SumOver(g, T \ {x})
  BY <1>1, <1>2, SumAdd
<1>4. QED
  BY <1>1, <1>3 DEF T

\* Raising one entry by n raises the sum by n.
LEMMA SumRaise ==
    ASSUME NEW g, NEW f, NEW S, IsFiniteSet(S), NEW x \in S, NEW n \in Int,
           \A y \in S : g[y] \in Int, f[x] = g[x] + n, \A y \in S : y # x => f[y] = g[y]
    PROVE  SumOver(f, S) = SumOver(g, S) + n
<1> DEFINE R == S \ {x}
<1>1. IsFiniteSet(R) /\ \A y \in R : f[y] = g[y] /\ g[y] \in Int
  BY FS_RemoveElement
<1>2. \A y \in S : f[y] \in Int
  OBVIOUS
<1>3. SumOver(g, S) = g[x] + SumOver(g, R) /\ SumOver(f, S) = f[x] + SumOver(f, R)
  BY <1>2, SumAdd
<1> HIDE DEF R
<1>4. SumOver(f, R) = SumOver(g, R) /\ SumOver(g, R) \in Int
  BY <1>1, SumCongruent, SumType
<1> DEFINE m == SumOver(g, R)
<1>5. SumOver(g, S) = g[x] + m /\ SumOver(f, S) = g[x] + n + m /\ m \in Int /\ g[x] \in Int
  BY <1>3, <1>4
<1> HIDE DEF m
<1>6. QED
  BY <1>5

\* A sum of zeros is 0.
LEMMA SumZero ==
    ASSUME NEW g, NEW S, IsFiniteSet(S), \A x \in S : g[x] = 0
    PROVE  SumOver(g, S) = 0
<1> DEFINE B == {T \in SUBSET S : SumOver(g, T) # 0}
<1>1. SUFFICES ASSUME B # {} PROVE FALSE
  OBVIOUS
<1>2. PICK m \in B : \A y \in B : y \subseteq m => y = m
  <2>1. B \subseteq SUBSET S
    OBVIOUS
  <2> HIDE DEF B
  <2>2. QED
    BY <1>1, <2>1, Smallest
<1>3. m # {} /\ IsFiniteSet(m)
  BY <1>2, SumEmpty, FS_Subset
<1>4. Pick(m) \in m /\ g[Pick(m)] = 0
  BY <1>2, <1>3, PickIn
<1>5. SumOver(g, m) = g[Pick(m)] + SumOver(g, m \ {Pick(m)})
  BY <1>3, SumStep
<1>6. SumOver(g, m \ {Pick(m)}) = 0
  BY <1>2, <1>4
<1>7. QED
  BY <1>2, <1>4, <1>5, <1>6

\* What holds of every entry up to factors holds of the sums.
LEMMA SumScaled ==
    ASSUME NEW g, NEW f, NEW S, IsFiniteSet(S), NEW a \in Nat, NEW b \in Nat,
           \A x \in S : f[x] \in Nat /\ g[x] \in Nat /\ a * f[x] <= b * g[x]
    PROVE  a * SumOver(f, S) <= b * SumOver(g, S)
<1> DEFINE B == {T \in SUBSET S : ~ (a * SumOver(f, T) <= b * SumOver(g, T))}
<1>1. SUFFICES ASSUME B # {} PROVE FALSE
  OBVIOUS
<1>2. PICK m \in B : \A y \in B : y \subseteq m => y = m
  <2>1. B \subseteq SUBSET S
    OBVIOUS
  <2> HIDE DEF B
  <2>2. QED
    BY <1>1, <2>1, Smallest
<1>3. m # {} /\ m \subseteq S /\ IsFiniteSet(m)
  <2>1. SumOver(f, {}) = 0 /\ SumOver(g, {}) = 0
    BY SumEmpty
  <2>2. a * 0 <= b * 0
    OBVIOUS
  <2> QED BY <1>2, <2>1, <2>2, FS_Subset
<1> DEFINE c == Pick(m)
           r == m \ {c}
           F == SumOver(f, r)
           G == SumOver(g, r)
<1>4. c \in m /\ c \in S
  BY <1>3, PickIn
<1>5. SumOver(f, m) = f[c] + F /\ SumOver(g, m) = g[c] + G
  BY <1>3, SumStep
<1> HIDE DEF c
<1>6. IsFiniteSet(r) /\ r \subseteq S
  BY <1>3, FS_Subset
<1>7. F \in Nat /\ G \in Nat
  <2> HIDE DEF r
  <2> QED BY <1>6, SumType
<1>8. a * F <= b * G
  BY <1>2, <1>4
<1>9. f[c] \in Nat /\ g[c] \in Nat /\ a * f[c] <= b * g[c]
  BY <1>4
<1> HIDE DEF F, G
<1>10. /\ a * (f[c] + F) = a * f[c] + a * F /\ b * (g[c] + G) = b * g[c] + b * G
       /\ a * f[c] \in Nat /\ a * F \in Nat /\ b * g[c] \in Nat /\ b * G \in Nat
  BY <1>7, <1>9
<1>11. a * (f[c] + F) <= b * (g[c] + G)
  BY <1>8, <1>9, <1>10
<1>12. QED
  BY <1>2, <1>5, <1>11

\* A larger function has a larger sum.
LEMMA SumMonotone ==
    ASSUME NEW g, NEW f, NEW S, IsFiniteSet(S),
           \A x \in S : f[x] \in Nat /\ g[x] \in Nat /\ f[x] <= g[x]
    PROVE  SumOver(f, S) <= SumOver(g, S)
<1>1. \A x \in S : f[x] \in Nat /\ g[x] \in Nat /\ 1 * f[x] <= 1 * g[x]
  OBVIOUS
<1>2. 1 * SumOver(f, S) <= 1 * SumOver(g, S)
  BY <1>1, SumScaled
<1>3. SumOver(f, S) \in Nat /\ SumOver(g, S) \in Nat
  BY SumType
<1>4. QED
  BY <1>2, <1>3

\* No entry exceeds the sum.
LEMMA SumPart ==
    ASSUME NEW g, NEW S, IsFiniteSet(S), \A x \in S : g[x] \in Nat, NEW x \in S
    PROVE  g[x] <= SumOver(g, S)
<1> DEFINE r == S \ {x}
<1>1. SumOver(g, S) = g[x] + SumOver(g, r)
  BY SumAdd
<1>2. IsFiniteSet(r) /\ \A y \in r : g[y] \in Nat
  BY FS_Subset
<1> HIDE DEF r
<1>3. SumOver(g, r) \in Nat
  BY <1>2, SumType
<1>4. QED
  BY <1>1, <1>3

\* A sum of ones is the number of entries.
LEMMA SumOnes ==
    ASSUME NEW g, NEW S, IsFiniteSet(S), \A x \in S : g[x] = 1
    PROVE  SumOver(g, S) = Cardinality(S)
<1> DEFINE B == {T \in SUBSET S : SumOver(g, T) # Cardinality(T)}
<1>1. SUFFICES ASSUME B # {} PROVE FALSE
  OBVIOUS
<1>2. PICK m \in B : \A y \in B : y \subseteq m => y = m
  <2>1. B \subseteq SUBSET S
    OBVIOUS
  <2> HIDE DEF B
  <2>2. QED
    BY <1>1, <2>1, Smallest
<1>3. m # {} /\ m \subseteq S /\ IsFiniteSet(m)
  BY <1>2, SumEmpty, FS_EmptySet, FS_Subset
<1> DEFINE c == Pick(m)
           r == m \ {c}
<1>4. c \in m /\ g[c] = 1
  BY <1>3, PickIn
<1>5. SumOver(g, m) = g[c] + SumOver(g, r)
  BY <1>3, SumStep
<1> HIDE DEF c
<1>6. SumOver(g, r) = Cardinality(r)
  BY <1>2, <1>4
<1>7. Cardinality(r) = Cardinality(m) - 1 /\ Cardinality(m) \in Nat
  BY <1>3, <1>4, FS_RemoveElement, FS_CardinalityType
<1> HIDE DEF r
<1>8. QED
  BY <1>2, <1>4, <1>5, <1>6, <1>7
=============================================================================
