-------------------------- MODULE NewsFeed_proofs ---------------------------
(***************************************************************************)
(* Proof of the safety properties of the news feed, for any number of runs *)
(* on one cache directory, any plan, page size and budgets.  The last part *)
(* proves that paging loses nothing: the places of a window's articles are *)
(* consecutive, so a short page is the last.                               *)
(***************************************************************************)
EXTENDS NewsFeed, FiniteSetTheorems, WellFoundedInduction, TLAPS

-----------------------------------------------------------------------------
(* Finite sets *)

\* Among finite sets given for the elements of a nonempty set one is smallest.
LEMMA SmallestSet ==
    ASSUME NEW U, NEW S, S # {}, NEW f \in [S -> FiniteSubsetsOf(U)]
    PROVE  \E m \in S : \A d \in S : f[d] \subseteq f[m] => f[d] = f[m]
<1> DEFINE R == StrictSubsetOrdering(U)
           Chosen == {f[d] : d \in S}
<1>1. IsWellFoundedOn(R, FiniteSubsetsOf(U))
  BY FS_StrictSubsetOrderingWellFounded
<1>2. Chosen \subseteq FiniteSubsetsOf(U) /\ Chosen # {}
  OBVIOUS
<1>3. \A y, x \in SUBSET U : y \subseteq x /\ y # x => <<y, x>> \in R
  BY DEF StrictSubsetOrdering
<1>4. PICK x \in Chosen : \A y \in Chosen : ~ (<<y, x>> \in R)
  <2> HIDE DEF Chosen, R
  <2> QED BY <1>1, <1>2, WFMin, Zenon
<1>5. PICK m \in S : x = f[m]
  OBVIOUS
<1>6. \A d \in S : f[d] \in Chosen /\ f[d] \in SUBSET U
  BY DEF FiniteSubsetsOf
<1> HIDE DEF Chosen, R
<1>7. QED
  BY <1>3, <1>4, <1>5, <1>6

\* Some element of a nonempty set has the least number.
LEMMA LeastNumber ==
    ASSUME NEW S, S # {}, NEW f \in [S -> Nat]
    PROVE  \E m \in S : \A d \in S : f[m] <= f[d]
<1> DEFINE g == [d \in S |-> 0 .. f[d]]
           U == Nat
<1>1. \A d \in S : (0 .. f[d]) \in FiniteSubsetsOf(U)
  BY FS_Interval DEF FiniteSubsetsOf
<1>2. g \in [S -> FiniteSubsetsOf(U)]
  BY <1>1
<1>3. PICK m \in S : \A d \in S : g[d] \subseteq g[m] => g[d] = g[m]
  <2> HIDE DEF g, U
  <2> QED BY <1>2, SmallestSet
<1>4. \A d \in S : f[m] <= f[d]
  <2> SUFFICES ASSUME NEW d \in S, f[d] < f[m] PROVE FALSE
    OBVIOUS
  <2>1. 0 .. f[d] \subseteq 0 .. f[m] /\ f[m] \in 0 .. f[m] /\ f[m] \notin 0 .. f[d]
    OBVIOUS
  <2>2. g[d] = 0 .. f[d] /\ g[m] = 0 .. f[m]
    OBVIOUS
  <2> HIDE DEF g
  <2> QED BY <1>3, <2>1, <2>2
<1>5. QED
  BY <1>4

\* The n first articles of a list are at most n.
LEMMA FirstFoundCount ==
    ASSUME NEW S \in SUBSET (Nat \X Nat), IsFiniteSet(S), NEW n \in Nat
    PROVE  /\ FirstFound(S, n) \in SUBSET S /\ IsFiniteSet(FirstFound(S, n))
           /\ Cardinality(FirstFound(S, n)) <= n
<1> DEFINE Before(y, x) == y[1] < x[1] \/ (y[1] = x[1] /\ y[2] < x[2])
           F == FirstFound(S, n)
           Front(x) == {y \in S : Before(y, x)}
<1>1. F = {x \in S : Cardinality(Front(x)) < n}
  BY DEF FirstFound
<1>2. F \in SUBSET S
  BY <1>1
<1>3. IsFiniteSet(F)
  BY <1>2, FS_Subset
<1>4. \A x, y, z \in S : Before(x, y) /\ Before(y, z) => Before(x, z)
  OBVIOUS
<1>5. \A x, y \in S : x = y \/ Before(x, y) \/ Before(y, x)
  OBVIOUS
<1>6. \A x \in S : ~Before(x, x)
  OBVIOUS
<1> HIDE DEF Before
<1>7. CASE F = {}
  BY <1>2, <1>3, <1>7, FS_EmptySet
<1>8. CASE F # {}
  <2> DEFINE g == [x \in F |-> {y \in F : ~Before(y, x)}]
  <2>1. \A x \in F : {y \in F : ~Before(y, x)} \in FiniteSubsetsOf(F)
    BY <1>3, FS_Subset DEF FiniteSubsetsOf
  <2>2. g \in [F -> FiniteSubsetsOf(F)]
    BY <2>1
  <2>3. PICK m \in F : \A d \in F : g[d] \subseteq g[m] => g[d] = g[m]
    <3> HIDE DEF g, F
    <3> QED BY <1>8, <2>2, SmallestSet
  <2>4. \A d \in F : ~Before(m, d)
    <3> SUFFICES ASSUME NEW d \in F, Before(m, d) PROVE FALSE
      OBVIOUS
    <3> HIDE DEF F
    <3>1. g[d] \subseteq g[m]
      BY <1>2, <1>4
    <3>2. m \in g[m] /\ m \notin g[d]
      BY <1>2, <1>6
    <3> QED BY <2>3, <3>1, <3>2
  <2>5. F \ {m} \subseteq Front(m)
    <3> HIDE DEF F
    <3> QED BY <1>2, <1>5, <2>4
  <2>6. Cardinality(Front(m)) < n /\ m \in F
    <3> HIDE DEF Front
    <3> QED BY <1>1
  <2>7. IsFiniteSet(Front(m))
    BY FS_Subset
  <2> HIDE DEF F, Front
  <2>8. Cardinality(F \ {m}) <= Cardinality(Front(m))
    BY <2>5, <2>7, FS_Subset
  <2>9. Cardinality(F \ {m}) = Cardinality(F) - 1
    BY <1>3, <2>6, FS_RemoveElement
  <2>10. Cardinality(F) \in Nat /\ Cardinality(Front(m)) \in Nat
    BY <1>3, <2>7, FS_CardinalityType
  <2>11. Cardinality(F) <= n
    BY <2>6, <2>8, <2>9, <2>10
  <2> QED BY <1>2, <1>3, <2>11 DEF F
<1>9. QED
  BY <1>7, <1>8

-----------------------------------------------------------------------------
(* The invariant *)

RunType ==
    [phase : Phases, asOf : Nat, fail : BOOLEAN, exports : SUBSET Articles,
     query : Nat, current : Int, page : 1 .. MaxPages, attempt : 0 .. MaxAttempts - 1,
     found : SUBSET ((1 .. MaxPages) \X Articles), body : SUBSET Articles, at : Nat,
     calls : 0 .. MaxApiCalls, fetched : 0 .. MaxArticles, posts : Nat,
     collected : SUBSET Articles, ranked : SUBSET Articles, news : SUBSET Records,
     closed : BOOLEAN, whole : SUBSET Slices]

\* The request of a run in state x.
RequestOf(x) ==
    [label |-> Plan[x.asOf][x.query].label, from |-> x.current,
     to |-> ChunkEnd(x.current, Plan[x.asOf][x.query].to), page |-> x.page]

InPlan(x) ==
    x.phase \in {"page", "write"} => x.asOf \in AsOfDays /\ x.query \in DOMAIN Plan[x.asOf]

\* Requests sent against calls answered and attempts of the call under way.
WithinBudget(x) ==
    /\ x.posts <= MaxApiCalls * MaxAttempts
    /\ x.phase = "page" => x.posts <= x.calls * MaxAttempts + x.attempt
    /\ x.phase = "page" /\ x.attempt > 0 => x.calls < MaxApiCalls /\ x.fetched < MaxArticles
    /\ x.phase = "write" => x.posts <= x.calls * MaxAttempts

Truthful(x) == x.phase = "write" => x.body = Answer(RequestOf(x), x.at)

Counted(x) == Cardinality(x.collected) <= x.fetched

StoriesKept(x) ==
    x.phase = "combine" =>
        \A a \in x.collected : Pub[a] <= Cutoff(x.asOf) =>
            \E n \in x.news : Cluster[n.article] = Cluster[a]

StateOK(x) ==
    InPlan(x) /\ WithinBudget(x) /\ Truthful(x) /\ Counted(x) /\ StoriesKept(x)

Entries == [body : SUBSET Articles, at : Nat]
DiskOK == \E S \in SUBSET Requests : disk \in [S -> {Torn} \cup Entries]

FeedInv ==
    /\ now \in StartInstant .. MaxInstant
    /\ DiskOK /\ PagesAreAnswers
    /\ run \in [Runs -> RunType]
    /\ \A r \in Runs : StateOK(run[r])

LEMMA IdleOK == Idle \in RunType /\ StateOK(Idle)
<1>1. Idle \in RunType
  BY WindowAssumption, FeedAssumption DEF Idle, RunType, Phases
<1>2. Cardinality(Idle.collected) = 0
  BY FS_EmptySet DEF Idle
<1>3. Idle.posts <= MaxApiCalls * MaxAttempts
  BY FeedAssumption DEF Idle
<1>4. InPlan(Idle) /\ Truthful(Idle) /\ StoriesKept(Idle)
  BY DEF Idle, InPlan, Truthful, StoriesKept
<1>5. WithinBudget(Idle) /\ Counted(Idle)
  BY <1>2, <1>3 DEF Idle, WithinBudget, Counted
<1>6. QED
  BY <1>1, <1>4, <1>5 DEF StateOK

LEMMA FeedInit == Init => FeedInv
<1> SUFFICES ASSUME Init PROVE FeedInv
  OBVIOUS
<1>1. disk \in [{} -> {Torn} \cup Entries]
  BY DEF Init
<1>2. DiskOK
  BY <1>1 DEF DiskOK
<1>3. PagesAreAnswers
  BY <1>1 DEF PagesAreAnswers
<1>4. run \in [Runs -> RunType] /\ \A r \in Runs : StateOK(run[r])
  BY IdleOK DEF Init
<1>5. QED
  BY <1>2, <1>3, <1>4, FeedAssumption DEF FeedInv, Init

\* A run that moves keeps the invariant if its new state and the cache do.
LEMMA RunMoves ==
    ASSUME FeedInv, NEW r \in Runs, NEW x \in RunType, StateOK(x),
           run' = [run EXCEPT ![r] = x], now' = now, DiskOK', PagesAreAnswers'
    PROVE  FeedInv'
<1>1. run' \in [Runs -> RunType]
  BY DEF FeedInv
<1>2. ASSUME NEW q \in Runs PROVE StateOK(run'[q])
  <2>1. run'[q] = IF q = r THEN x ELSE run[q]
    BY DEF FeedInv
  <2> QED BY <2>1 DEF FeedInv
<1>3. QED
  BY <1>1, <1>2 DEF FeedInv

\* The cache as it is.
LEMMA DiskKept == ASSUME FeedInv, disk' = disk PROVE DiskOK' /\ PagesAreAnswers'
  BY DEF FeedInv, DiskOK, PagesAreAnswers

-----------------------------------------------------------------------------
(* Requests and answers *)

LEMMA ElementTyped == ASSUME NEW T, NEW P \in Seq(T), NEW i \in DOMAIN P PROVE P[i] \in T
  OBVIOUS

LEMMA QueryTyped ==
    ASSUME NEW x \in RunType, InPlan(x), x.phase \in {"page", "write"}
    PROVE  /\ Plan[x.asOf][x.query] \in [label : DOMAIN Match, from : Int, to : Int]
           /\ ChunkEnd(x.current, Plan[x.asOf][x.query].to) \in Int
           /\ RequestOf(x) \in Requests
<1>1. x.asOf \in AsOfDays /\ x.query \in DOMAIN Plan[x.asOf]
  BY DEF InPlan
<1>2. Plan[x.asOf] \in Seq([label : DOMAIN Match, from : Int, to : Int])
  BY <1>1, PlanAssumption
<1>3. Plan[x.asOf][x.query] \in [label : DOMAIN Match, from : Int, to : Int]
  BY <1>1, <1>2, ElementTyped
<1>4. ChunkEnd(x.current, Plan[x.asOf][x.query].to) \in Int
  <2>1. x.current \in Int
    BY DEF RunType
  <2> QED BY <1>3, <2>1, WindowAssumption DEF ChunkEnd
<1>5. x.current \in Int /\ x.page \in 1 .. MaxPages
  BY DEF RunType
<1>6. QED
  BY <1>3, <1>4, <1>5 DEF RequestOf, Requests

LEMMA RequestIs ==
    ASSUME NEW r \in Runs
    PROVE  /\ Request(r) = RequestOf(run[r])
           /\ To(r) = ChunkEnd(run[r].current, Plan[run[r].asOf][run[r].query].to)
  BY DEF Request, RequestOf, Query, To

LEMMA AnswerTyped == ASSUME NEW q \in Requests, NEW t PROVE Answer(q, t) \in SUBSET Articles
<1>1. q.label \in DOMAIN Match
  BY DEF Requests
<1>2. Match[q.label] \in SUBSET Articles
  BY <1>1, FeedAssumption
<1>3. QED
  BY <1>2 DEF Answer, InSlice

\* Budgets as products.
LEMMA Products ==
    ASSUME NEW c \in 0 .. MaxApiCalls
    PROVE  /\ c * MaxAttempts \in Nat /\ c * MaxAttempts <= MaxApiCalls * MaxAttempts
           /\ c < MaxApiCalls =>
                /\ (c + 1) * MaxAttempts = c * MaxAttempts + MaxAttempts
                /\ (c + 1) * MaxAttempts <= MaxApiCalls * MaxAttempts
<1>1. \A m, n, k \in Nat : m <= n => m * k <= n * k
  OBVIOUS
<1>2. \A m, k \in Nat : m * k \in Nat /\ (m + 1) * k = m * k + k
  OBVIOUS
<1>3. c \in Nat /\ MaxApiCalls \in Nat /\ MaxAttempts \in Nat /\ c <= MaxApiCalls
  BY FeedAssumption
<1>4. QED
  BY <1>1, <1>2, <1>3

-----------------------------------------------------------------------------
(* A search comes to its end *)

LEMMA FoundFinite ==
    ASSUME NEW found \in SUBSET ((1 .. MaxPages) \X Articles)
    PROVE  IsFiniteSet(found) /\ found \in SUBSET (Nat \X Nat)
<1>1. IsFiniteSet(1 .. MaxPages) /\ IsFiniteSet(Articles)
  <2>1. 1 \in Int /\ MaxPages \in Int
    BY FeedAssumption
  <2> QED BY <2>1, FS_Interval, ArticleAssumption
<1>2. IsFiniteSet((1 .. MaxPages) \X Articles)
  BY <1>1, FS_Product
<1>3. (1 .. MaxPages) \X Articles \subseteq Nat \X Nat
  BY ArticleAssumption, FeedAssumption
<1>4. QED
  BY <1>2, <1>3, FS_Subset

\* The articles of a list are no more than its entries.
LEMMA ArticlesOf ==
    ASSUME NEW kept \in SUBSET ((1 .. MaxPages) \X Articles), IsFiniteSet(kept)
    PROVE  LET T == {x[2] : x \in kept}
           IN  /\ T \in SUBSET Articles /\ IsFiniteSet(T)
               /\ Cardinality(T) <= Cardinality(kept)
<1> DEFINE T == {x[2] : x \in kept}
           f == [x \in kept |-> x[2]]
<1>1. f \in Surjection(kept, T)
  BY DEF Surjection
<1>2. T \in SUBSET Articles
  OBVIOUS
<1> HIDE DEF T, f
<1>3. IsFiniteSet(T) /\ Cardinality(T) <= Cardinality(kept)
  BY <1>1, FS_Surjection
<1>4. QED
  BY <1>2, <1>3 DEF T

\* At the end of a search the budgets are kept, the collected articles are no
\* more than were counted and the plan goes on with a query it has.
LEMMA FinishedOK ==
    ASSUME FeedInv, NEW r \in Runs, run[r].phase \in {"page", "write"},
           NEW state \in RunType, state.asOf = run[r].asOf,
           state.collected = run[r].collected, state.fetched = run[r].fetched,
           state.posts <= state.calls * MaxAttempts,
           NEW found \in SUBSET ((1 .. MaxPages) \X Articles), NEW limited \in BOOLEAN
    PROVE  /\ Finished(r, state, found, limited) \in RunType
           /\ StateOK(Finished(r, state, found, limited))
<1> DEFINE kept == FirstFound(found, Remaining(r))
           read == {x[2] : x \in kept}
           P == Plan[run[r].asOf]
           last == To(r) = Query(r).to
           q == IF last THEN run[r].query + 1 ELSE run[r].query
           done == q > Len(P)
           slice == [label |-> Query(r).label, from |-> run[r].current, to |-> To(r)]
           current == IF done THEN state.current ELSE IF last THEN P[q].from ELSE To(r) + 1
           whole == IF state.closed /\ ~limited THEN state.whole \cup {slice} ELSE state.whole
           x == Finished(r, state, found, limited)
<1>1. /\ run[r] \in RunType /\ StateOK(run[r]) /\ InPlan(run[r]) /\ Counted(run[r])
      /\ run[r].asOf \in AsOfDays /\ run[r].query \in DOMAIN P
  BY DEF FeedInv, StateOK, InPlan
<1>2. /\ Query(r) \in [label : DOMAIN Match, from : Int, to : Int]
      /\ To(r) \in Int /\ run[r].current \in Int
  BY <1>1, QueryTyped, RequestIs DEF Query, RunType
<1>3. Remaining(r) \in Nat /\ run[r].fetched + Remaining(r) = MaxArticles
  BY <1>1, WindowAssumption DEF Remaining, RunType
<1>4. /\ kept \in SUBSET found /\ IsFiniteSet(kept) /\ Cardinality(kept) <= Remaining(r)
      /\ Cardinality(kept) \in Nat
  <2>1. kept \in SUBSET found /\ IsFiniteSet(kept) /\ Cardinality(kept) <= Remaining(r)
    BY <1>3, FoundFinite, FirstFoundCount
  <2> QED BY <2>1, FS_CardinalityType
<1> HIDE DEF kept
<1>5. read \in SUBSET Articles /\ IsFiniteSet(read) /\ Cardinality(read) <= Cardinality(kept)
  BY <1>4, ArticlesOf
<1> HIDE DEF read
<1>6. /\ state.collected \cup read \in SUBSET Articles
      /\ Cardinality(state.collected \cup read) <= state.fetched + Cardinality(kept)
      /\ state.fetched + Cardinality(kept) \in 0 .. MaxArticles
  <2>1. state.collected \in SUBSET Articles /\ IsFiniteSet(state.collected)
    BY ArticleAssumption, FS_Subset DEF RunType
  <2>2. Cardinality(state.collected) <= state.fetched /\ state.fetched \in Nat
    BY <1>1 DEF Counted, RunType
  <2>3. Cardinality(state.collected \cup read) =
            Cardinality(state.collected) + Cardinality(read)
                - Cardinality(state.collected \cap read)
    BY <1>5, <2>1, FS_Union
  <2>4. /\ Cardinality(state.collected) \in Nat /\ Cardinality(read) \in Nat
        /\ Cardinality(state.collected \cap read) \in Nat
    BY <1>5, <2>1, FS_Subset, FS_CardinalityType
  <2>5. state.fetched + Cardinality(kept) \in 0 .. MaxArticles
    BY <1>3, <1>4, <2>2, WindowAssumption
  <2>6. state.collected \cup read \in SUBSET Articles
    BY <1>5, <2>1
  <2>7. Cardinality(state.collected \cup read) <= state.fetched + Cardinality(kept)
    BY <1>4, <1>5, <2>2, <2>3, <2>4
  <2> QED BY <2>5, <2>6, <2>7
<1>7. P \in Seq([label : DOMAIN Match, from : Int, to : Int])
  BY <1>1, PlanAssumption
<1>8. q \in Nat /\ (~done => q \in DOMAIN P)
  <2> HIDE DEF P, last
  <2> QED BY <1>1, <1>7
<1>9. current \in Int
  <2>1. ~done => P[q] \in [label : DOMAIN Match, from : Int, to : Int]
    <3> HIDE DEF P, q, done
    <3> QED BY <1>7, <1>8, ElementTyped
  <2>2. state.current \in Int
    BY DEF RunType
  <2> HIDE DEF P, q, done, last
  <2> QED BY <1>2, <2>1, <2>2
<1>10. whole \in SUBSET Slices
  <2>1. slice \in Slices
    BY <1>2 DEF Slices
  <2>2. state.whole \in SUBSET Slices
    BY DEF RunType
  <2> HIDE DEF slice
  <2> QED BY <2>1, <2>2
<1>11. x = [state EXCEPT
            !.phase = IF done THEN "select" ELSE "page",
            !.query = q, !.current = current,
            !.page = 1, !.attempt = 0, !.found = {}, !.closed = TRUE,
            !.fetched = state.fetched + Cardinality(kept),
            !.collected = state.collected \cup read,
            !.whole = whole]
  BY DEF Finished, kept, read
<1> HIDE DEF P, last, q, done, slice, current, whole, x
<1>12. x \in RunType
  <2>1. 1 \in 1 .. MaxPages /\ 0 \in 0 .. MaxAttempts - 1
    BY FeedAssumption
  <2> QED BY <1>6, <1>8, <1>9, <1>10, <1>11, <2>1 DEF RunType, Phases
<1>13. /\ x.phase = (IF done THEN "select" ELSE "page") /\ x.query = q /\ x.attempt = 0
       /\ x.fetched = state.fetched + Cardinality(kept)
       /\ x.collected = state.collected \cup read
       /\ x.asOf = state.asOf /\ x.posts = state.posts /\ x.calls = state.calls
       /\ x.news = state.news
  BY <1>11 DEF RunType
<1>14. InPlan(x)
  BY <1>1, <1>8, <1>13 DEF InPlan, P
<1>15. WithinBudget(x)
  <2>1. state.calls \in 0 .. MaxApiCalls /\ state.posts \in Nat
    BY DEF RunType
  <2>2. /\ state.calls * MaxAttempts \in Nat /\ MaxApiCalls * MaxAttempts \in Nat
        /\ state.calls * MaxAttempts <= MaxApiCalls * MaxAttempts
    BY <2>1, Products, FeedAssumption
  <2>3. state.posts <= MaxApiCalls * MaxAttempts
    <3> DEFINE a == state.calls * MaxAttempts
               b == MaxApiCalls * MaxAttempts
    <3>1. a \in Nat /\ b \in Nat /\ a <= b /\ state.posts <= a /\ state.posts \in Nat
      BY <2>1, <2>2
    <3> HIDE DEF a, b
    <3>2. state.posts <= b
      BY <3>1
    <3> QED BY <3>2 DEF b
  <2>4. state.posts <= state.calls * MaxAttempts + 0
    BY <2>1, <2>2
  <2> QED BY <1>13, <2>3, <2>4 DEF WithinBudget
<1>16. Counted(x)
  BY <1>6, <1>13 DEF Counted
<1>17. Truthful(x) /\ StoriesKept(x)
  BY <1>13 DEF Truthful, StoriesKept
<1>18. QED
  BY <1>12, <1>14, <1>15, <1>16, <1>17 DEF StateOK, x

\* A page that arrives ends the search or leads to the next page.
LEMMA TakePageOK ==
    ASSUME FeedInv, NEW r \in Runs, run[r].phase \in {"page", "write"},
           NEW state \in RunType, state.asOf = run[r].asOf, state.query = run[r].query,
           state.page = run[r].page, state.collected = run[r].collected,
           state.fetched = run[r].fetched, state.news = run[r].news,
           state.posts = run[r].posts, state.calls = run[r].calls,
           state.posts <= state.calls * MaxAttempts,
           NEW body \in SUBSET Articles, NEW at
    PROVE  TakePage(r, state, body, at) \in RunType /\ StateOK(TakePage(r, state, body, at))
<1> DEFINE found == run[r].found \cup {<<run[r].page, a>> : a \in body \ Unreadable}
           short == Cardinality(body) < PageSize
           full == BudgetReached(r, found)
           told == [state EXCEPT !.closed = state.closed /\ Day(at) > To(r)]
           over == short \/ run[r].page = MaxPages \/ full
           next == [told EXCEPT !.phase = "page", !.page = told.page + 1, !.attempt = 0,
                                !.found = found]
<1>1. run[r] \in RunType /\ StateOK(run[r])
  BY DEF FeedInv
<1>2. found \in SUBSET ((1 .. MaxPages) \X Articles)
  <2>1. run[r].found \in SUBSET ((1 .. MaxPages) \X Articles) /\ run[r].page \in 1 .. MaxPages
    BY <1>1 DEF RunType
  <2>2. {<<run[r].page, a>> : a \in body \ Unreadable} \in SUBSET ((1 .. MaxPages) \X Articles)
    BY <2>1
  <2> QED BY <2>1, <2>2
<1>3. full \in BOOLEAN /\ short \in BOOLEAN
  BY DEF BudgetReached
<1>4. /\ told \in RunType /\ told.asOf = run[r].asOf /\ told.collected = run[r].collected
      /\ told.fetched = run[r].fetched /\ told.posts = state.posts /\ told.calls = state.calls
      /\ told.news = run[r].news /\ told.page = run[r].page /\ told.query = run[r].query
  BY DEF RunType
<1>6. TakePage(r, state, body, at) = IF over THEN Finished(r, told, found, full \/ ~short) ELSE next
  BY DEF TakePage
<1> HIDE DEF told, found, full, short
<1>7. CASE over
  <2>1. Finished(r, told, found, full \/ ~short) \in RunType
        /\ StateOK(Finished(r, told, found, full \/ ~short))
    BY <1>2, <1>3, <1>4, FinishedOK
  <2> QED BY <1>6, <1>7, <2>1
<1>8. CASE ~over
  <2>1. told.page + 1 \in 1 .. MaxPages
    BY <1>1, <1>4, <1>8, FeedAssumption DEF RunType
  <2>2. 0 \in 0 .. MaxAttempts - 1
    BY FeedAssumption
  <2>3. next \in RunType
    BY <1>2, <1>4, <2>1, <2>2 DEF RunType, Phases
  <2>4. /\ next.phase = "page" /\ next.asOf = run[r].asOf /\ next.attempt = 0
        /\ next.collected = run[r].collected /\ next.fetched = run[r].fetched
        /\ next.posts = state.posts /\ next.calls = state.calls /\ next.news = run[r].news
        /\ next.query = run[r].query
    BY <1>4 DEF RunType
  <2> HIDE DEF next
  <2>5. InPlan(next)
    BY <1>1, <2>4 DEF StateOK, InPlan
  <2>6. WithinBudget(next)
    <3>1. state.calls * MaxAttempts \in Nat /\ state.posts \in Nat
      BY Products DEF RunType
    <3>2. state.posts <= state.calls * MaxAttempts + 0
      BY <3>1
    <3>3. state.posts <= MaxApiCalls * MaxAttempts
      BY <1>1 DEF StateOK, WithinBudget
    <3> QED BY <2>4, <3>2, <3>3 DEF WithinBudget
  <2>7. Counted(next)
    BY <1>1, <2>4 DEF StateOK, Counted
  <2>8. Truthful(next) /\ StoriesKept(next)
    BY <2>4 DEF Truthful, StoriesKept
  <2>9. StateOK(next)
    BY <2>5, <2>6, <2>7, <2>8 DEF StateOK
  <2> QED BY <1>6, <1>8, <2>3, <2>9
<1>9. QED
  BY <1>7, <1>8

-----------------------------------------------------------------------------
(* The steps *)

LEMMA StartKeeps == ASSUME FeedInv, NEW r \in Runs, Start(r) PROVE FeedInv'
<1>1. PICK asOf \in AsOfDays, fail \in FailOnCatcher :
        run' = [run EXCEPT ![r] =
            [Idle EXCEPT !.phase = "page", !.asOf = asOf, !.fail = fail,
                !.current = Plan[asOf][1].from,
                !.exports = {a \in Exported : Pub[a] <= now}]]
  BY DEF Start
<1> DEFINE exports == {a \in Exported : Pub[a] <= now}
           x == [Idle EXCEPT !.phase = "page", !.asOf = asOf, !.fail = fail,
                    !.current = Plan[asOf][1].from, !.exports = exports]
<1>2. Plan[asOf] \in Seq([label : DOMAIN Match, from : Int, to : Int]) /\ Plan[asOf] # <<>>
  BY PlanAssumption
<1>3. 1 \in DOMAIN Plan[asOf]
  <2> DEFINE P == Plan[asOf]
  <2>1. Len(P) \in Nat /\ Len(P) # 0 /\ DOMAIN P = 1 .. Len(P)
    BY <1>2
  <2> QED BY <2>1
<1>4. Plan[asOf][1].from \in Int
  <2>1. Plan[asOf][1] \in [label : DOMAIN Match, from : Int, to : Int]
    BY <1>2, <1>3, ElementTyped
  <2> QED BY <2>1
<1>5. exports \in SUBSET Articles
  BY FeedAssumption
<1> HIDE DEF exports
<1>6. x \in RunType
  <2>1. asOf \in Nat /\ fail \in BOOLEAN
    BY ArticleAssumption, FeedAssumption
  <2> QED BY <1>4, <1>5, <2>1, IdleOK DEF RunType, Phases
<1>7. /\ x.phase = "page" /\ x.asOf = asOf /\ x.query = 1 /\ x.attempt = 0 /\ x.posts = 0
      /\ x.calls = 0 /\ x.collected = {} /\ x.fetched = 0 /\ x.news = {}
  BY DEF Idle
<1>8. run' = [run EXCEPT ![r] = x]
  BY <1>1 DEF exports
<1>9. x.posts <= MaxApiCalls * MaxAttempts /\ x.posts <= x.calls * MaxAttempts + x.attempt
  BY <1>7, FeedAssumption
<1> HIDE DEF x
<1>10. StateOK(x)
  <2>1. InPlan(x) /\ Truthful(x) /\ StoriesKept(x)
    BY <1>3, <1>7 DEF InPlan, Truthful, StoriesKept
  <2>2. WithinBudget(x)
    BY <1>7, <1>9 DEF WithinBudget
  <2>3. Counted(x)
    BY <1>7, FS_EmptySet DEF Counted
  <2> QED BY <2>1, <2>2, <2>3 DEF StateOK
<1>11. now' = now /\ disk' = disk
  BY DEF Start
<1>12. QED
  BY <1>6, <1>8, <1>10, <1>11, DiskKept, RunMoves

\* A run on a page that has been given up: what is left of it.
LEMMA RaisedOK ==
    ASSUME NEW x \in RunType, x.posts <= MaxApiCalls * MaxAttempts
    PROVE  Raised(x) \in RunType /\ StateOK(Raised(x))
<1> DEFINE y == Raised(x)
<1>1. y \in RunType
  <2>1. 0 \in 0 .. MaxAttempts - 1
    BY FeedAssumption
  <2>2. (IF x.fail THEN "failed" ELSE "combine") \in Phases
    BY DEF Phases
  <2> HIDE DEF Phases
  <2> QED BY <2>1, <2>2 DEF Raised, RunType
<1>2. /\ y.phase \in {"failed", "combine"} /\ y.attempt = 0 /\ y.collected = {}
      /\ y.posts = x.posts /\ y.asOf = x.asOf /\ y.news = x.news /\ y.fetched = x.fetched
  BY DEF Raised, RunType
<1>3. x.fetched \in 0 .. MaxArticles
  BY DEF RunType
<1> HIDE DEF y
<1>4. InPlan(y) /\ Truthful(y) /\ StoriesKept(y) /\ WithinBudget(y)
  BY <1>2 DEF InPlan, Truthful, StoriesKept, WithinBudget
<1>5. Counted(y)
  BY <1>2, <1>3, FS_EmptySet DEF Counted
<1>6. QED
  BY <1>1, <1>4, <1>5 DEF StateOK, y

LEMMA SkipSearchKeeps == ASSUME FeedInv, NEW r \in Runs, SkipSearch(r) PROVE FeedInv'
<1>1. run[r] \in RunType /\ StateOK(run[r]) /\ run[r].phase = "page"
  BY DEF FeedInv, SkipSearch
<1>2. run[r].attempt = 0
  <2>1. ~(run[r].fetched < MaxArticles)
    BY <1>1, WindowAssumption DEF SkipSearch, Remaining, RunType
  <2> QED BY <1>1, <2>1, FeedAssumption DEF StateOK, WithinBudget, RunType
<1>3. run[r].posts <= run[r].calls * MaxAttempts
  <2>1. run[r].posts <= run[r].calls * MaxAttempts + 0
    BY <1>1, <1>2 DEF StateOK, WithinBudget
  <2>2. run[r].calls * MaxAttempts \in Nat /\ run[r].posts \in Nat
    BY <1>1, Products DEF RunType
  <2> QED BY <2>1, <2>2
<1> DEFINE x == Finished(r, run[r], {}, TRUE)
<1>4. x \in RunType /\ StateOK(x)
  <2>1. {} \in SUBSET ((1 .. MaxPages) \X Articles) /\ TRUE \in BOOLEAN
    OBVIOUS
  <2> QED BY <1>1, <1>3, <2>1, FinishedOK
<1>5. run' = [run EXCEPT ![r] = x] /\ now' = now /\ disk' = disk
  BY DEF SkipSearch
<1> HIDE DEF x
<1>6. QED
  BY <1>4, <1>5, DiskKept, RunMoves

LEMMA CacheHitKeeps == ASSUME FeedInv, NEW r \in Runs, CacheHit(r) PROVE FeedInv'
<1>1. run[r] \in RunType /\ StateOK(run[r]) /\ run[r].phase = "page" /\ run[r].attempt = 0
  BY DEF FeedInv, CacheHit
<1>2. run[r].posts <= run[r].calls * MaxAttempts
  <2>1. run[r].posts <= run[r].calls * MaxAttempts + 0
    BY <1>1 DEF StateOK, WithinBudget
  <2>2. run[r].calls * MaxAttempts \in Nat /\ run[r].posts \in Nat
    BY <1>1, Products DEF RunType
  <2> QED BY <2>1, <2>2
<1>3. disk[Request(r)].body \in SUBSET Articles
  <2>1. Request(r) \in DOMAIN disk /\ disk[Request(r)] # Torn
    BY DEF CacheHit, Cached
  <2>2. PICK S \in SUBSET Requests : disk \in [S -> {Torn} \cup Entries]
    BY DEF FeedInv, DiskOK
  <2>3. disk[Request(r)] \in Entries
    BY <2>1, <2>2
  <2> QED BY <2>3 DEF Entries
<1> DEFINE x == TakePage(r, run[r], disk[Request(r)].body, disk[Request(r)].at)
<1>4. x \in RunType /\ StateOK(x)
  BY <1>1, <1>2, <1>3, TakePageOK
<1>5. run' = [run EXCEPT ![r] = x] /\ now' = now /\ disk' = disk
  BY DEF CacheHit
<1> HIDE DEF x
<1>6. QED
  BY <1>4, <1>5, DiskKept, RunMoves

LEMMA RefuseCallKeeps == ASSUME FeedInv, NEW r \in Runs, RefuseCall(r) PROVE FeedInv'
<1>1. run[r] \in RunType /\ StateOK(run[r])
  BY DEF FeedInv
<1>2. Raised(run[r]) \in RunType /\ StateOK(Raised(run[r]))
  BY <1>1, RaisedOK DEF StateOK, WithinBudget
<1>3. run' = [run EXCEPT ![r] = Raised(run[r])] /\ now' = now /\ disk' = disk
  BY DEF RefuseCall
<1>4. QED
  BY <1>2, <1>3, DiskKept, RunMoves

\* A run that may post has an answered call left, and room for the attempt.
LEMMA PostRoom ==
    ASSUME FeedInv, NEW r \in Runs, Posting(r)
    PROVE  /\ run[r] \in RunType /\ StateOK(run[r]) /\ run[r].phase = "page"
           /\ run[r].calls < MaxApiCalls /\ run[r].fetched < MaxArticles
           /\ CountPost(run[r].posts) \in Nat
           /\ CountPost(run[r].posts) <= MaxApiCalls * MaxAttempts
           /\ CountPost(run[r].posts) <= run[r].calls * MaxAttempts + (run[r].attempt + 1)
           /\ CountPost(run[r].posts) <= (run[r].calls + 1) * MaxAttempts
<1>1. run[r] \in RunType /\ StateOK(run[r]) /\ run[r].phase = "page"
  BY DEF FeedInv, Posting, Fetching
<1>2. /\ run[r].calls \in 0 .. MaxApiCalls /\ run[r].attempt \in 0 .. MaxAttempts - 1
      /\ run[r].posts \in Nat /\ run[r].fetched \in 0 .. MaxArticles
  BY <1>1 DEF RunType
<1>3. run[r].calls < MaxApiCalls
  BY <1>1, <1>2 DEF Posting, StateOK, WithinBudget
<1>4. run[r].fetched < MaxArticles
  BY <1>2, WindowAssumption DEF Posting, Fetching, Remaining
<1>5. run[r].posts <= run[r].calls * MaxAttempts + run[r].attempt
  BY <1>1 DEF StateOK, WithinBudget
<1> DEFINE p == run[r].posts
           c == run[r].calls * MaxAttempts
           d == (run[r].calls + 1) * MaxAttempts
           b == MaxApiCalls * MaxAttempts
<1>6. c \in Nat /\ b \in Nat /\ d = c + MaxAttempts /\ d <= b
  BY <1>2, <1>3, Products, FeedAssumption
<1>7. CountPost(p) = IF p + 1 < b + 1 THEN p + 1 ELSE b + 1
  BY DEF CountPost, LeastOf
<1>8. p \in Nat /\ p <= c + run[r].attempt
  BY <1>2, <1>5
<1> HIDE DEF p, c, d, b
<1>9. p + 1 <= d /\ p + 1 <= b
  BY <1>2, <1>6, <1>8, FeedAssumption
<1>10. CountPost(p) \in Nat /\ CountPost(p) <= b /\ CountPost(p) <= c + (run[r].attempt + 1)
       /\ CountPost(p) <= d
  BY <1>2, <1>6, <1>7, <1>8, <1>9
<1>11. QED
  BY <1>1, <1>3, <1>4, <1>10 DEF p, c, d, b

LEMMA PostFailsKeeps == ASSUME FeedInv, NEW r \in Runs, PostFails(r) PROVE FeedInv'
<1>1. /\ run[r] \in RunType /\ StateOK(run[r]) /\ run[r].phase = "page"
      /\ run[r].calls < MaxApiCalls /\ run[r].fetched < MaxArticles
      /\ CountPost(run[r].posts) \in Nat
      /\ CountPost(run[r].posts) <= MaxApiCalls * MaxAttempts
      /\ CountPost(run[r].posts) <= run[r].calls * MaxAttempts + (run[r].attempt + 1)
  BY PostRoom DEF PostFails
<1> DEFINE posts == CountPost(run[r].posts)
           tried == [run[r] EXCEPT !.posts = posts, !.attempt = run[r].attempt + 1]
           given == [run[r] EXCEPT !.posts = posts]
<1>2. now' = now /\ disk' = disk
  BY DEF PostFails
<1>3. run' = [run EXCEPT ![r] = IF tried.attempt = MaxAttempts THEN Raised(tried) ELSE tried]
  BY DEF PostFails
<1> HIDE DEF posts
<1>4. posts \in Nat /\ posts <= MaxApiCalls * MaxAttempts
      /\ posts <= run[r].calls * MaxAttempts + (run[r].attempt + 1)
  BY <1>1 DEF posts
<1>5. run[r].attempt \in 0 .. MaxAttempts - 1
  BY <1>1 DEF RunType
<1>6. tried.attempt = run[r].attempt + 1
  BY <1>1 DEF RunType
<1>7. CASE tried.attempt = MaxAttempts
  <2>1. given \in RunType
    BY <1>1, <1>4 DEF RunType
  <2>2. Raised(tried) = Raised(given)
    BY <1>1 DEF Raised, RunType
  <2>3. given.posts = posts /\ given.asOf = run[r].asOf /\ given.news = run[r].news
    BY <1>1 DEF RunType
  <2> HIDE DEF given
  <2>5. Raised(given) \in RunType /\ StateOK(Raised(given))
    BY <1>4, <2>1, <2>3, RaisedOK
  <2>6. run' = [run EXCEPT ![r] = Raised(given)]
    BY <1>3, <1>7, <2>2
  <2> QED BY <1>2, <2>5, <2>6, DiskKept, RunMoves
<1>8. CASE tried.attempt # MaxAttempts
  <2>1. run[r].attempt + 1 \in 0 .. MaxAttempts - 1
    BY <1>5, <1>6, <1>8, FeedAssumption
  <2>2. tried \in RunType
    BY <1>1, <1>4, <2>1 DEF RunType
  <2>3. /\ tried.posts = posts /\ tried.asOf = run[r].asOf /\ tried.news = run[r].news
        /\ tried.query = run[r].query /\ tried.phase = "page" /\ tried.calls = run[r].calls
        /\ tried.fetched = run[r].fetched /\ tried.collected = run[r].collected
    BY <1>1 DEF RunType
  <2>4. run' = [run EXCEPT ![r] = tried]
    BY <1>3, <1>8
  <2> HIDE DEF tried
  <2>5. InPlan(tried) /\ Counted(tried)
    BY <1>1, <2>3 DEF StateOK, InPlan, Counted
  <2>6. Truthful(tried) /\ StoriesKept(tried)
    BY <2>3 DEF Truthful, StoriesKept
  <2>7. WithinBudget(tried)
    BY <1>1, <1>4, <1>6, <2>3 DEF WithinBudget
  <2>8. StateOK(tried)
    BY <2>5, <2>6, <2>7 DEF StateOK
  <2> QED BY <1>2, <2>2, <2>4, <2>8, DiskKept, RunMoves
<1>9. QED
  BY <1>7, <1>8

LEMMA PostRejectedKeeps == ASSUME FeedInv, NEW r \in Runs, PostRejected(r) PROVE FeedInv'
<1> DEFINE posts == CountPost(run[r].posts)
           given == [run[r] EXCEPT !.posts = posts]
<1>1. /\ run[r] \in RunType /\ StateOK(run[r])
      /\ posts \in Nat /\ posts <= MaxApiCalls * MaxAttempts
  BY PostRoom DEF PostRejected
<1>2. run' = [run EXCEPT ![r] = Raised(given)] /\ now' = now /\ disk' = disk
  BY DEF PostRejected
<1> HIDE DEF posts
<1>3. given \in RunType
  BY <1>1 DEF RunType
<1>4. given.posts = posts /\ given.asOf = run[r].asOf /\ given.news = run[r].news
  BY <1>1 DEF RunType
<1> HIDE DEF given
<1>6. Raised(given) \in RunType /\ StateOK(Raised(given))
  BY <1>1, <1>3, <1>4, RaisedOK
<1>7. QED
  BY <1>2, <1>6, DiskKept, RunMoves

LEMMA PostAnswersKeeps == ASSUME FeedInv, NEW r \in Runs, PostAnswers(r) PROVE FeedInv'
<1> DEFINE posts == CountPost(run[r].posts)
           body == Answer(Request(r), now)
           x == [run[r] EXCEPT !.phase = "write", !.posts = posts, !.calls = run[r].calls + 1,
                               !.body = body, !.at = now]
<1>1. /\ run[r] \in RunType /\ StateOK(run[r]) /\ run[r].phase = "page"
      /\ run[r].calls < MaxApiCalls
      /\ posts \in Nat /\ posts <= MaxApiCalls * MaxAttempts
      /\ posts <= (run[r].calls + 1) * MaxAttempts
  BY PostRoom DEF PostAnswers
<1>2. run' = [run EXCEPT ![r] = x] /\ now' = now
  <2>1. run' = [run EXCEPT ![r] =
          [run[r] EXCEPT !.phase = "write", !.posts = CountPost(@), !.calls = @ + 1,
                         !.body = Answer(Request(r), now), !.at = now]]
    BY DEF PostAnswers
  <2>2. now' = now
    BY DEF PostAnswers
  <2>3. x = [run[r] EXCEPT !.phase = "write", !.posts = CountPost(@), !.calls = @ + 1,
                           !.body = Answer(Request(r), now), !.at = now]
    BY <1>1 DEF RunType
  <2> HIDE DEF x
  <2> QED BY <2>1, <2>2, <2>3
<1>3. Request(r) = RequestOf(run[r]) /\ Request(r) \in Requests
  <2>1. InPlan(run[r])
    BY <1>1 DEF StateOK
  <2> QED BY <1>1, <2>1, QueryTyped, RequestIs
<1>4. body \in SUBSET Articles
  BY <1>3, AnswerTyped
<1>5. now \in Nat
  BY FeedAssumption DEF FeedInv
<1>6. disk' = [q \in DOMAIN disk \cup {Request(r)} |-> IF q = Request(r) THEN Torn ELSE disk[q]]
  BY DEF PostAnswers
<1> HIDE DEF posts
<1>7. x \in RunType
  <2>1. run[r].calls + 1 \in 0 .. MaxApiCalls
    BY <1>1, FeedAssumption DEF RunType
  <2>2. "write" \in Phases
    BY DEF Phases
  <2> HIDE DEF body
  <2> QED BY <1>1, <1>4, <1>5, <2>1, <2>2 DEF RunType
<1>8. /\ x.phase = "write" /\ x.posts = posts /\ x.calls = run[r].calls + 1 /\ x.body = body
      /\ x.at = now /\ x.asOf = run[r].asOf /\ x.query = run[r].query
      /\ x.current = run[r].current /\ x.page = run[r].page /\ x.news = run[r].news
      /\ x.collected = run[r].collected /\ x.fetched = run[r].fetched
  BY <1>1 DEF RunType
<1> HIDE DEF x
<1>9. StateOK(x)
  <2>1. InPlan(x) /\ Counted(x)
    BY <1>1, <1>8 DEF StateOK, InPlan, Counted
  <2>2. RequestOf(x) = Request(r)
    BY <1>3, <1>8 DEF RequestOf
  <2>3. Truthful(x) /\ StoriesKept(x)
    BY <1>8, <2>2 DEF Truthful, StoriesKept
  <2>4. WithinBudget(x)
    BY <1>1, <1>8 DEF WithinBudget
  <2> QED BY <2>1, <2>3, <2>4 DEF StateOK
<1>10. DiskOK'
  <2>1. PICK S \in SUBSET Requests : disk \in [S -> {Torn} \cup Entries]
    BY DEF FeedInv, DiskOK
  <2>2. disk' \in [S \cup {Request(r)} -> {Torn} \cup Entries]
    BY <1>6, <2>1
  <2>3. S \cup {Request(r)} \in SUBSET Requests
    BY <1>3, <2>1
  <2> QED BY <2>2, <2>3 DEF DiskOK
<1>11. PagesAreAnswers'
  BY <1>6 DEF FeedInv, PagesAreAnswers
<1>12. QED
  BY <1>2, <1>7, <1>9, <1>10, <1>11, RunMoves

LEMMA WriteCacheKeeps == ASSUME FeedInv, NEW r \in Runs, WriteCache(r) PROVE FeedInv'
<1> DEFINE entry == [body |-> run[r].body, at |-> run[r].at]
           state == [run[r] EXCEPT !.body = {}, !.at = 0]
           x == TakePage(r, state, run[r].body, run[r].at)
<1>1. run[r] \in RunType /\ StateOK(run[r]) /\ run[r].phase = "write"
  BY DEF FeedInv, WriteCache
<1>2. run' = [run EXCEPT ![r] = x] /\ now' = now /\ disk' = [disk EXCEPT ![Request(r)] = entry]
  BY DEF WriteCache
<1>3. /\ state \in RunType /\ state.asOf = run[r].asOf /\ state.query = run[r].query
      /\ state.page = run[r].page /\ state.collected = run[r].collected
      /\ state.fetched = run[r].fetched /\ state.news = run[r].news
      /\ state.posts = run[r].posts /\ state.calls = run[r].calls
  BY <1>1 DEF RunType
<1>4. run[r].posts <= run[r].calls * MaxAttempts
  BY <1>1 DEF StateOK, WithinBudget
<1>5. run[r].body \in SUBSET Articles /\ run[r].at \in Nat
  BY <1>1 DEF RunType
<1> HIDE DEF state
<1>6. x \in RunType /\ StateOK(x)
  BY <1>1, <1>3, <1>4, <1>5, TakePageOK
<1> HIDE DEF x
<1>7. entry \in Entries /\ entry.body = run[r].body /\ entry.at = run[r].at
  BY <1>5 DEF Entries
<1>8. entry.body = Answer(Request(r), entry.at)
  <2>1. Request(r) = RequestOf(run[r])
    BY RequestIs
  <2> QED BY <1>1, <1>7, <2>1 DEF StateOK, Truthful
<1> HIDE DEF entry
<1>9. PICK S \in SUBSET Requests : disk \in [S -> {Torn} \cup Entries]
  BY DEF FeedInv, DiskOK
<1>10. DiskOK'
  <2>1. disk' \in [S -> {Torn} \cup Entries]
    BY <1>2, <1>7, <1>9
  <2> QED BY <2>1 DEF DiskOK
<1>11. PagesAreAnswers'
  <2> SUFFICES ASSUME NEW q \in DOMAIN disk', disk'[q] # Torn
               PROVE  disk'[q].body = Answer(q, disk'[q].at)
    BY DEF PagesAreAnswers
  <2>1. q \in S /\ disk'[q] = IF q = Request(r) THEN entry ELSE disk[q]
    BY <1>2, <1>9
  <2>2. q \in DOMAIN disk
    BY <1>9, <2>1
  <2> QED BY <1>8, <2>1, <2>2 DEF FeedInv, PagesAreAnswers
<1>12. QED
  BY <1>2, <1>6, <1>10, <1>11, RunMoves

-----------------------------------------------------------------------------
(* Selecting and combining *)

\* Every collected article is represented by one that is no later.
LEMMA Represented ==
    ASSUME NEW S \in SUBSET Articles, NEW a \in S
    PROVE  \E b \in Representatives(S) : Cluster[b] = Cluster[a] /\ Pub[b] <= Pub[a]
<1> DEFINE C == ClusterIn(a, S)
           f == [b \in C |-> Pub[b]]
<1>1. C \in SUBSET S /\ a \in C /\ \A b \in C : b \in Nat /\ Pub[b] \in Nat
  BY ArticleAssumption DEF ClusterIn
<1>2. f \in [C -> Nat] /\ C # {}
  BY <1>1
<1>3. PICK first \in C : \A d \in C : f[first] <= f[d]
  <2> HIDE DEF C, f
  <2> QED BY <1>2, LeastNumber
<1>4. \A d \in C : Pub[first] <= Pub[d]
  BY <1>3
<1> DEFINE D == {b \in C : Pub[b] = Pub[first]}
           g == [b \in D |-> b]
<1>5. g \in [D -> Nat] /\ D # {}
  BY <1>1
<1>6. PICK b \in D : \A d \in D : g[b] <= g[d]
  <2> HIDE DEF D, g
  <2> QED BY <1>5, LeastNumber
<1>7. b \in C /\ Pub[b] = Pub[first] /\ \A d \in C : Pub[d] = Pub[first] => b <= d
  BY <1>6
<1>8. b \in S /\ Cluster[b] = Cluster[a] /\ ClusterIn(b, S) = C
  BY <1>1, <1>7 DEF ClusterIn
<1> HIDE DEF C, D, f, g
<1>9. \A d \in C : Pub[b] < Pub[d] \/ (Pub[b] = Pub[d] /\ b <= d)
  BY <1>1, <1>4, <1>7
<1>10. b \in Representatives(S) /\ Pub[b] <= Pub[a]
  BY <1>1, <1>4, <1>7, <1>8, <1>9 DEF Representatives
<1>11. QED
  BY <1>8, <1>10

\* A ranking keeps every representative of articles that fit the budget.
LEMMA RankingKeepsAll ==
    ASSUME NEW S \in SUBSET Articles, NEW asOf, Cardinality(S) <= MaxArticles,
           NEW T \in Rankings(S, asOf)
    PROVE  T = Representatives(S) /\ T \in SUBSET Articles
<1> DEFINE reps == Representatives(S)
<1>1. reps \in SUBSET S /\ IsFiniteSet(S)
  BY ArticleAssumption, FS_Subset DEF Representatives
<1>2. T \in SUBSET reps /\ Cardinality(T) = LeastOf(MaxArticles, Cardinality(reps))
  BY DEF Rankings
<1> HIDE DEF reps
<1>3. IsFiniteSet(reps) /\ Cardinality(reps) <= Cardinality(S)
  BY <1>1, FS_Subset
<1>4. Cardinality(reps) \in Nat /\ Cardinality(S) \in Nat
  BY <1>1, <1>3, FS_CardinalityType
<1>5. Cardinality(T) = Cardinality(reps)
  BY <1>2, <1>3, <1>4, WindowAssumption DEF LeastOf
<1>6. T = reps
  BY <1>2, <1>3, <1>5, FS_Subset
<1>7. QED
  BY <1>1, <1>6 DEF reps

LEMMA SelectKeeps == ASSUME FeedInv, NEW r \in Runs, Select(r) PROVE FeedInv'
<1>1. run[r] \in RunType /\ StateOK(run[r]) /\ run[r].phase = "select"
  BY DEF FeedInv, Select
<1>2. PICK ranked \in Rankings(run[r].collected, run[r].asOf) :
        run' = [run EXCEPT ![r] =
            [@ EXCEPT !.phase = "combine", !.ranked = ranked,
                !.news = {n \in {CatcherRecord(a) : a \in ranked} :
                            VisibleAtCutoff(n, run[r].asOf)}]]
  BY DEF Select
<1> DEFINE news == {n \in {CatcherRecord(a) : a \in ranked} : VisibleAtCutoff(n, run[r].asOf)}
           x == [run[r] EXCEPT !.phase = "combine", !.ranked = ranked, !.news = news]
<1>3. run[r].collected \in SUBSET Articles /\ Cardinality(run[r].collected) <= MaxArticles
  <2>1. run[r].fetched \in 0 .. MaxArticles /\ run[r].collected \in SUBSET Articles
    BY <1>1 DEF RunType
  <2>2. Cardinality(run[r].collected) <= run[r].fetched
    BY <1>1 DEF StateOK, Counted
  <2>3. Cardinality(run[r].collected) \in Nat
    BY <2>1, ArticleAssumption, FS_Subset, FS_CardinalityType
  <2> QED BY <2>1, <2>2, <2>3, WindowAssumption
<1>4. ranked = Representatives(run[r].collected) /\ ranked \in SUBSET Articles
  BY <1>3, RankingKeepsAll
<1>5. news \in SUBSET Records
  BY <1>4 DEF Records
<1>7. ASSUME NEW a \in run[r].collected, Pub[a] <= Cutoff(run[r].asOf)
      PROVE  \E n \in news : Cluster[n.article] = Cluster[a]
  <2>1. PICK b \in ranked : Cluster[b] = Cluster[a] /\ Pub[b] <= Pub[a]
    BY <1>3, <1>4, Represented
  <2>2. Pub[a] \in Nat /\ Pub[b] \in Nat /\ Cutoff(run[r].asOf) \in Nat
    <3>1. a \in Articles /\ b \in Articles
      BY <1>3, <1>4
    <3>2. run[r].asOf \in Nat
      BY <1>1 DEF RunType
    <3> QED BY <3>1, <3>2, ArticleAssumption, FeedAssumption DEF Cutoff
  <2>3. Pub[b] <= Cutoff(run[r].asOf)
    BY <1>7, <2>1, <2>2
  <2>4. CatcherRecord(b) \in news
    BY <2>3 DEF CatcherRecord, VisibleAtCutoff
  <2>5. CatcherRecord(b).article = b
    BY DEF CatcherRecord
  <2> HIDE DEF news
  <2> QED BY <2>1, <2>4, <2>5
<1>8. run' = [run EXCEPT ![r] = x]
  BY <1>2
<1> HIDE DEF news
<1>9. x \in RunType
  <2>1. "combine" \in Phases
    BY DEF Phases
  <2> QED BY <1>1, <1>4, <1>5, <2>1 DEF RunType
<1>10. /\ x.phase = "combine" /\ x.news = news /\ x.asOf = run[r].asOf
       /\ x.collected = run[r].collected /\ x.fetched = run[r].fetched
       /\ x.posts = run[r].posts
  BY <1>1 DEF RunType
<1> HIDE DEF x
<1>11. StateOK(x)
  <2>1. InPlan(x) /\ Truthful(x)
    BY <1>10 DEF InPlan, Truthful
  <2>2. WithinBudget(x) /\ Counted(x)
    BY <1>1, <1>10 DEF StateOK, WithinBudget, Counted
  <2>3. StoriesKept(x)
    BY <1>7, <1>10 DEF StoriesKept
  <2> QED BY <2>1, <2>2, <2>3 DEF StateOK
<1>12. now' = now /\ disk' = disk
  BY DEF Select
<1>13. QED
  BY <1>8, <1>9, <1>11, <1>12, DiskKept, RunMoves

\* What is left of a run: its as-of date and its news.
LEMMA EndedOK ==
    ASSUME NEW state \in RunType, NEW phase \in {"done", "failed"}, NEW news \in SUBSET Records
    PROVE  Ended(state, phase, news) \in RunType /\ StateOK(Ended(state, phase, news))
<1> DEFINE y == Ended(state, phase, news)
<1>1. y = [Idle EXCEPT !.phase = phase, !.asOf = state.asOf, !.news = news]
  BY DEF Ended
<1>2. state.asOf \in Nat /\ phase \in Phases
  BY DEF RunType, Phases
<1>3. y \in RunType
  <2> HIDE DEF y
  <2> QED BY <1>1, <1>2, IdleOK DEF RunType
<1>4. /\ y.phase = phase /\ y.asOf = state.asOf /\ y.news = news
      /\ y.posts = Idle.posts /\ y.collected = Idle.collected /\ y.fetched = Idle.fetched
  BY <1>1 DEF Idle
<1> HIDE DEF y
<1>5. InPlan(y) /\ Truthful(y) /\ StoriesKept(y)
  BY <1>4 DEF InPlan, Truthful, StoriesKept
<1>6. WithinBudget(y) /\ Counted(y)
  BY <1>4, IdleOK DEF StateOK, WithinBudget, Counted
<1>7. QED
  BY <1>3, <1>5, <1>6 DEF StateOK, y

LEMMA CombineKeeps == ASSUME FeedInv, NEW r \in Runs, Combine(r) PROVE FeedInv'
<1>1. run[r] \in RunType /\ StateOK(run[r])
  BY DEF FeedInv
<1> DEFINE exports == {ExportRecord(a) : a \in run[r].exports}
           news(T) == {n \in T : VisibleAtCutoff(n, run[r].asOf)}
           x(T) == Ended(run[r], IF news(T) = {} THEN "failed" ELSE "done", news(T))
<1>2. PICK T \in CrossSourceDedup(run[r].news \cup exports) : run' = [run EXCEPT ![r] = x(T)]
  BY DEF Combine
<1>3. T \in SUBSET (run[r].news \cup exports)
  BY DEF CrossSourceDedup
<1>4. run[r].news \in SUBSET Records /\ exports \in SUBSET Records
  BY <1>1 DEF RunType, Records
<1>5. news(T) \in SUBSET Records
  BY <1>3, <1>4
<1> HIDE DEF exports
<1>9. x(T) \in RunType /\ StateOK(x(T))
  <2>1. (IF news(T) = {} THEN "failed" ELSE "done") \in {"done", "failed"}
    OBVIOUS
  <2> HIDE DEF news
  <2> QED BY <1>1, <1>5, <2>1, EndedOK
<1>10. now' = now /\ disk' = disk
  BY DEF Combine
<1> HIDE DEF x
<1>11. QED
  BY <1>2, <1>9, <1>10, DiskKept, RunMoves

LEMMA DieKeeps == ASSUME FeedInv, NEW r \in Runs, Die(r) PROVE FeedInv'
<1> DEFINE x == [Idle EXCEPT !.phase = "dead"]
<1>1. x \in RunType
  <2>1. "dead" \in Phases
    BY DEF Phases
  <2> QED BY <2>1, IdleOK DEF RunType
<1>2. /\ x.phase = "dead" /\ x.posts = Idle.posts /\ x.collected = Idle.collected
      /\ x.fetched = Idle.fetched /\ x.news = {}
  BY DEF Idle
<1>3. run' = [run EXCEPT ![r] = x] /\ now' = now /\ disk' = disk
  BY DEF Die
<1> HIDE DEF x
<1>4. StateOK(x)
  BY <1>2, IdleOK
     DEF StateOK, InPlan, Truthful, StoriesKept, WithinBudget, Counted
<1>5. QED
  BY <1>1, <1>3, <1>4, DiskKept, RunMoves

LEMMA FeedNext == FeedInv /\ [Next]_vars => FeedInv'
<1> SUFFICES ASSUME FeedInv, [Next]_vars PROVE FeedInv'
  OBVIOUS
<1>1. CASE UNCHANGED <<disk, run>> /\ now' \in StartInstant .. MaxInstant
  BY <1>1, DiskKept DEF FeedInv
<1>2. CASE UNCHANGED vars
  BY <1>1, <1>2 DEF vars, FeedInv
<1>3. CASE Tick
  <2>1. now' \in StartInstant .. MaxInstant
    BY <1>3, FeedAssumption DEF Tick, FeedInv
  <2> QED BY <1>1, <1>3, <2>1 DEF Tick
<1>4. ASSUME NEW r \in Runs, Step(r) \/ Die(r) PROVE FeedInv'
  BY <1>4, StartKeeps, SkipSearchKeeps, CacheHitKeeps, RefuseCallKeeps, PostFailsKeeps,
     PostRejectedKeeps, PostAnswersKeeps, WriteCacheKeeps, SelectKeeps, CombineKeeps, DieKeeps
     DEF Step
<1>5. QED
  BY <1>2, <1>3, <1>4 DEF Next

LEMMA FeedTyped == FeedInv => TypeOK
<1> SUFFICES ASSUME FeedInv PROVE TypeOK
  OBVIOUS
<1>1. now \in StartInstant .. MaxInstant
  BY DEF FeedInv
<1>2. ASSUME NEW q \in DOMAIN disk
      PROVE  q \in Requests /\ (disk[q] = Torn \/ disk[q] \in [body : SUBSET Articles, at : Nat])
  <2>1. PICK S \in SUBSET Requests : disk \in [S -> {Torn} \cup Entries]
    BY DEF FeedInv, DiskOK
  <2> QED BY <2>1 DEF Entries
<1>3. \A r \in Runs : run[r] \in RunType
  BY DEF FeedInv
<1>4. QED
  BY <1>1, <1>2, <1>3 DEF TypeOK, RunType

\* Every variable of the news feed has its type: a run never counts more
\* articles or answered calls than its budgets.
THEOREM TypeCorrect == Spec => []TypeOK
<1>1. QED
  BY FeedInit, FeedNext, FeedTyped, PTL DEF Spec

\* A run sends at most MaxAttempts requests for each call of its budget,
\* whatever fails: an attempt is only made for a call that can still be paid.
THEOREM RequestsBounded == Spec => []PostsBounded
<1>1. FeedInv => PostsBounded
  BY DEF FeedInv, StateOK, WithinBudget, PostsBounded
<1>2. QED
  BY <1>1, FeedInit, FeedNext, PTL DEF Spec

\* However the writes of any number of runs interleave and die, a page that can
\* be read is what the service answered at the instant it carries.
THEOREM PagesTruthful == Spec => []PagesAreAnswers
<1>1. FeedInv => PagesAreAnswers
  BY DEF FeedInv
<1>2. QED
  BY <1>1, FeedInit, FeedNext, PTL DEF Spec

\* Neither deduplication nor the ranking's limit costs a run a story it has
\* collected before the cutoff: the earliest copy represents it, and fetching
\* has stopped at the limit the ranking would cut at.
THEOREM StoriesSurvive == Spec => []NoStoryLost
<1>1. FeedInv => NoStoryLost
  BY DEF FeedInv, StateOK, StoriesKept, NoStoryLost
<1>2. QED
  BY <1>1, FeedInit, FeedNext, PTL DEF Spec

-----------------------------------------------------------------------------
(* Paging *)

\* The articles a search is about, whenever it is answered.
Wanted(q) == {a \in Match[q.label] : Day(Pub[a]) \in q.from .. q.to}

\* The place of an article among W.
Rank(W, a) == Cardinality({b \in W : b < a})

\* The k-th page of the articles W.
PageOf(W, k) == {a \in W : Rank(W, a) \div PageSize = k - 1}

LEMMA WantedTyped ==
    ASSUME NEW q, q.label \in DOMAIN Match
    PROVE  Wanted(q) \in SUBSET Articles /\ Wanted(q) \in SUBSET Nat /\ IsFiniteSet(Wanted(q))
<1>1. Match[q.label] \in SUBSET Articles
  BY FeedAssumption
<1>2. Wanted(q) \in SUBSET Articles
  BY <1>1 DEF Wanted
<1>3. QED
  BY <1>2, ArticleAssumption, FS_Subset

\* After its window has closed, a request is answered with its page of all the
\* articles of the window.
LEMMA ClosedAnswer ==
    ASSUME NEW q \in Requests, NEW t \in Nat, Day(t) > q.to
    PROVE  Answer(q, t) = PageOf(Wanted(q), q.page)
<1>1. InSlice(q, t) = Wanted(q)
  <2> SUFFICES ASSUME NEW a \in Match[q.label], Day(Pub[a]) \in q.from .. q.to
               PROVE  Pub[a] <= t
    BY DEF InSlice, Wanted
  <2>1. a \in Articles /\ q.from \in Int /\ q.to \in Int
    BY FeedAssumption DEF Requests
  <2>2. Pub[a] \in Nat
    BY <2>1, ArticleAssumption
  <2>3. Day(Pub[a]) <= q.to
    BY <2>1
  <2> QED BY <2>1, <2>2, <2>3 DEF Day
<1>2. QED
  BY <1>1 DEF Answer, PageOf, Rank

\* Places are consecutive: below an article of some rank there is one of every
\* smaller rank.
LEMMA RanksFilled ==
    ASSUME NEW W \in SUBSET Nat, IsFiniteSet(W), NEW a \in W, NEW n \in Nat, n <= Rank(W, a)
    PROVE  \E c \in W : Rank(W, c) = n
<1> DEFINE Below(c) == {b \in W : b < c}
           S == {c \in W : Rank(W, c) >= n}
           f == [c \in S |-> c]
<1>1. a \in S
  OBVIOUS
<1>2. f \in [S -> Nat]
  OBVIOUS
<1>3. PICK m \in S : \A c \in S : m <= c
  <2>1. PICK m \in S : \A c \in S : f[m] <= f[c]
    <3> HIDE DEF f, S
    <3> QED BY <1>1, <1>2, LeastNumber
  <2> QED BY <2>1
<1>4. \A c \in W : IsFiniteSet(Below(c)) /\ Rank(W, c) = Cardinality(Below(c)) /\ Rank(W, c) \in Nat
  BY FS_Subset, FS_CardinalityType DEF Rank
<1>5. CASE Below(m) = {}
  <2>1. Rank(W, m) = 0
    BY <1>5, FS_EmptySet DEF Rank
  <2>2. Rank(W, m) >= n /\ m \in W
    OBVIOUS
  <2> QED BY <2>1, <2>2
<1>6. CASE Below(m) # {}
  \* The predecessor of m has one article less before it.
  <2> DEFINE B == Below(m)
             g == [c \in B |-> m - c]
  <2>1. g \in [B -> Nat]
    <3>1. \A c \in B : m \in Nat /\ c \in Nat /\ c < m
      OBVIOUS
    <3> HIDE DEF B
    <3>2. \A c \in B : m - c \in Nat
      BY <3>1
    <3> QED BY <3>2
  <2>2. PICK p \in B : \A c \in B : c <= p
    <3>1. PICK p \in B : \A c \in B : g[p] <= g[c]
      <4> HIDE DEF g, B
      <4> QED BY <1>6, <2>1, LeastNumber DEF B
    <3>2. \A c \in B : m - p <= m - c
      BY <3>1
    <3>3. \A c \in B : c \in Nat /\ p \in Nat /\ m \in Nat
      OBVIOUS
    <3> QED BY <3>2, <3>3
  <2>3. p \in W /\ p < m
    OBVIOUS
  <2>4. Below(m) = Below(p) \cup {p} /\ p \notin Below(p)
    <3>1. \A c \in Below(m) : c = p \/ c < p
      BY <2>2
    <3>2. \A c \in W : c < p => c < m
      BY <2>3
    <3>3. ~ (p < p)
      BY <2>3
    <3> QED BY <2>3, <3>1, <3>2, <3>3
  <2>5. Rank(W, m) = Rank(W, p) + 1
    <3>1. IsFiniteSet(Below(p))
      BY <1>4, <2>3
    <3> HIDE DEF Below
    <3>2. Cardinality(Below(m)) = Cardinality(Below(p)) + 1
      BY <2>4, <3>1, FS_AddElement
    <3> QED BY <1>4, <2>3, <3>2
  <2>6. ~ (Rank(W, p) >= n)
    <3> SUFFICES ASSUME Rank(W, p) >= n PROVE FALSE
      OBVIOUS
    <3>1. m <= p
      BY <1>3, <2>3
    <3> QED BY <2>3, <3>1
  <2>7. Rank(W, p) \in Nat /\ Rank(W, m) >= n /\ m \in W
    BY <1>4, <2>3
  <2> QED BY <2>5, <2>6, <2>7
<1>7. QED
  BY <1>5, <1>6

\* A quotient is k - 1 exactly on the k-th interval of p numbers.
LEMMA PageBounds ==
    ASSUME NEW p \in Nat \ {0}, NEW k \in Nat \ {0}, NEW n \in Nat
    PROVE  /\ (k - 1) * p \in Nat /\ k * p = (k - 1) * p + p
           /\ n \div p \in Nat
           /\ n \div p = k - 1 <=> (k - 1) * p <= n /\ n < k * p
           /\ n \div p > k - 1 => k * p <= n
<1> DEFINE d == n \div p
<1>1. d \in Nat /\ d * p <= n /\ n < d * p + p
  OBVIOUS
<1> HIDE DEF d
<1>2. \A x, y \in Nat : x < y => x * p + p <= y * p
  <2> SUFFICES ASSUME NEW x \in Nat, NEW y \in Nat, x < y PROVE x * p + p <= y * p
    OBVIOUS
  <2>1. PICK z \in Nat : y = x + 1 + z
    <3>1. y - x - 1 \in Nat /\ y = x + 1 + (y - x - 1)
      OBVIOUS
    <3> QED BY <3>1
  <2>2. y * p = x * p + p + z * p
    BY <2>1
  <2>3. z * p \in Nat /\ x * p \in Nat /\ y * p \in Nat
    OBVIOUS
  <2> QED BY <2>2, <2>3
<1>3. (k - 1) * p \in Nat /\ k * p = (k - 1) * p + p
  OBVIOUS
<1>4. k - 1 \in Nat
  OBVIOUS
<1>5. d = k - 1 => (k - 1) * p <= n /\ n < k * p
  BY <1>1, <1>3
<1>6. d < k - 1 => d * p + p <= (k - 1) * p
  BY <1>1, <1>2, <1>4
<1>7. k - 1 < d => (k - 1) * p + p <= d * p
  BY <1>1, <1>2, <1>4
<1> DEFINE a == (k - 1) * p  b == d * p  c == k * p
<1>8. a \in Nat /\ c = a + p /\ b \in Nat /\ b <= n /\ n < b + p
      /\ (d < k - 1 => b + p <= a) /\ (k - 1 < d => a + p <= b)
  BY <1>1, <1>3, <1>6, <1>7
<1>9. d = k - 1 => a <= n /\ n < c
  BY <1>5
<1> HIDE DEF a, b, c
<1>10. a <= n /\ n < c => d = k - 1
  BY <1>1, <1>4, <1>8
<1>11. d > k - 1 => c <= n
  BY <1>1, <1>4, <1>8
<1>12. QED
  BY <1>1, <1>3, <1>9, <1>10, <1>11 DEF a, b, c, d

\* A page that is not full is the last one.
LEMMA ShortIsLast ==
    ASSUME NEW W \in SUBSET Nat, IsFiniteSet(W), NEW k \in Nat \ {0},
           Cardinality(PageOf(W, k)) < PageSize, NEW a \in W
    PROVE  \E j \in 1 .. k : a \in PageOf(W, j)
<1> DEFINE R == Rank(W, a)  lo == (k - 1) * PageSize
<1>1. PageSize \in Nat \ {0}
  BY FeedAssumption
<1>2. \A c \in W : Rank(W, c) \in Nat
  BY FS_Subset, FS_CardinalityType DEF Rank
<1>3. lo \in Nat /\ k * PageSize = lo + PageSize
  BY <1>1, PageBounds
<1>4. R \in Nat /\ R \div PageSize \in Nat
  BY <1>1, <1>2, PageBounds
<1> HIDE DEF lo
<1>5. R \div PageSize <= k - 1
  <2> SUFFICES ASSUME R \div PageSize > k - 1 PROVE FALSE
    BY <1>4
  <2>1. lo + PageSize <= R
    BY <1>1, <1>3, <1>4, PageBounds
  <2> DEFINE I == lo .. (lo + PageSize - 1)
             f == [n \in I |-> CHOOSE c \in W : Rank(W, c) = n]
  <2>2. IsFiniteSet(I) /\ Cardinality(I) = PageSize
    <3>1. lo \in Int /\ lo + PageSize - 1 \in Int /\ ~ (lo > lo + PageSize - 1)
      BY <1>1, <1>3
    <3>2. Cardinality(I) = (lo + PageSize - 1) - lo + 1 /\ IsFiniteSet(I)
      BY <3>1, FS_Interval
    <3> QED BY <1>1, <1>3, <3>2
  <2>3. \A n \in I : f[n] \in W /\ Rank(W, f[n]) = n
    <3> TAKE n \in I
    <3>1. n \in Nat /\ n <= R
      BY <1>1, <1>3, <1>4, <2>1
    <3>2. \E c \in W : Rank(W, c) = n
      BY <3>1, RanksFilled
    <3> QED BY <3>2
  <2>4. \A n \in I : f[n] \in PageOf(W, k)
    <3> TAKE n \in I
    <3>1. n \in Nat /\ lo <= n /\ n < lo + PageSize
      BY <1>1, <1>3
    <3>2. n \div PageSize = k - 1
      <4> DEFINE d == n \div PageSize  hi == k * PageSize
      <4>1. d = k - 1 <=> lo <= n /\ n < hi
        BY <1>1, <3>1, PageBounds DEF lo
      <4>2. n < hi
        BY <1>3, <3>1
      <4> HIDE DEF d, hi
      <4>3. d = k - 1
        BY <3>1, <4>1, <4>2
      <4> QED BY <4>3 DEF d
    <3> QED BY <2>3, <3>2 DEF PageOf
  <2>5. f \in Injection(I, PageOf(W, k))
    <3>1. f \in [I -> PageOf(W, k)]
      BY <2>4
    <3>2. \A m, n \in I : f[m] = f[n] => m = n
      BY <2>3
    <3> HIDE DEF f, I
    <3> QED BY <3>1, <3>2 DEF Injection, IsInjective
  <2>6. IsFiniteSet(PageOf(W, k))
    BY FS_Subset DEF PageOf
  <2> HIDE DEF f, I
  <2>7. Cardinality(I) <= Cardinality(PageOf(W, k))
    BY <2>5, <2>6, FS_Injection
  <2>8. Cardinality(PageOf(W, k)) \in Nat
    BY <2>6, FS_CardinalityType
  <2> QED BY <1>1, <2>2, <2>7, <2>8
<1> DEFINE j == R \div PageSize + 1
<1>6. j \in 1 .. k /\ R \div PageSize = j - 1
  <2> DEFINE d == R \div PageSize
  <2>1. d \in Nat /\ d <= k - 1
    BY <1>4, <1>5
  <2> HIDE DEF d
  <2>2. d + 1 \in 1 .. k /\ d = (d + 1) - 1
    BY <2>1
  <2> QED BY <2>2 DEF d
<1>7. QED
  BY <1>6 DEF PageOf

-----------------------------------------------------------------------------
(* Searches that met no limit *)

\* On closed pages, every readable article of the pages before this one is found.
Searching(x) ==
    x.phase \in {"page", "write"} /\ x.closed =>
        \A k \in 1 .. x.page - 1 :
            \A a \in PageOf(Wanted(RequestOf(x)), k) \ Unreadable : <<k, a>> \in x.found

\* Of a slice searched as a whole every readable article is collected.
Whole(x) == \A s \in x.whole : Wanted(s) \ Unreadable \subseteq x.collected

SearchInv == \A r \in Runs : Searching(run[r]) /\ Whole(run[r])

\* A list shorter than the budget is kept.
LEMMA AllKept ==
    ASSUME NEW found \in SUBSET ((1 .. MaxPages) \X Articles), NEW n \in Nat,
           Cardinality(found) < n
    PROVE  FirstFound(found, n) = found
<1>1. IsFiniteSet(found)
  BY FoundFinite
<1>2. ASSUME NEW S \in SUBSET found PROVE Cardinality(S) < n
  <2>1. IsFiniteSet(S) /\ Cardinality(S) <= Cardinality(found)
    BY <1>1, FS_Subset
  <2>2. Cardinality(S) \in Nat /\ Cardinality(found) \in Nat
    BY <1>1, <2>1, FS_CardinalityType
  <2> QED BY <2>1, <2>2
<1>3. QED
  BY <1>2 DEF FirstFound

\* The end of a search adds its slice only if everything was found.
LEMMA FinishedWhole ==
    ASSUME FeedInv, NEW r \in Runs, run[r].phase \in {"page", "write"},
           NEW state \in RunType, Whole(state),
           NEW found \in SUBSET ((1 .. MaxPages) \X Articles), NEW limited \in BOOLEAN,
           state.closed /\ ~limited =>
               /\ Cardinality(found) < Remaining(r)
               /\ \A a \in Wanted(RequestOf(run[r])) \ Unreadable :
                      \E k \in 1 .. MaxPages : <<k, a>> \in found
    PROVE  /\ Searching(Finished(r, state, found, limited))
           /\ Whole(Finished(r, state, found, limited))
<1> DEFINE kept == FirstFound(found, Remaining(r))
           slice == [label |-> Query(r).label, from |-> run[r].current, to |-> To(r)]
           x == Finished(r, state, found, limited)
           read == {y[2] : y \in kept}
<1>1. run[r] \in RunType /\ InPlan(run[r])
  BY DEF FeedInv, StateOK
<1>2. /\ x.page = 1 /\ x.collected = state.collected \cup read
      /\ x.whole = IF state.closed /\ ~limited THEN state.whole \cup {slice} ELSE state.whole
  BY DEF Finished, RunType
<1> HIDE DEF x
<1>3. Searching(x)
  BY <1>2 DEF Searching
<1>4. state.closed /\ ~limited => Wanted(slice) \ Unreadable \subseteq read
  <2> SUFFICES ASSUME state.closed, ~limited, NEW a \in Wanted(slice) \ Unreadable
               PROVE  a \in read
    OBVIOUS
  <2>1. /\ slice.label = RequestOf(run[r]).label /\ slice.from = RequestOf(run[r]).from
        /\ slice.to = RequestOf(run[r]).to
    BY RequestIs DEF RequestOf, Query, To
  <2>2. Wanted(slice) = Wanted(RequestOf(run[r]))
    <3> HIDE DEF slice
    <3> QED BY <2>1 DEF Wanted
  <2>3. PICK k \in 1 .. MaxPages : <<k, a>> \in found
    BY <2>2
  <2>4. Remaining(r) \in Nat
    BY <1>1, WindowAssumption DEF Remaining, RunType
  <2>5. kept = found
    BY <2>4, AllKept
  <2> QED BY <2>3, <2>5
<1>5. Whole(x)
  <2> HIDE DEF slice, read
  <2> QED BY <1>2, <1>4 DEF Whole
<1>6. QED
  BY <1>3, <1>5 DEF x

\* A page that has arrived is one of the window's, if it is answered after the
\* window closed; a page that is not full ends the search with all of them.
LEMMA TakePageWhole ==
    ASSUME FeedInv, SearchInv, NEW r \in Runs, run[r].phase \in {"page", "write"},
           NEW state \in RunType, state.asOf = run[r].asOf, state.query = run[r].query,
           state.page = run[r].page, state.current = run[r].current,
           state.collected = run[r].collected, state.closed = run[r].closed,
           state.whole = run[r].whole,
           NEW body \in SUBSET Articles, NEW at \in Nat, body = Answer(Request(r), at)
    PROVE  Searching(TakePage(r, state, body, at)) /\ Whole(TakePage(r, state, body, at))
<1> DEFINE page == run[r].page
           found == run[r].found \cup {<<page, a>> : a \in body \ Unreadable}
           short == Cardinality(body) < PageSize
           full == BudgetReached(r, found)
           told == [state EXCEPT !.closed = state.closed /\ Day(at) > To(r)]
           over == short \/ page = MaxPages \/ full
           next == [told EXCEPT !.phase = "page", !.page = told.page + 1, !.attempt = 0,
                                !.found = found]
           W == Wanted(RequestOf(run[r]))
<1>1. run[r] \in RunType /\ InPlan(run[r]) /\ Searching(run[r]) /\ Whole(run[r])
  BY DEF FeedInv, StateOK, SearchInv
<1>2. page \in 1 .. MaxPages /\ MaxPages \in Nat \ {0} /\ PageSize \in Nat \ {0}
  BY <1>1, FeedAssumption DEF RunType
<1>3. found \in SUBSET ((1 .. MaxPages) \X Articles)
  <2>1. run[r].found \in SUBSET ((1 .. MaxPages) \X Articles)
    BY <1>1 DEF RunType
  <2>2. {<<page, a>> : a \in body \ Unreadable} \in SUBSET ((1 .. MaxPages) \X Articles)
    BY <1>2
  <2> QED BY <2>1, <2>2
<1>4. /\ RequestOf(run[r]) \in Requests /\ Request(r) = RequestOf(run[r])
      /\ RequestOf(run[r]).page = page /\ RequestOf(run[r]).to = To(r)
  BY <1>1, QueryTyped, RequestIs DEF RequestOf
<1>5. W \in SUBSET Nat /\ IsFiniteSet(W)
  BY <1>4, WantedTyped DEF Requests
<1>6. /\ told \in RunType /\ told.collected = run[r].collected /\ told.whole = run[r].whole
      /\ told.closed = (run[r].closed /\ Day(at) > To(r)) /\ told.asOf = run[r].asOf
      /\ told.query = run[r].query /\ told.current = run[r].current /\ told.page = page
  BY DEF RunType
<1>7. Whole(told)
  BY <1>1, <1>6 DEF Whole
<1>8. full \in BOOLEAN /\ short \in BOOLEAN
  BY DEF BudgetReached
<1>9. TakePage(r, state, body, at) = IF over THEN Finished(r, told, found, full \/ ~short) ELSE next
  BY DEF TakePage
\* The pages that were found so far.
<1>10. told.closed => body = PageOf(W, page)
  BY <1>4, <1>6, ClosedAnswer
<1>11. ASSUME told.closed, NEW k \in 1 .. page, NEW a \in PageOf(W, k) \ Unreadable
       PROVE  <<k, a>> \in found
  <2>1. CASE k = page
    BY <1>10, <1>11, <2>1
  <2>2. CASE k # page
    <3>1. k \in 1 .. page - 1
      BY <1>2, <2>2
    <3>2. <<k, a>> \in run[r].found
      BY <1>1, <1>6, <1>11, <3>1 DEF Searching
    <3> QED BY <3>2
  <2> QED BY <2>1, <2>2
<1> HIDE DEF told, found, short, W, page
<1>12. CASE over
  <2>1. told.closed /\ ~(full \/ ~short) => Cardinality(found) < Remaining(r)
    <3>1. Cardinality(found) \in Nat
      BY <1>3, FoundFinite, FS_CardinalityType
    <3>2. Remaining(r) \in Nat
      BY <1>1, WindowAssumption DEF Remaining, RunType
    <3> QED BY <3>1, <3>2 DEF BudgetReached
  <2>2. ASSUME told.closed, ~(full \/ ~short), NEW a \in W \ Unreadable
        PROVE  \E k \in 1 .. MaxPages : <<k, a>> \in found
    <3>1. Cardinality(PageOf(W, page)) < PageSize
      BY <1>10, <2>2 DEF short
    <3>2. page \in Nat \ {0}
      BY <1>2
    <3>3. PICK k \in 1 .. page : a \in PageOf(W, k)
      BY <1>5, <3>1, <3>2, ShortIsLast
    <3>4. <<k, a>> \in found
      BY <1>11, <2>2, <3>3
    <3>5. k \in 1 .. MaxPages
      BY <1>2
    <3> QED BY <3>4, <3>5
  <2> HIDE DEF full
  <2>3. Searching(Finished(r, told, found, full \/ ~short))
        /\ Whole(Finished(r, told, found, full \/ ~short))
    BY <1>3, <1>6, <1>7, <1>8, <2>1, <2>2, FinishedWhole DEF W
  <2> QED BY <1>9, <1>12, <2>3
<1>13. CASE ~over
  <2>1. /\ next.asOf = run[r].asOf /\ next.query = run[r].query
        /\ next.current = run[r].current /\ next.page = page + 1 /\ next.found = found
        /\ next.closed = told.closed /\ next.collected = told.collected
        /\ next.whole = told.whole
    BY <1>6 DEF RunType
  <2> HIDE DEF next
  <2>2. Whole(next)
    BY <1>7, <2>1 DEF Whole
  <2>3. /\ RequestOf(next).label = RequestOf(run[r]).label
        /\ RequestOf(next).from = RequestOf(run[r]).from
        /\ RequestOf(next).to = RequestOf(run[r]).to
    BY <2>1 DEF RequestOf
  <2>4. Wanted(RequestOf(next)) = W
    BY <2>3 DEF Wanted, W
  <2>5. (page + 1) - 1 = page
    BY <1>2
  <2>6. Searching(next)
    BY <1>11, <2>1, <2>4, <2>5 DEF Searching
  <2> QED BY <1>9, <1>13, <2>2, <2>6
<1>14. QED
  BY <1>12, <1>13

\* A run that moves keeps the search invariant if its new state does.
LEMMA SearchMoves ==
    ASSUME FeedInv, SearchInv, NEW r \in Runs, NEW x, Searching(x), Whole(x),
           run' = [run EXCEPT ![r] = x]
    PROVE  SearchInv'
<1>1. ASSUME NEW q \in Runs PROVE Searching(run'[q]) /\ Whole(run'[q])
  <2>1. run'[q] = IF q = r THEN x ELSE run[q]
    BY DEF FeedInv
  <2> QED BY <2>1 DEF SearchInv
<1>2. SearchInv' <=> \A q \in Runs : Searching(run'[q]) /\ Whole(run'[q])
  BY DEF SearchInv, Searching, Whole, RequestOf, Wanted
<1>3. QED
  BY <1>1, <1>2

\* What is neither in a search nor remembers one.
LEMMA NothingSearched ==
    ASSUME NEW x, x.phase \notin {"page", "write"}, x.whole = {}
    PROVE  Searching(x) /\ Whole(x)
  BY DEF Searching, Whole

LEMMA RaisedWhole ==
    ASSUME NEW x \in RunType PROVE Searching(Raised(x)) /\ Whole(Raised(x))
<1>1. Raised(x).phase \notin {"page", "write"} /\ Raised(x).whole = {}
  BY DEF Raised, RunType
<1>2. QED
  BY <1>1, NothingSearched

\* A run that stays on its page: nothing it has found is lost.
LEMMA SamePage ==
    ASSUME NEW x, NEW y, x.phase \in {"page", "write"}, Searching(x), Whole(x),
           y.asOf = x.asOf, y.query = x.query, y.current = x.current, y.page = x.page,
           y.found = x.found, y.closed = x.closed, y.collected = x.collected, y.whole = x.whole
    PROVE  Searching(y) /\ Whole(y)
<1>1. RequestOf(y) = RequestOf(x)
  BY DEF RequestOf
<1>2. QED
  BY <1>1 DEF Searching, Whole

LEMMA StartSearches ==
    ASSUME FeedInv, SearchInv, NEW r \in Runs, Start(r) PROVE SearchInv'
<1>1. PICK asOf \in AsOfDays, fail \in FailOnCatcher :
        run' = [run EXCEPT ![r] =
            [Idle EXCEPT !.phase = "page", !.asOf = asOf, !.fail = fail,
                !.current = Plan[asOf][1].from,
                !.exports = {a \in Exported : Pub[a] <= now}]]
  BY DEF Start
<1> DEFINE x == [Idle EXCEPT !.phase = "page", !.asOf = asOf, !.fail = fail,
                    !.current = Plan[asOf][1].from,
                    !.exports = {a \in Exported : Pub[a] <= now}]
<1>2. x.page = 1 /\ x.whole = {}
  BY DEF Idle
<1>3. run' = [run EXCEPT ![r] = x]
  BY <1>1
<1> HIDE DEF x
<1>4. Searching(x) /\ Whole(x)
  BY <1>2 DEF Searching, Whole
<1>5. QED
  BY <1>3, <1>4, SearchMoves

LEMMA SkipSearches ==
    ASSUME FeedInv, SearchInv, NEW r \in Runs, SkipSearch(r) PROVE SearchInv'
<1> DEFINE x == Finished(r, run[r], {}, TRUE)
<1>1. run[r] \in RunType /\ run[r].phase = "page" /\ Whole(run[r])
  BY DEF FeedInv, SearchInv, SkipSearch
<1>2. {} \in SUBSET ((1 .. MaxPages) \X Articles) /\ TRUE \in BOOLEAN
  OBVIOUS
<1>3. Searching(x) /\ Whole(x)
  BY <1>1, <1>2, FinishedWhole
<1>4. run' = [run EXCEPT ![r] = x]
  BY DEF SkipSearch
<1> HIDE DEF x
<1>5. QED
  BY <1>3, <1>4, SearchMoves

LEMMA CacheHitSearches ==
    ASSUME FeedInv, SearchInv, NEW r \in Runs, CacheHit(r) PROVE SearchInv'
<1> DEFINE entry == disk[Request(r)]
           x == TakePage(r, run[r], entry.body, entry.at)
<1>1. run[r] \in RunType /\ run[r].phase = "page"
  BY DEF FeedInv, CacheHit
<1>2. entry \in Entries /\ entry.body = Answer(Request(r), entry.at)
  <2>1. Request(r) \in DOMAIN disk /\ disk[Request(r)] # Torn
    BY DEF CacheHit, Cached
  <2>2. PICK S \in SUBSET Requests : disk \in [S -> {Torn} \cup Entries]
    BY DEF FeedInv, DiskOK
  <2>3. disk[Request(r)] \in Entries
    BY <2>1, <2>2
  <2> QED BY <2>1, <2>3 DEF FeedInv, PagesAreAnswers
<1>3. run' = [run EXCEPT ![r] = x]
  BY DEF CacheHit
<1> HIDE DEF entry
<1>4. entry.body \in SUBSET Articles /\ entry.at \in Nat
  BY <1>2 DEF Entries
<1>5. Searching(x) /\ Whole(x)
  BY <1>1, <1>2, <1>4, TakePageWhole
<1> HIDE DEF x
<1>6. QED
  BY <1>3, <1>5, SearchMoves

LEMMA RefuseSearches ==
    ASSUME FeedInv, SearchInv, NEW r \in Runs, RefuseCall(r) PROVE SearchInv'
<1>1. run' = [run EXCEPT ![r] = Raised(run[r])] /\ run[r] \in RunType
  BY DEF FeedInv, RefuseCall
<1>2. QED
  BY <1>1, RaisedWhole, SearchMoves

LEMMA FailSearches ==
    ASSUME FeedInv, SearchInv, NEW r \in Runs, PostFails(r) PROVE SearchInv'
<1> DEFINE posts == CountPost(run[r].posts)
           tried == [run[r] EXCEPT !.posts = posts, !.attempt = run[r].attempt + 1]
<1>1. /\ run[r] \in RunType /\ run[r].phase = "page"
      /\ Searching(run[r]) /\ Whole(run[r])
  BY DEF FeedInv, SearchInv, PostFails, Posting, Fetching
<1>2. run' = [run EXCEPT ![r] = IF tried.attempt = MaxAttempts THEN Raised(tried) ELSE tried]
  BY DEF PostFails
<1> HIDE DEF posts
<1>3. Searching(Raised(tried)) /\ Whole(Raised(tried))
  <2>1. Raised(tried).phase \notin {"page", "write"} /\ Raised(tried).whole = {}
    BY <1>1 DEF Raised, RunType
  <2> QED BY <2>1, NothingSearched
<1>4. Searching(tried) /\ Whole(tried)
  <2>1. /\ tried.asOf = run[r].asOf /\ tried.query = run[r].query
        /\ tried.current = run[r].current /\ tried.page = run[r].page
        /\ tried.found = run[r].found /\ tried.closed = run[r].closed
        /\ tried.collected = run[r].collected /\ tried.whole = run[r].whole
    BY <1>1 DEF RunType
  <2> HIDE DEF tried
  <2> QED BY <1>1, <2>1, SamePage
<1>5. QED
  <2> DEFINE x == IF tried.attempt = MaxAttempts THEN Raised(tried) ELSE tried
  <2>1. Searching(x) /\ Whole(x)
    BY <1>3, <1>4
  <2> HIDE DEF x
  <2>2. run' = [run EXCEPT ![r] = x]
    BY <1>2 DEF x
  <2> QED BY <2>1, <2>2, SearchMoves

LEMMA RejectSearches ==
    ASSUME FeedInv, SearchInv, NEW r \in Runs, PostRejected(r) PROVE SearchInv'
<1> DEFINE posts == CountPost(run[r].posts)
           given == [run[r] EXCEPT !.posts = posts]
<1>1. run' = [run EXCEPT ![r] = Raised(given)] /\ run[r] \in RunType
  BY DEF FeedInv, PostRejected
<1> HIDE DEF posts
<1>2. Raised(given).phase \notin {"page", "write"} /\ Raised(given).whole = {}
  BY <1>1 DEF Raised, RunType
<1>3. QED
  BY <1>1, <1>2, NothingSearched, SearchMoves

LEMMA AnswerSearches ==
    ASSUME FeedInv, SearchInv, NEW r \in Runs, PostAnswers(r) PROVE SearchInv'
<1> DEFINE x == [run[r] EXCEPT !.phase = "write", !.posts = CountPost(@), !.calls = @ + 1,
                               !.body = Answer(Request(r), now), !.at = now]
<1>1. /\ run[r] \in RunType /\ run[r].phase = "page"
      /\ Searching(run[r]) /\ Whole(run[r])
  BY DEF FeedInv, SearchInv, PostAnswers, Posting, Fetching
<1>2. run' = [run EXCEPT ![r] = x]
  BY DEF PostAnswers
<1>3. /\ x.asOf = run[r].asOf /\ x.query = run[r].query /\ x.current = run[r].current
      /\ x.page = run[r].page /\ x.found = run[r].found /\ x.closed = run[r].closed
      /\ x.collected = run[r].collected /\ x.whole = run[r].whole
  BY <1>1 DEF RunType
<1> HIDE DEF x
<1>4. Searching(x) /\ Whole(x)
  BY <1>1, <1>3, SamePage
<1>5. QED
  BY <1>2, <1>4, SearchMoves

LEMMA WriteSearches ==
    ASSUME FeedInv, SearchInv, NEW r \in Runs, WriteCache(r) PROVE SearchInv'
<1> DEFINE state == [run[r] EXCEPT !.body = {}, !.at = 0]
           x == TakePage(r, state, run[r].body, run[r].at)
<1>1. run[r] \in RunType /\ StateOK(run[r]) /\ run[r].phase = "write"
  BY DEF FeedInv, WriteCache
<1>2. run' = [run EXCEPT ![r] = x]
  BY DEF WriteCache
<1>3. /\ state \in RunType /\ state.asOf = run[r].asOf /\ state.query = run[r].query
      /\ state.page = run[r].page /\ state.current = run[r].current
      /\ state.collected = run[r].collected /\ state.closed = run[r].closed
      /\ state.whole = run[r].whole
  BY <1>1 DEF RunType
<1>4. /\ run[r].body \in SUBSET Articles /\ run[r].at \in Nat
      /\ run[r].body = Answer(Request(r), run[r].at)
  BY <1>1, RequestIs DEF RunType, StateOK, Truthful
<1> HIDE DEF state
<1>5. Searching(x) /\ Whole(x)
  BY <1>1, <1>3, <1>4, TakePageWhole
<1> HIDE DEF x
<1>6. QED
  BY <1>2, <1>5, SearchMoves

LEMMA SelectSearches ==
    ASSUME FeedInv, SearchInv, NEW r \in Runs, Select(r) PROVE SearchInv'
<1>1. run[r] \in RunType /\ Whole(run[r])
  BY DEF FeedInv, SearchInv
<1> DEFINE news(ranked) == {n \in {CatcherRecord(a) : a \in ranked} :
                              VisibleAtCutoff(n, run[r].asOf)}
           x(ranked) == [run[r] EXCEPT !.phase = "combine", !.ranked = ranked,
                                       !.news = news(ranked)]
<1>2. PICK ranked : run' = [run EXCEPT ![r] = x(ranked)]
  BY DEF Select
<1> HIDE DEF news
<1>3. /\ x(ranked).phase = "combine" /\ x(ranked).collected = run[r].collected
      /\ x(ranked).whole = run[r].whole
  BY <1>1 DEF RunType
<1> HIDE DEF x
<1>4. Searching(x(ranked)) /\ Whole(x(ranked))
  BY <1>1, <1>3 DEF Searching, Whole
<1>5. QED
  BY <1>2, <1>4, SearchMoves

LEMMA CombineSearches ==
    ASSUME FeedInv, SearchInv, NEW r \in Runs, Combine(r) PROVE SearchInv'
<1> DEFINE news(T) == {n \in T : VisibleAtCutoff(n, run[r].asOf)}
           x(T) == Ended(run[r], IF news(T) = {} THEN "failed" ELSE "done", news(T))
<1>1. PICK T : run' = [run EXCEPT ![r] = x(T)]
  BY DEF Combine
<1> HIDE DEF news
<1>2. x(T).phase \notin {"page", "write"} /\ x(T).whole = {}
  BY DEF Ended, Idle
<1> HIDE DEF x
<1>3. QED
  BY <1>1, <1>2, NothingSearched, SearchMoves

LEMMA DieSearches ==
    ASSUME FeedInv, SearchInv, NEW r \in Runs, Die(r) PROVE SearchInv'
<1> DEFINE x == [Idle EXCEPT !.phase = "dead"]
<1>1. run' = [run EXCEPT ![r] = x]
  BY DEF Die
<1>2. x.phase \notin {"page", "write"} /\ x.whole = {}
  BY DEF Idle
<1> HIDE DEF x
<1>3. QED
  BY <1>1, <1>2, NothingSearched, SearchMoves

LEMMA SearchStarts == Init => SearchInv
<1> SUFFICES ASSUME Init, NEW r \in Runs PROVE Searching(run[r]) /\ Whole(run[r])
  BY DEF SearchInv
<1>1. run[r].phase \notin {"page", "write"} /\ run[r].whole = {}
  BY DEF Init, Idle
<1>2. QED
  BY <1>1, NothingSearched

LEMMA SearchNext == FeedInv /\ SearchInv /\ [Next]_vars => SearchInv'
<1> SUFFICES ASSUME FeedInv, SearchInv, [Next]_vars PROVE SearchInv'
  OBVIOUS
<1>1. CASE UNCHANGED run
  BY <1>1 DEF SearchInv, Searching, Whole, RequestOf, Wanted
<1>2. ASSUME NEW r \in Runs, Step(r) \/ Die(r) PROVE SearchInv'
  BY <1>2, StartSearches, SkipSearches, CacheHitSearches, RefuseSearches, FailSearches,
     RejectSearches, AnswerSearches, WriteSearches, SelectSearches, CombineSearches, DieSearches
     DEF Step
<1>3. QED
  BY <1>1, <1>2 DEF Next, Tick, vars

\* A search whose pages were all answered after its window had closed, and that
\* met no limit, has every readable article of the window: the pages of a closed
\* window are the parts of one ordered list, taken from the first on, and a page
\* that is not full is the last.  The cache, retries and other runs change none
\* of them.
THEOREM SearchesComplete == Spec => []ClosedSlicesComplete
<1>1. SearchInv => ClosedSlicesComplete
  BY DEF SearchInv, Whole, Wanted, ClosedSlicesComplete
<1>2. QED
  BY <1>1, FeedInit, FeedNext, SearchStarts, SearchNext, PTL DEF Spec
=============================================================================
