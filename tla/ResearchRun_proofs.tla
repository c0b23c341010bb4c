------------------------- MODULE ResearchRun_proofs --------------------------
(***************************************************************************)
(* Proof that what is reported of a research run was decided first and     *)
(* blindly, for any number of runs and evaluations that share the data     *)
(* directory, ids that clash, deaths at every step and data that grows.    *)
(***************************************************************************)
EXTENDS ResearchRun, FiniteSetTheorems, WellFoundedInduction, TLAPS

-----------------------------------------------------------------------------
(* Sets of days *)

\* Among the days up to each element of a nonempty set, one set is smallest.
LEMMA SmallestSet ==
    ASSUME NEW S, S # {}, NEW f \in [S -> SUBSET Days]
    PROVE  \E m \in S : \A d \in S : f[d] \subseteq f[m] => f[d] = f[m]
<1> DEFINE R == StrictSubsetOrdering(Days)
           Chosen == {f[d] : d \in S}
<1>1. IsWellFoundedOn(R, FiniteSubsetsOf(Days))
  BY FS_StrictSubsetOrderingWellFounded
<1>2. FiniteSubsetsOf(Days) = SUBSET Days
  <2>1. IsFiniteSet(Days)
    BY FS_Interval, ResearchAssumption DEF Days
  <2> QED BY <2>1, FS_FiniteSubsetsOfFinite
<1>3. Chosen \subseteq SUBSET Days /\ Chosen # {}
  OBVIOUS
<1>4. \A y, x \in SUBSET Days : y \subseteq x /\ y # x => <<y, x>> \in R
  BY DEF StrictSubsetOrdering
<1>5. PICK x \in Chosen : \A y \in Chosen : ~ (<<y, x>> \in R)
  <2> HIDE DEF Chosen, R
  <2> QED BY <1>1, <1>2, <1>3, WFMin, Zenon
<1>6. PICK m \in S : x = f[m]
  OBVIOUS
<1>7. \A d \in S : f[d] \in Chosen /\ f[d] \in SUBSET Days
  OBVIOUS
<1> HIDE DEF Chosen, R
<1>8. QED
  BY <1>4, <1>5, <1>6, <1>7

LEMMA LeastDay ==
    ASSUME NEW S \in SUBSET Days, S # {}
    PROVE  Min(S) \in S /\ Min(S) \in Days /\ \A d \in S : Min(S) <= d
<1> DEFINE f == [d \in S |-> 0 .. d]
<1>1. f \in [S -> SUBSET Days]
  BY ResearchAssumption DEF Days
<1>2. PICK m \in S : \A d \in S : f[d] \subseteq f[m] => f[d] = f[m]
  <2> HIDE DEF f
  <2> QED BY <1>1, SmallestSet
<1>3. \A d \in S : m <= d
  <2> SUFFICES ASSUME NEW d \in S, d < m PROVE FALSE
    BY ResearchAssumption DEF Days
  <2>1. 0 .. d \subseteq 0 .. m /\ m \in 0 .. m /\ m \notin 0 .. d
    BY ResearchAssumption DEF Days
  <2> QED BY <1>2, <2>1
<1>4. QED
  BY <1>3 DEF Min

LEMMA GreatestDay ==
    ASSUME NEW S \in SUBSET Days, S # {}
    PROVE  \E m \in S : \A d \in S : d <= m
<1> DEFINE f == [d \in S |-> d .. MaxDay]
<1>1. f \in [S -> SUBSET Days]
  BY ResearchAssumption DEF Days
<1>2. PICK m \in S : \A d \in S : f[d] \subseteq f[m] => f[d] = f[m]
  <2> HIDE DEF f
  <2> QED BY <1>1, SmallestSet
<1>3. \A d \in S : d <= m
  <2> SUFFICES ASSUME NEW d \in S, m < d PROVE FALSE
    BY ResearchAssumption DEF Days
  <2>1. d .. MaxDay \subseteq m .. MaxDay /\ m \in m .. MaxDay /\ m \notin d .. MaxDay
    BY ResearchAssumption DEF Days
  <2> QED BY <1>2, <2>1
<1>4. QED
  BY <1>3

LEMMA SessionsAreDays ==
    ASSUME NEW T, NEW a \in Days, NEW b \in Days
    PROVE  /\ SessionsOf(T, a, b) \in SUBSET Days
           /\ \A d \in SessionsOf(T, a, b) : a <= d /\ d <= b
  BY ResearchAssumption DEF SessionsOf, Days

\* Holding sessions back leaves a day to decide on, however few there are.
LEMMA DefaultIsADay ==
    ASSUME NEW days \in SUBSET Days, days # {}
    PROVE  DefaultAsOf(days) \in days
<1> DEFINE held == {d \in days : Cardinality({x \in days : x > d}) < BackSessions}
<1>1. PICK m \in days : \A d \in days : d <= m
  BY GreatestDay
<1>2. {x \in days : x > m} = {}
  <2>1. \A x \in days : x \in Int /\ ~(x > m)
    BY <1>1, ResearchAssumption DEF Days
  <2> HIDE DEF held
  <2> QED BY <2>1
<1>3. m \in held
  BY <1>2, FS_EmptySet, ResearchAssumption
<1>4. held \in SUBSET Days /\ held # {}
  BY <1>3
<1>5. Min(held) \in held
  <2> HIDE DEF held
  <2> QED BY <1>4, LeastDay
<1>6. QED
  BY <1>5 DEF DefaultAsOf

-----------------------------------------------------------------------------
(* What a portfolio is bought at *)

\* A backtest that opens after a day buys after it.
LEMMA BacktestBuysLater ==
    ASSUME NEW book, NEW first \in Days, NEW last \in Days, NEW asOf \in Days, first > asOf
    PROVE  LET outcome == RunBacktest(book, RunTickers, first, last)
           IN  outcome.entry # None => outcome.entry > asOf
<1> DEFINE sessions == SessionsOf(RunTickers, first, last)
           candidates == {d \in sessions : d >= first + Delay}
           flat == book = NoPortfolio \/ candidates = {}
<1>1. RunBacktest(book, RunTickers, first, last).entry = IF flat THEN None ELSE Min(candidates)
  BY DEF RunBacktest
<1>2. sessions \in SUBSET Days
  BY SessionsAreDays
<1>3. CASE flat
  BY <1>1, <1>3
<1>4. CASE ~flat
  <2>1. candidates \in SUBSET Days /\ candidates # {}
    BY <1>2, <1>4
  <2>2. Min(candidates) \in candidates /\ Min(candidates) \in Days
    <3> HIDE DEF candidates
    <3> QED BY <2>1, LeastDay
  <2>3. Min(candidates) >= first + Delay
    BY <2>2
  <2> HIDE DEF candidates
  <2>4. Min(candidates) > asOf
    BY <2>2, <2>3, BacktestAssumption, ResearchAssumption DEF Days
  <2> QED BY <1>1, <1>4, <2>4
<1>5. QED
  BY <1>3, <1>4

\* An evaluation buys after the as-of date, whatever the data has become.
LEMMA EvaluationBuysLater ==
    ASSUME NEW book, NEW asOf \in Days, NEW last \in Days
    PROVE  LET outcome == EvaluateSnapshot(book, asOf, last)
           IN  outcome.entry # None => outcome.entry > asOf
<1> DEFINE sessions == SessionsOf(DOMAIN book \cup {Benchmark}, asOf, last)
           later == {d \in sessions : d > asOf}
           delay == IF Delay > 0 THEN Delay - 1 ELSE 0
           eligible == {d \in later : Cardinality({x \in later : x < d}) >= delay}
           entry == Min(eligible)
           window == {d \in sessions : d >= entry /\ \A t \in DOMAIN book : Priced(t, d)}
           unfit == \/ book = NoPortfolio
                    \/ \E t \in DOMAIN book : \A d \in sessions : ~Priced(t, d)
                    \/ eligible = {}
           outcome == EvaluateSnapshot(book, asOf, last)
<1>1. outcome.entry = IF unfit \/ Cardinality(window) < 2 THEN None ELSE Min(window)
  BY DEF EvaluateSnapshot, Unfit
<1>2. sessions \in SUBSET Days
  BY SessionsAreDays
<1>3. CASE unfit \/ Cardinality(window) < 2
  <2> HIDE DEF unfit, window
  <2> QED BY <1>1, <1>3
<1>4. CASE ~(unfit \/ Cardinality(window) < 2)
  <2>1. eligible \in SUBSET Days /\ eligible # {}
    BY <1>2, <1>4
  <2>2. Min(eligible) \in eligible
    <3> HIDE DEF eligible
    <3> QED BY <2>1, LeastDay
  <2>3. entry \in Days /\ entry > asOf
    BY <2>1, <2>2
  <2>4. window \in SUBSET Days
    BY <1>2
  <2>5. window # {}
    <3> HIDE DEF window, unfit
    <3> QED BY <1>4, FS_EmptySet
  <2>6. Min(window) \in window /\ Min(window) \in Days
    <3> HIDE DEF window
    <3> QED BY <2>4, <2>5, LeastDay
  <2>7. Min(window) >= entry
    BY <2>6
  <2> HIDE DEF window, entry, unfit
  <2>8. Min(window) > asOf
    BY <2>3, <2>6, <2>7, ResearchAssumption DEF Days
  <2> QED BY <1>1, <1>4, <2>8
<1>5. QED
  BY <1>3, <1>4
-----------------------------------------------------------------------------
(* The invariant *)

OpenPhases == {"decide", "freeze", "freezing", "open", "backtest", "close", "raised"}
LivePhases == Phases \ {"idle", "ended"}

Files == [state : {"whole"}, of : Runs]
Manifests == [state : {"whole"}, of : Runs, book : Books]
Snapshots == [state : {"whole"}, of : Runs, asOf : Days, seen : SUBSET Days,
              book : Books, hashed : {Missing, Torn} \cup Files]

Live == [phase : LivePhases, asOf : Days, id : Ids, last : Days, backtest : BOOLEAN,
         seen : SUBSET Days, book : Books \cup {NoPortfolio}, open : BOOLEAN]
Over == [phase : {"ended"}, open : {FALSE}]
Loaded == [phase : {"loaded"}, snap : Snapshots]

Shape ==
    /\ today \in FirstDay .. MaxDay
    /\ run \in [Runs -> {Idle} \cup Live \cup Over]
    /\ eval \in [Evals -> {[phase |-> "idle"], [phase |-> "ended"]} \cup Loaded]
    /\ features \in [Ids -> {Missing, Torn} \cup Files]
    /\ snapshots \in [Ids -> {Missing, Torn} \cup Snapshots]
    /\ manifests \in [Ids -> {Missing, Torn} \cup Manifests]
    /\ frozen \subseteq Snapshots

\* The decision of run r in state x is among the snapshots in F.
Decided(r, x, F) == \E s \in F : s.of = r /\ s.asOf = x.asOf /\ s.book = x.book

\* What run r knows in state x, F being the snapshots frozen so far.
RunBlind(r, x, F) ==
    x.phase \notin {"idle", "ended"} =>
        /\ x.id[1] = x.asOf
        /\ x.backtest => \E d \in SessionsOf(RunTickers, 0, x.last) : d > x.asOf
        /\ \A d \in x.seen : d <= x.asOf
        /\ x.phase \in {"freeze", "freezing", "open", "backtest", "close", "list"} =>
                x.book \in Books
        /\ x.phase \in {"open", "backtest", "close", "list"} => Decided(r, x, F)
        /\ x.phase \in {"open", "backtest"} => x.backtest
        /\ x.open <=> x.phase \in OpenPhases

RunsBlind == \A r \in Runs : RunBlind(r, run[r], frozen)
FrozenBlind == \A s \in frozen : \A d \in s.seen : d <= s.asOf
FilesFrozen == \A i \in Ids : snapshots[i].state = "whole" => snapshots[i] \in frozen
LoadedFrozen == \A e \in Evals : eval[e].phase = "loaded" => eval[e].snap \in frozen

BlindInv ==
    /\ Shape /\ RunsBlind /\ FrozenBlind /\ FilesFrozen /\ LoadedFrozen
    /\ OutcomesFollowDecisions

\* A run is idle, live or over, and its phase says which.
LEMMA RunStates ==
    ASSUME BlindInv, NEW r \in Runs
    PROVE  \/ run[r] = Idle /\ run[r].phase = "idle"
           \/ run[r] \in Live /\ run[r].phase \in LivePhases
           \/ run[r] \in Over /\ run[r].phase = "ended"
<1>1. run[r] \in {Idle} \cup Live \cup Over
  BY DEF BlindInv, Shape
<1>2. CASE run[r] = Idle
  BY <1>2 DEF Idle
<1>3. CASE run[r] \in Live
  BY <1>3 DEF Live
<1>4. CASE run[r] \in Over
  BY <1>4 DEF Over
<1>5. QED
  BY <1>1, <1>2, <1>3, <1>4

\* What a state past "idle" and before "ended" is.
LEMMA LiveRun ==
    ASSUME BlindInv, NEW r \in Runs, run[r].phase \notin {"idle", "ended"}
    PROVE  run[r] \in Live
  BY RunStates

LEMMA InvTyped == BlindInv => TypeOK
<1> SUFFICES ASSUME BlindInv PROVE TypeOK
  OBVIOUS
<1>1. \A r \in Runs : run[r].phase \in Phases
  BY RunStates DEF LivePhases, Phases
<1>2. \A r \in Runs : run[r].phase \notin {"idle", "ended"} =>
        run[r].id \in Ids /\ run[r].seen \subseteq Days
  BY LiveRun DEF Live
<1>3. ASSUME NEW r \in Runs, run[r].phase # "idle"
      PROVE  run[r].open <=> run[r].phase \in OpenPhases
  <2>1. CASE run[r] \in Over
    BY <2>1 DEF Over, OpenPhases
  <2>2. CASE run[r] \in Live
    <3>1. run[r].phase \notin {"idle", "ended"}
      BY <2>2 DEF Live, LivePhases
    <3> QED BY <3>1, Zenon DEF BlindInv, RunsBlind, RunBlind
  <2> QED BY <1>3, <2>1, <2>2, RunStates
<1>4. \A e \in Evals : eval[e].phase \in {"idle", "loaded", "ended"}
  BY DEF BlindInv, Shape, Loaded
<1>5. \A i \in Ids : /\ features[i].state \in {"missing", "torn", "whole"}
                     /\ snapshots[i].state \in {"missing", "torn", "whole"}
                     /\ manifests[i].state \in {"missing", "torn", "whole"}
  BY DEF BlindInv, Shape, Missing, Torn, Files, Snapshots, Manifests
<1>6. QED
  BY <1>1, <1>2, <1>3, <1>4, <1>5 DEF BlindInv, Shape, TypeOK, OpenPhases

LEMMA BlindInit == Init => BlindInv
<1> SUFFICES ASSUME Init PROVE BlindInv
  OBVIOUS
<1>1. Shape
  BY ResearchAssumption DEF Init, Shape, Idle
<1>2. RunsBlind
  BY DEF Init, Idle, RunsBlind, RunBlind
<1>3. FrozenBlind /\ FilesFrozen /\ LoadedFrozen /\ OutcomesFollowDecisions
  BY DEF Init, Missing, Idle, FrozenBlind, FilesFrozen, LoadedFrozen, OutcomesFollowDecisions
<1>4. QED
  BY <1>1, <1>2, <1>3 DEF BlindInv

-----------------------------------------------------------------------------
(* Steps of a run *)

\* A run that moves on keeps the invariant if its new state knows no more than
\* it may and what is reported afterwards was decided first.
LEMMA RunMovesOn ==
    ASSUME BlindInv, NEW r \in Runs, NEW x \in {Idle} \cup Live \cup Over,
           RunBlind(r, x, frozen), run' = [run EXCEPT ![r] = x],
           UNCHANGED <<today, eval, snapshots, frozen>>,
           features' \in [Ids -> {Missing, Torn} \cup Files],
           manifests' \in [Ids -> {Missing, Torn} \cup Manifests],
           OutcomesFollowDecisions'
    PROVE  BlindInv'
<1> USE DEF BlindInv
<1>1. Shape'
  BY DEF Shape
<1>2. RunsBlind'
  <2> SUFFICES ASSUME NEW q \in Runs PROVE RunBlind(q, run'[q], frozen)
    BY Zenon DEF RunsBlind
  <2>1. run'[q] = IF q = r THEN x ELSE run[q]
    BY DEF Shape
  <2> QED BY <2>1, Zenon DEF RunsBlind
<1>3. (FrozenBlind /\ FilesFrozen /\ LoadedFrozen)'
  BY Zenon DEF FrozenBlind, FilesFrozen, LoadedFrozen
<1>4. QED
  BY <1>1, <1>2, <1>3

\* The same without a change of what is reported.
LEMMA RunMoves ==
    ASSUME BlindInv, NEW r \in Runs, NEW x \in {Idle} \cup Live \cup Over,
           RunBlind(r, x, frozen), run' = [run EXCEPT ![r] = x],
           UNCHANGED <<today, eval, snapshots, manifests, frozen, results>>,
           features' \in [Ids -> {Missing, Torn} \cup Files]
    PROVE  BlindInv'
<1>1. OutcomesFollowDecisions'
  BY Zenon DEF BlindInv, OutcomesFollowDecisions
<1>2. manifests' \in [Ids -> {Missing, Torn} \cup Manifests]
  BY DEF BlindInv, Shape
<1>3. QED
  BY <1>1, <1>2, RunMovesOn

\* An outcome of a frozen decision that is bought later may be reported.
LEMMA OutcomeReported ==
    ASSUME BlindInv, NEW o, results' \subseteq results \cup {o},
           \E s \in frozen : s.of = o.of /\ s.asOf = o.asOf /\ s.book = o.book,
           \A d \in o.seen : d <= o.asOf,
           o.outcome.entry # None => o.outcome.entry > o.asOf,
           UNCHANGED <<manifests, frozen>>
    PROVE  OutcomesFollowDecisions'
<1>1. ASSUME NEW y \in results'
      PROVE  /\ \E s \in frozen : s.of = y.of /\ s.asOf = y.asOf /\ s.book = y.book
             /\ \A d \in y.seen : d <= y.asOf
             /\ y.outcome.entry # None => y.outcome.entry > y.asOf
  <2>1. CASE y = o
    BY <2>1
  <2>2. CASE y \in results
    BY <2>2, Zenon DEF BlindInv, OutcomesFollowDecisions
  <2> QED BY <2>1, <2>2
<1>2. QED
  BY <1>1, Zenon DEF BlindInv, OutcomesFollowDecisions

LEMMA StartKeeps == ASSUME BlindInv, NEW r \in Runs, Start(r) PROVE BlindInv'
<1> DEFINE days == SessionsOf(RunTickers, 0, today)
<1>1. today \in Days /\ 0 \in Days
  BY ResearchAssumption DEF BlindInv, Shape, Days
<1>2. days \in SUBSET Days /\ days # {}
  <2>1. days \in SUBSET Days
    BY <1>1, SessionsAreDays
  <2> QED BY <2>1 DEF Start
<1> HIDE DEF days
<1>3. PICK asOf \in AsOfs \cup {DefaultAsOf(days)}, second \in Seconds,
           backtest \in WithBacktest :
        run' = [run EXCEPT ![r] =
                [phase |-> "read", asOf |-> asOf, id |-> <<asOf, second>>, last |-> today,
                 backtest |-> backtest /\ \E d \in days : d > asOf,
                 seen |-> {}, book |-> NoPortfolio, open |-> FALSE]]
  BY DEF Start, days
<1>4. asOf \in Days
  <2>1. DefaultAsOf(days) \in Days
    BY <1>2, DefaultIsADay
  <2> QED BY <2>1, ResearchAssumption DEF Days
<1> DEFINE x == [phase |-> "read", asOf |-> asOf, id |-> <<asOf, second>>, last |-> today,
                 backtest |-> backtest /\ \E d \in days : d > asOf,
                 seen |-> {}, book |-> NoPortfolio, open |-> FALSE]
<1>5. x \in Live
  BY <1>1, <1>4 DEF Live, LivePhases, Phases, Ids
<1>6. RunBlind(r, x, frozen)
  BY DEF RunBlind, OpenPhases, days
<1>7. QED
  <2>1. run' = [run EXCEPT ![r] = x]
    BY <1>3
  <2>2. UNCHANGED <<today, eval, features, snapshots, manifests, frozen, results>>
    BY DEF Start, World, FilesKept
  <2> HIDE DEF x
  <2> QED BY <1>5, <1>6, <2>1, <2>2, RunMoves DEF BlindInv, Shape

LEMMA ReadVisibleKeeps == ASSUME BlindInv, NEW r \in Runs, ReadVisible(r) PROVE BlindInv'
<1> DEFINE past == {d \in SessionsOf(RunTickers, 0, today) : d <= run[r].asOf}
           x == [run[r] EXCEPT !.seen = past, !.phase = "features"]
<1>1. run[r] \in Live /\ run[r].phase = "read"
  BY LiveRun DEF ReadVisible, At
<1>2. past \in SUBSET Days
  <2>1. today \in Days /\ 0 \in Days
    BY ResearchAssumption DEF BlindInv, Shape, Days
  <2> QED BY <2>1, SessionsAreDays
<1>3. x \in Live
  <2> HIDE DEF past
  <2> QED BY <1>1, <1>2 DEF Live, LivePhases, Phases
<1>4. RunBlind(r, x, frozen)
  <2>1. RunBlind(r, run[r], frozen)
    BY DEF BlindInv, RunsBlind
  <2>2. \A d \in past : d <= run[r].asOf
    OBVIOUS
  <2>3. /\ x.phase = "features" /\ x.id = run[r].id /\ x.asOf = run[r].asOf
        /\ x.backtest = run[r].backtest /\ x.last = run[r].last /\ x.seen = past
        /\ x.open = run[r].open
    <3> HIDE DEF past
    <3> QED BY <1>1 DEF Live
  <2> HIDE DEF x, past
  <2> QED BY <1>1, <2>1, <2>2, <2>3 DEF RunBlind, OpenPhases
<1>5. QED
  <2>1. run' = [run EXCEPT ![r] = x]
    BY DEF ReadVisible
  <2>2. UNCHANGED <<today, eval, features, snapshots, manifests, frozen, results>>
    BY DEF ReadVisible, World, FilesKept
  <2> HIDE DEF x
  <2> QED BY <1>3, <1>4, <2>1, <2>2, RunMoves DEF BlindInv, Shape

\* A run in another phase, with the same knowledge.
LEMMA PhaseMoves ==
    ASSUME BlindInv, NEW r \in Runs, run[r] \in Live, NEW phase \in LivePhases,
           NEW open \in BOOLEAN, open <=> phase \in OpenPhases,
           phase \in {"freeze", "freezing", "open", "backtest", "close", "list"} =>
               run[r].book \in Books,
           phase \in {"open", "backtest", "close", "list"} => Decided(r, run[r], frozen),
           phase \in {"open", "backtest"} => run[r].backtest
    PROVE  LET x == [run[r] EXCEPT !.phase = phase, !.open = open]
           IN  x \in Live /\ RunBlind(r, x, frozen)
<1> DEFINE x == [run[r] EXCEPT !.phase = phase, !.open = open]
<1>1. x \in Live
  BY DEF Live
<1>2. /\ x.phase = phase /\ x.id = run[r].id /\ x.asOf = run[r].asOf
      /\ x.backtest = run[r].backtest /\ x.last = run[r].last /\ x.seen = run[r].seen
      /\ x.open = open /\ x.book = run[r].book
  BY DEF Live
<1>3. RunBlind(r, run[r], frozen) /\ run[r].phase \notin {"idle", "ended"}
  BY DEF BlindInv, RunsBlind, Live, LivePhases
<1> HIDE DEF x
<1>4. Decided(r, run[r], frozen) => Decided(r, x, frozen)
  BY <1>2, Zenon DEF Decided
<1>5. RunBlind(r, x, frozen)
  <2>1. /\ x.id[1] = x.asOf
        /\ x.backtest => \E d \in SessionsOf(RunTickers, 0, x.last) : d > x.asOf
        /\ \A d \in x.seen : d <= x.asOf
    BY <1>2, <1>3 DEF RunBlind
  <2>2. /\ x.phase \in {"freeze", "freezing", "open", "backtest", "close", "list"} =>
                x.book \in Books
        /\ x.phase \in {"open", "backtest", "close", "list"} => Decided(r, x, frozen)
        /\ x.phase \in {"open", "backtest"} => x.backtest
        /\ x.open <=> x.phase \in OpenPhases
    BY <1>2, <1>4
  <2> QED BY <2>1, <2>2, Zenon DEF RunBlind
<1>6. QED
  BY <1>1, <1>5 DEF x

\* Going to another phase leaves the rest of a run's state.
LEMMA GotoIs ==
    ASSUME BlindInv, NEW r \in Runs, run[r] \in Live, NEW phase, Goto(r, phase)
    PROVE  run' = [run EXCEPT ![r] = [run[r] EXCEPT !.phase = phase, !.open = run[r].open]]
<1>1. [run[r] EXCEPT !.phase = phase] = [run[r] EXCEPT !.phase = phase, !.open = run[r].open]
  BY DEF Live
<1>2. run' = [run EXCEPT ![r] = [run[r] EXCEPT !.phase = phase]]
  BY DEF Goto
<1>3. QED
  BY <1>1, <1>2

LEMMA SaveFeaturesKeeps == ASSUME BlindInv, NEW r \in Runs, SaveFeatures(r) PROVE BlindInv'
<1> DEFINE x == [run[r] EXCEPT !.phase = "news", !.open = run[r].open]
<1>1. run[r] \in Live /\ run[r].phase = "features"
  BY LiveRun DEF SaveFeatures, At
<1>2. run[r].open \in BOOLEAN /\ (run[r].open <=> "news" \in OpenPhases)
  BY <1>1, Zenon DEF BlindInv, RunsBlind, RunBlind, Live, OpenPhases
<1>3. x \in Live /\ RunBlind(r, x, frozen)
  <2>1. "news" \in LivePhases
    BY DEF LivePhases, Phases
  <2> QED BY <1>1, <1>2, <2>1, PhaseMoves
<1>4. run' = [run EXCEPT ![r] = x]
  BY <1>1, GotoIs DEF SaveFeatures
<1>5. features' \in [Ids -> {Missing, Torn} \cup Files]
  <2>1. [state |-> "whole", of |-> r] \in Files
    BY DEF Files
  <2> QED BY <2>1 DEF SaveFeatures, BlindInv, Shape
<1>6. UNCHANGED <<today, eval, snapshots, manifests, frozen, results>>
  BY DEF SaveFeatures, World
<1> HIDE DEF x
<1>7. QED
  BY <1>3, <1>4, <1>5, <1>6, RunMoves

LEMMA GatherNewsKeeps == ASSUME BlindInv, NEW r \in Runs, GatherNews(r) PROVE BlindInv'
<1> DEFINE x == [run[r] EXCEPT !.phase = "decide", !.open = TRUE]
<1>1. run[r] \in Live
  BY LiveRun DEF GatherNews, At
<1>2. x \in Live /\ RunBlind(r, x, frozen)
  <2>1. "decide" \in LivePhases /\ "decide" \in OpenPhases
    BY DEF LivePhases, Phases, OpenPhases
  <2> QED BY <1>1, <2>1, PhaseMoves
<1>3. run' = [run EXCEPT ![r] = x]
  BY DEF GatherNews
<1>4. UNCHANGED <<today, eval, features, snapshots, manifests, frozen, results>>
  BY DEF GatherNews, World, FilesKept
<1> HIDE DEF x
<1>5. QED
  BY <1>2, <1>3, <1>4, RunMoves DEF BlindInv, Shape

LEMMA DecideKeeps == ASSUME BlindInv, NEW r \in Runs, Decide(r) PROVE BlindInv'
<1>1. run[r] \in Live /\ run[r].phase = "decide"
  BY LiveRun DEF Decide, At
<1>2. PICK book \in Books : run' = [run EXCEPT ![r] = [@ EXCEPT !.book = book, !.phase = "freeze"]]
  BY DEF Decide
<1> DEFINE x == [run[r] EXCEPT !.book = book, !.phase = "freeze"]
<1>3. x \in Live
  BY <1>1 DEF Live, LivePhases, Phases
<1>4. /\ x.phase = "freeze" /\ x.id = run[r].id /\ x.asOf = run[r].asOf
      /\ x.backtest = run[r].backtest /\ x.last = run[r].last /\ x.seen = run[r].seen
      /\ x.open = run[r].open /\ x.book = book
  BY <1>1 DEF Live
<1> HIDE DEF x
<1>5. RunBlind(r, x, frozen)
  <2>1. RunBlind(r, run[r], frozen)
    BY DEF BlindInv, RunsBlind
  <2> QED BY <1>1, <1>4, <2>1 DEF RunBlind, OpenPhases
<1>6. run' = [run EXCEPT ![r] = x]
  BY <1>2 DEF x
<1>7. UNCHANGED <<today, eval, features, snapshots, manifests, frozen, results>>
  BY DEF Decide, World, FilesKept
<1>8. QED
  BY <1>3, <1>5, <1>6, <1>7, RunMoves DEF BlindInv, Shape

\* What the snapshot of a decided run is.
LEMMA SnapshotTyped ==
    ASSUME BlindInv, NEW r \in Runs, At(r, "freezing")
    PROVE  /\ SnapshotOf(r) \in Snapshots /\ SnapshotOf(r).state = "whole"
           /\ SnapshotOf(r).of = r /\ SnapshotOf(r).asOf = run[r].asOf
           /\ SnapshotOf(r).book = run[r].book
           /\ \A d \in SnapshotOf(r).seen : d <= SnapshotOf(r).asOf
<1>1. run[r] \in Live /\ run[r].phase = "freezing"
  BY LiveRun DEF At
<1>2. run[r].book \in Books /\ \A d \in run[r].seen : d <= run[r].asOf
  <2>1. RunBlind(r, run[r], frozen)
    BY DEF BlindInv, RunsBlind
  <2> QED BY <1>1, <2>1 DEF RunBlind
<1>3. run[r].asOf \in Days /\ run[r].seen \in SUBSET Days /\ run[r].id \in Ids
  BY <1>1 DEF Live
<1>4. features[run[r].id] \in {Missing, Torn} \cup Files
  BY <1>3 DEF BlindInv, Shape
<1>5. SnapshotOf(r) \in Snapshots
  BY <1>2, <1>3, <1>4 DEF SnapshotOf, Snapshots
<1>6. QED
  BY <1>2, <1>5 DEF SnapshotOf

\* The snapshot's file is opened, which tears it.
LEMMA OpenFileKeeps ==
    ASSUME BlindInv, NEW r \in Runs, At(r, "freeze"), Goto(r, "freezing"),
           snapshots' = [snapshots EXCEPT ![run[r].id] = Torn],
           UNCHANGED <<today, eval, features, manifests, frozen, results>>
    PROVE  BlindInv'
<1> DEFINE x == [run[r] EXCEPT !.phase = "freezing", !.open = run[r].open]
<1>1. run[r] \in Live /\ run[r].phase = "freeze"
  BY LiveRun DEF At
<1>2. /\ run[r].open \in BOOLEAN /\ (run[r].open <=> "freezing" \in OpenPhases)
      /\ run[r].book \in Books
  <2>1. RunBlind(r, run[r], frozen)
    BY DEF BlindInv, RunsBlind
  <2> QED BY <1>1, <2>1 DEF RunBlind, Live, OpenPhases
<1>3. x \in Live /\ RunBlind(r, x, frozen)
  <2>1. "freezing" \in LivePhases
    BY DEF LivePhases, Phases
  <2> QED BY <1>1, <1>2, <2>1, PhaseMoves
<1>4. run' = [run EXCEPT ![r] = x]
  BY <1>1, GotoIs
<1> HIDE DEF x
<1>5. Shape'
  BY <1>3, <1>4 DEF BlindInv, Shape
<1>6. RunsBlind'
  <2> SUFFICES ASSUME NEW q \in Runs PROVE RunBlind(q, run'[q], frozen)
    BY Zenon DEF RunsBlind
  <2>1. run'[q] = IF q = r THEN x ELSE run[q]
    BY <1>4 DEF BlindInv, Shape
  <2> QED BY <1>3, <2>1, Zenon DEF BlindInv, RunsBlind
<1>7. FilesFrozen'
  <2> SUFFICES ASSUME NEW i \in Ids, snapshots'[i].state = "whole"
               PROVE  snapshots'[i] \in frozen
    BY Zenon DEF FilesFrozen
  <2>1. snapshots'[i] = IF i = run[r].id THEN Torn ELSE snapshots[i]
    BY DEF BlindInv, Shape
  <2>2. snapshots'[i] = snapshots[i]
    BY <2>1 DEF Torn
  <2> QED BY <2>2 DEF BlindInv, FilesFrozen
<1>8. (FrozenBlind /\ LoadedFrozen /\ OutcomesFollowDecisions)'
  BY Zenon DEF BlindInv, FrozenBlind, LoadedFrozen, OutcomesFollowDecisions
<1>9. QED
  BY <1>5, <1>6, <1>7, <1>8 DEF BlindInv

\* More snapshots leave the decided decided.
LEMMA FrozenGrows ==
    ASSUME NEW F, NEW G, F \subseteq G, NEW q, NEW y, RunBlind(q, y, F)
    PROVE  RunBlind(q, y, G)
<1>1. Decided(q, y, F) => Decided(q, y, G)
  BY Zenon DEF Decided
<1>2. QED
  BY <1>1, Zenon DEF RunBlind

\* The snapshot is whole on disk: from here on the run is decided.
LEMMA WriteFileKeeps ==
    ASSUME BlindInv, NEW r \in Runs, At(r, "freezing"),
           snapshots' = [snapshots EXCEPT ![run[r].id] = SnapshotOf(r)],
           frozen' = frozen \cup {SnapshotOf(r)},
           Goto(r, IF run[r].backtest THEN "open" ELSE "close"),
           UNCHANGED <<today, eval, features, manifests, results>>
    PROVE  BlindInv'
<1> DEFINE phase == IF run[r].backtest THEN "open" ELSE "close"
           x == [run[r] EXCEPT !.phase = phase, !.open = run[r].open]
           s == SnapshotOf(r)
<1>1. run[r] \in Live /\ run[r].phase = "freezing"
  BY LiveRun DEF At
<1>2. /\ s \in Snapshots /\ s.state = "whole" /\ s.of = r /\ s.asOf = run[r].asOf
      /\ s.book = run[r].book /\ \A d \in s.seen : d <= s.asOf
  BY SnapshotTyped
<1> HIDE DEF s
<1>3. x \in Live
  BY <1>1 DEF Live, LivePhases, Phases
<1>4. /\ x.phase = phase /\ x.id = run[r].id /\ x.asOf = run[r].asOf
      /\ x.backtest = run[r].backtest /\ x.last = run[r].last /\ x.seen = run[r].seen
      /\ x.open = run[r].open /\ x.book = run[r].book
  BY <1>1 DEF Live
<1>5. run' = [run EXCEPT ![r] = x]
  BY <1>1, GotoIs
<1> HIDE DEF x
<1>6. frozen' = frozen \cup {s} /\ snapshots' = [snapshots EXCEPT ![run[r].id] = s]
  BY DEF s
<1>7. RunBlind(r, x, frozen')
  <2>1. RunBlind(r, run[r], frozen)
    BY DEF BlindInv, RunsBlind
  <2>2. Decided(r, x, frozen')
    BY <1>2, <1>4, <1>6 DEF Decided
  <2>3. phase \in {"open", "close"} /\ (phase = "open" => x.backtest)
    BY <1>4
  <2> HIDE DEF phase
  <2>4. /\ x.id[1] = x.asOf
        /\ x.backtest => \E d \in SessionsOf(RunTickers, 0, x.last) : d > x.asOf
        /\ \A d \in x.seen : d <= x.asOf
        /\ x.book \in Books
        /\ x.open
    BY <1>1, <1>4, <2>1 DEF RunBlind, OpenPhases
  <2>5. x.phase \in OpenPhases /\ (x.phase \in {"open", "backtest"} => x.backtest)
    BY <1>4, <2>3 DEF OpenPhases
  <2> QED BY <2>2, <2>4, <2>5, Zenon DEF RunBlind
<1>8. Shape'
  <2>1. run[r].id \in Ids
    BY <1>1 DEF Live
  <2> QED BY <1>2, <1>3, <1>5, <1>6, <2>1 DEF BlindInv, Shape
<1>9. RunsBlind'
  <2> SUFFICES ASSUME NEW q \in Runs PROVE RunBlind(q, run'[q], frozen')
    BY Zenon DEF RunsBlind
  <2>1. CASE q = r
    <3>1. run'[q] = x
      BY <1>5, <2>1 DEF BlindInv, Shape
    <3> QED BY <1>7, <2>1, <3>1
  <2>2. CASE q # r
    <3>1. run'[q] = run[q]
      BY <1>5, <2>2 DEF BlindInv, Shape
    <3>2. RunBlind(q, run[q], frozen)
      BY DEF BlindInv, RunsBlind
    <3>3. frozen \subseteq frozen'
      BY <1>6
    <3>4. RunBlind(q, run[q], frozen')
      BY <3>2, <3>3, FrozenGrows
    <3> QED BY <3>1, <3>4
  <2> QED BY <2>1, <2>2
<1>10. FrozenBlind'
  BY <1>2, <1>6 DEF BlindInv, FrozenBlind
<1>11. FilesFrozen'
  <2> SUFFICES ASSUME NEW i \in Ids, snapshots'[i].state = "whole"
               PROVE  snapshots'[i] \in frozen'
    BY Zenon DEF FilesFrozen
  <2>1. snapshots'[i] = IF i = run[r].id THEN s ELSE snapshots[i]
    BY <1>6 DEF BlindInv, Shape
  <2> QED BY <1>6, <2>1 DEF BlindInv, FilesFrozen
<1>12. LoadedFrozen'
  BY <1>6 DEF BlindInv, LoadedFrozen
<1>13. OutcomesFollowDecisions'
  BY <1>6, Zenon DEF BlindInv, OutcomesFollowDecisions
<1>14. QED
  BY <1>8, <1>9, <1>10, <1>11, <1>12, <1>13 DEF BlindInv

LEMMA FreezeKeeps == ASSUME BlindInv, NEW r \in Runs, Freeze(r) PROVE BlindInv'
<1>1. CASE /\ At(r, "freeze") /\ Goto(r, "freezing")
           /\ snapshots' = [snapshots EXCEPT ![run[r].id] = Torn]
           /\ UNCHANGED World /\ UNCHANGED <<features, manifests, frozen, results>>
  BY <1>1, OpenFileKeeps DEF World
<1>2. CASE /\ At(r, "freezing")
           /\ snapshots' = [snapshots EXCEPT ![run[r].id] = SnapshotOf(r)]
           /\ frozen' = frozen \cup {SnapshotOf(r)}
           /\ Goto(r, IF run[r].backtest THEN "open" ELSE "close")
           /\ UNCHANGED World /\ UNCHANGED <<features, manifests, results>>
  <2>1. UNCHANGED <<today, eval, features, manifests, results>>
    BY <1>2 DEF World
  <2> QED BY <1>2, <2>1, WriteFileKeeps
<1>3. QED
  BY <1>1, <1>2 DEF Freeze

LEMMA OpenTestWindowKeeps ==
    ASSUME BlindInv, NEW r \in Runs, OpenTestWindow(r) PROVE BlindInv'
<1> DEFINE x == [run[r] EXCEPT !.phase = "backtest", !.open = run[r].open]
<1>1. run[r] \in Live /\ run[r].phase = "open"
  BY LiveRun DEF OpenTestWindow, At
<1>2. /\ run[r].open \in BOOLEAN /\ (run[r].open <=> "backtest" \in OpenPhases)
      /\ run[r].book \in Books /\ Decided(r, run[r], frozen) /\ run[r].backtest
  <2>1. RunBlind(r, run[r], frozen)
    BY DEF BlindInv, RunsBlind
  <2> QED BY <1>1, <2>1 DEF RunBlind, Live, OpenPhases
<1>3. x \in Live /\ RunBlind(r, x, frozen)
  <2>1. "backtest" \in LivePhases
    BY DEF LivePhases, Phases
  <2> QED BY <1>1, <1>2, <2>1, PhaseMoves
<1>4. run' = [run EXCEPT ![r] = x]
  BY <1>1, GotoIs DEF OpenTestWindow
<1>5. UNCHANGED <<today, eval, features, snapshots, manifests, frozen, results>>
  BY DEF OpenTestWindow, World, FilesKept
<1> HIDE DEF x
<1>6. QED
  BY <1>3, <1>4, <1>5, RunMoves DEF BlindInv, Shape

\* The backtest of a decided run opens after its as-of date.
LEMMA BacktestOutcome ==
    ASSUME BlindInv, NEW r \in Runs, At(r, "backtest")
    PROVE  LET outcome == Backtests[<<run[r].book, TestStart(r), run[r].last>>]
           IN  outcome.entry # None => outcome.entry > run[r].asOf
<1> DEFINE later == {d \in SessionsOf(RunTickers, 0, run[r].last) : d > run[r].asOf}
           key == <<run[r].book, TestStart(r), run[r].last>>
           keys == {x \in Books \X Days \X Days : x[2] \in SessionsOf(RunTickers, x[2], x[3])}
<1>1. /\ run[r] \in Live /\ run[r].phase = "backtest"
      /\ run[r].asOf \in Days /\ run[r].last \in Days /\ 0 \in Days
  BY LiveRun, ResearchAssumption DEF At, Live, Days
<1>2. run[r].book \in Books /\ \E d \in SessionsOf(RunTickers, 0, run[r].last) : d > run[r].asOf
  <2>1. RunBlind(r, run[r], frozen)
    BY DEF BlindInv, RunsBlind
  <2> QED BY <1>1, <2>1 DEF RunBlind
<1>3. later \in SUBSET Days /\ later # {}
  <2>1. SessionsOf(RunTickers, 0, run[r].last) \in SUBSET Days
    BY <1>1, SessionsAreDays
  <2> QED BY <1>2, <2>1
<1>4. TestStart(r) \in later /\ TestStart(r) \in Days
  <2>1. TestStart(r) = Min(later)
    BY DEF TestStart
  <2> HIDE DEF later
  <2> QED BY <1>3, <2>1, LeastDay
<1>5. /\ TestStart(r) > run[r].asOf
      /\ TestStart(r) \in SessionsOf(RunTickers, TestStart(r), run[r].last)
  BY <1>1, <1>4, ResearchAssumption DEF SessionsOf, Days
<1>6. key \in keys
  BY <1>1, <1>2, <1>4, <1>5
<1>7. Backtests[key] = RunBacktest(run[r].book, RunTickers, TestStart(r), run[r].last)
  BY <1>6 DEF Backtests
<1>8. LET outcome == RunBacktest(run[r].book, RunTickers, TestStart(r), run[r].last)
      IN  outcome.entry # None => outcome.entry > run[r].asOf
  BY <1>1, <1>4, <1>5, BacktestBuysLater
<1>9. QED
  BY <1>7, <1>8

LEMMA BacktestedKeeps == ASSUME BlindInv, NEW r \in Runs, Backtested(r) PROVE BlindInv'
<1> DEFINE x == [run[r] EXCEPT !.phase = "close", !.open = run[r].open]
           o == [kind |-> "backtest", of |-> r, asOf |-> run[r].asOf, seen |-> run[r].seen,
                 book |-> run[r].book,
                 outcome |-> Backtests[<<run[r].book, TestStart(r), run[r].last>>]]
<1>1. run[r] \in Live /\ run[r].phase = "backtest"
  BY LiveRun DEF Backtested, At
<1>2. /\ run[r].open \in BOOLEAN /\ (run[r].open <=> "close" \in OpenPhases)
      /\ run[r].book \in Books /\ Decided(r, run[r], frozen)
      /\ \A d \in run[r].seen : d <= run[r].asOf
  <2>1. RunBlind(r, run[r], frozen)
    BY DEF BlindInv, RunsBlind
  <2> QED BY <1>1, <2>1 DEF RunBlind, Live, OpenPhases
<1>3. x \in Live /\ RunBlind(r, x, frozen)
  <2>1. "close" \in LivePhases /\ "close" \notin {"open", "backtest"}
    BY DEF LivePhases, Phases
  <2> QED BY <1>1, <1>2, <2>1, PhaseMoves
<1>4. run' = [run EXCEPT ![r] = x]
  BY <1>1, GotoIs DEF Backtested
<1>5. UNCHANGED <<today, eval, features, snapshots, manifests, frozen>>
  BY DEF Backtested, World
<1>6. /\ o.of = r /\ o.asOf = run[r].asOf /\ o.seen = run[r].seen /\ o.book = run[r].book
      /\ o.outcome = Backtests[<<run[r].book, TestStart(r), run[r].last>>]
  OBVIOUS
<1>7. results' = results \cup {o}
  BY DEF Backtested
<1>8. o.outcome.entry # None => o.outcome.entry > o.asOf
  BY <1>6, BacktestOutcome DEF Backtested
<1> HIDE DEF x, o
<1>9. OutcomesFollowDecisions'
  <2>1. \E s \in frozen : s.of = o.of /\ s.asOf = o.asOf /\ s.book = o.book
    BY <1>2, <1>6 DEF Decided
  <2>2. \A d \in o.seen : d <= o.asOf
    BY <1>2, <1>6
  <2> QED BY <1>5, <1>7, <1>8, <2>1, <2>2, OutcomeReported
<1>10. QED
  BY <1>3, <1>4, <1>5, <1>9, RunMovesOn DEF BlindInv, Shape

\* A run that ends knows nothing more.
LEMMA EndedIsOver ==
    ASSUME NEW r, NEW F
    PROVE  Ended(FALSE) \in Over /\ RunBlind(r, Ended(FALSE), F)
  BY DEF Ended, Over, RunBlind

\* The command's files are as they were or torn: what is reported stays so.
LEMMA TornKeeps ==
    ASSUME BlindInv, NEW r \in Runs, run[r].id \in Ids, TornOrKept(r),
           UNCHANGED <<frozen, results>>
    PROVE  /\ features' \in [Ids -> {Missing, Torn} \cup Files]
           /\ manifests' \in [Ids -> {Missing, Torn} \cup Manifests]
           /\ OutcomesFollowDecisions'
<1>1. features' \in {features, [features EXCEPT ![run[r].id] = Torn]}
  BY DEF TornOrKept
<1>2. manifests' \in {manifests, [manifests EXCEPT ![run[r].id] = Torn]}
  BY DEF TornOrKept
<1>3. /\ features' \in [Ids -> {Missing, Torn} \cup Files]
      /\ manifests' \in [Ids -> {Missing, Torn} \cup Manifests]
  BY <1>1, <1>2 DEF BlindInv, Shape
<1>4. ASSUME NEW i \in Ids, manifests'[i].state = "whole"
      PROVE  manifests'[i] = manifests[i]
  BY <1>2, <1>4 DEF BlindInv, Shape, Torn
<1>5. ASSUME NEW i \in Ids, manifests'[i].state = "whole"
      PROVE  \E s \in frozen : s.of = manifests'[i].of /\ s.asOf = i[1]
                                  /\ s.book = manifests'[i].book
  BY <1>4, <1>5 DEF BlindInv, OutcomesFollowDecisions
<1>6. OutcomesFollowDecisions'
  BY <1>5, Zenon DEF BlindInv, OutcomesFollowDecisions
<1>7. QED
  BY <1>3, <1>6

LEMMA RaiseKeeps == ASSUME BlindInv, NEW r \in Runs, Raise(r) PROVE BlindInv'
<1>1. UNCHANGED <<today, eval, snapshots, frozen, results>>
  BY DEF Raise, World
<1>2. /\ features' \in [Ids -> {Missing, Torn} \cup Files]
      /\ manifests' \in [Ids -> {Missing, Torn} \cup Manifests]
      /\ OutcomesFollowDecisions'
  <2>1. CASE At(r, "idle")
    <3>1. UNCHANGED <<features, manifests>>
      BY <2>1 DEF Raise, TornOrKept, At
    <3> QED BY <1>1, <3>1, Zenon DEF BlindInv, Shape, OutcomesFollowDecisions
  <2>2. CASE ~At(r, "idle")
    <3>1. run[r].id \in Ids
      BY <2>2, LiveRun DEF Raise, At, Live
    <3> QED BY <1>1, <3>1, TornKeeps DEF Raise
  <2> QED BY <2>1, <2>2
<1>3. CASE run' = [run EXCEPT ![r] = Ended(FALSE)]
  BY <1>1, <1>2, <1>3, EndedIsOver, RunMovesOn
<1>4. CASE ~At(r, "idle") /\ run[r].open /\ Goto(r, "raised")
  <2> DEFINE x == [run[r] EXCEPT !.phase = "raised", !.open = run[r].open]
  <2>1. run[r] \in Live
    BY <1>4, LiveRun DEF Raise, At
  <2>2. x \in Live /\ RunBlind(r, x, frozen)
    <3>1. /\ "raised" \in LivePhases /\ "raised" \in OpenPhases /\ run[r].open \in BOOLEAN
          /\ "raised" \notin {"freeze", "freezing", "open", "backtest", "close", "list"}
      BY <2>1 DEF LivePhases, Phases, OpenPhases, Live
    <3> QED BY <1>4, <2>1, <3>1, PhaseMoves
  <2>3. run' = [run EXCEPT ![r] = x]
    BY <1>4, <2>1, GotoIs
  <2> HIDE DEF x
  <2> QED BY <1>1, <1>2, <2>2, <2>3, RunMovesOn
<1>5. QED
  BY <1>3, <1>4 DEF Raise

LEMMA CloseKeeps == ASSUME BlindInv, NEW r \in Runs, Close(r) PROVE BlindInv'
<1>1. UNCHANGED <<today, eval, features, snapshots, manifests, frozen, results>>
  BY DEF Close, World, FilesKept
<1>2. run[r] \in Live /\ run[r].phase \in {"close", "raised"}
  BY LiveRun DEF Close
<1>3. CASE run[r].phase = "close"
  <2> DEFINE x == [run[r] EXCEPT !.phase = "list", !.open = FALSE]
  <2>1. run[r].book \in Books /\ Decided(r, run[r], frozen)
    <3>1. RunBlind(r, run[r], frozen)
      BY DEF BlindInv, RunsBlind
    <3> QED BY <1>2, <1>3, <3>1 DEF RunBlind
  <2>2. x \in Live /\ RunBlind(r, x, frozen)
    <3>1. "list" \in LivePhases /\ "list" \notin OpenPhases /\ "list" \notin {"open", "backtest"}
      BY DEF LivePhases, Phases, OpenPhases
    <3> QED BY <1>2, <2>1, <3>1, PhaseMoves
  <2>3. run' = [run EXCEPT ![r] = x]
    BY <1>3 DEF Close, At
  <2> HIDE DEF x
  <2> QED BY <1>1, <2>2, <2>3, RunMoves DEF BlindInv, Shape
<1>4. CASE run[r].phase = "raised"
  <2>1. run' = [run EXCEPT ![r] = Ended(FALSE)]
    BY <1>4 DEF Close, At
  <2> QED BY <1>1, <2>1, EndedIsOver, RunMoves DEF BlindInv, Shape
<1>5. QED
  BY <1>2, <1>3, <1>4

LEMMA SaveManifestKeeps == ASSUME BlindInv, NEW r \in Runs, SaveManifest(r) PROVE BlindInv'
<1> DEFINE file == [state |-> "whole", of |-> r, book |-> run[r].book]
<1>1. run[r] \in Live /\ run[r].phase = "list" /\ run[r].id \in Ids
  BY LiveRun DEF SaveManifest, At, Live
<1>2. run[r].book \in Books /\ Decided(r, run[r], frozen) /\ run[r].id[1] = run[r].asOf
  <2>1. RunBlind(r, run[r], frozen)
    BY DEF BlindInv, RunsBlind
  <2> QED BY <1>1, <2>1 DEF RunBlind
<1>3. UNCHANGED <<today, eval, features, snapshots, frozen, results>>
  BY DEF SaveManifest, World
<1>4. manifests' = [manifests EXCEPT ![run[r].id] = file]
  BY DEF SaveManifest
<1>5. file \in Manifests /\ file.of = r /\ file.book = run[r].book
  BY <1>2 DEF Manifests
<1> HIDE DEF file
<1>6. manifests' \in [Ids -> {Missing, Torn} \cup Manifests]
  BY <1>4, <1>5 DEF BlindInv, Shape
<1>7. OutcomesFollowDecisions'
  <2>1. ASSUME NEW i \in Ids, manifests'[i].state = "whole"
        PROVE  \E s \in frozen : s.of = manifests'[i].of /\ s.asOf = i[1]
                                    /\ s.book = manifests'[i].book
    <3>1. manifests'[i] = IF i = run[r].id THEN file ELSE manifests[i]
      BY <1>4 DEF BlindInv, Shape
    <3>2. CASE i = run[r].id
      BY <1>2, <1>5, <3>1, <3>2 DEF Decided
    <3>3. CASE i # run[r].id
      BY <2>1, <3>1, <3>3 DEF BlindInv, OutcomesFollowDecisions
    <3> QED BY <3>2, <3>3
  <2> QED BY <1>3, <2>1, Zenon DEF BlindInv, OutcomesFollowDecisions
<1>8. run' = [run EXCEPT ![r] = Ended(FALSE)]
  BY DEF SaveManifest
<1>9. QED
  BY <1>3, <1>6, <1>7, <1>8, EndedIsOver, RunMovesOn DEF BlindInv, Shape

LEMMA DieKeeps == ASSUME BlindInv, NEW r \in Runs, Die(r) PROVE BlindInv'
<1>1. run[r].id \in Ids
  BY LiveRun DEF Die, Live
<1>2. UNCHANGED <<today, eval, snapshots, frozen, results>>
  BY DEF Die, World
<1>3. /\ features' \in [Ids -> {Missing, Torn} \cup Files]
      /\ manifests' \in [Ids -> {Missing, Torn} \cup Manifests]
      /\ OutcomesFollowDecisions'
  BY <1>1, <1>2, TornKeeps DEF Die
<1>4. run' = [run EXCEPT ![r] = Ended(FALSE)]
  BY DEF Die
<1>5. QED
  BY <1>2, <1>3, <1>4, EndedIsOver, RunMovesOn

-----------------------------------------------------------------------------
(* Evaluations, the world, and the specification *)

\* Steps that change neither runs nor files.
LEMMA FilesKeep ==
    ASSUME BlindInv, UNCHANGED <<run, features, snapshots, manifests, frozen>>,
           today' \in FirstDay .. MaxDay,
           eval' \in [Evals -> {[phase |-> "idle"], [phase |-> "ended"]} \cup Loaded],
           LoadedFrozen', OutcomesFollowDecisions'
    PROVE  BlindInv'
<1>1. Shape'
  BY DEF BlindInv, Shape
<1>2. (RunsBlind /\ FrozenBlind /\ FilesFrozen)'
  BY Zenon DEF BlindInv, RunsBlind, FrozenBlind, FilesFrozen
<1>3. QED
  BY <1>1, <1>2 DEF BlindInv

LEMMA LoadKeeps == ASSUME BlindInv, NEW e \in Evals, Load(e) PROVE BlindInv'
<1>1. PICK id \in Ids :
        /\ snapshots[id].state # "missing"
        /\ eval' = [eval EXCEPT ![e] = IF snapshots[id].state = "whole"
                                       THEN [phase |-> "loaded", snap |-> snapshots[id]]
                                       ELSE [phase |-> "ended"]]
  BY DEF Load
<1> DEFINE x == IF snapshots[id].state = "whole"
                THEN [phase |-> "loaded", snap |-> snapshots[id]] ELSE [phase |-> "ended"]
<1>2. snapshots[id].state = "whole" => snapshots[id] \in frozen /\ snapshots[id] \in Snapshots
  BY DEF BlindInv, Shape, FilesFrozen
<1>3. x \in {[phase |-> "ended"]} \cup Loaded
  BY <1>2 DEF Loaded
<1>4. x.phase = "loaded" => x.snap \in frozen
  BY <1>2
<1>5. eval' = [eval EXCEPT ![e] = x]
  BY <1>1
<1> HIDE DEF x
<1>6. UNCHANGED <<today, run, features, snapshots, manifests, frozen, results>>
  BY DEF Load, EvalKept
<1>7. LoadedFrozen'
  BY <1>4, <1>5, <1>6 DEF BlindInv, Shape, LoadedFrozen
<1>8. OutcomesFollowDecisions'
  BY <1>6, Zenon DEF BlindInv, OutcomesFollowDecisions
<1>9. eval' \in [Evals -> {[phase |-> "idle"], [phase |-> "ended"]} \cup Loaded]
  BY <1>3, <1>5 DEF BlindInv, Shape
<1>10. today' \in FirstDay .. MaxDay
  BY <1>6 DEF BlindInv, Shape
<1>11. QED
  BY <1>6, <1>7, <1>8, <1>9, <1>10, FilesKeep

LEMMA EvaluateKeeps == ASSUME BlindInv, NEW e \in Evals, Evaluate(e) PROVE BlindInv'
<1> DEFINE snap == eval[e].snap
           last(through) == IF through < today THEN through ELSE today
           out(through) == Evaluations[<<snap.book, snap.asOf, last(through)>>]
           o(through) == [kind |-> "evaluation", of |-> snap.of, asOf |-> snap.asOf,
                          seen |-> snap.seen, book |-> snap.book, outcome |-> out(through)]
<1>1. snap \in frozen /\ snap \in Snapshots
  BY DEF Evaluate, BlindInv, Shape, LoadedFrozen
<1>2. /\ snap.book \in Books /\ snap.asOf \in Days
      /\ \A d \in snap.seen : d <= snap.asOf
  <2> HIDE DEF snap
  <2> QED BY <1>1 DEF Snapshots, BlindInv, FrozenBlind
<1>3. UNCHANGED <<today, run, features, snapshots, manifests, frozen>>
  BY DEF Evaluate, EvalKept
<1>4. eval' = [eval EXCEPT ![e] = [phase |-> "ended"]]
  BY DEF Evaluate
<1>5. PICK through \in Days : results' \subseteq results \cup {o(through)}
  <2>1. PICK through \in Days :
          results' \in {results, IF out(through) = Unfit THEN results
                                 ELSE results \cup {o(through)}}
    BY DEF Evaluate
  <2> HIDE DEF out, o
  <2> QED BY <2>1
<1>6. /\ o(through).of = snap.of /\ o(through).asOf = snap.asOf
      /\ o(through).seen = snap.seen /\ o(through).book = snap.book
      /\ o(through).outcome = out(through)
  <2> HIDE DEF out, snap
  <2> QED OBVIOUS
<1>7. out(through).entry # None => out(through).entry > snap.asOf
  <2>1. last(through) \in Days
    BY ResearchAssumption DEF BlindInv, Shape, Days
  <2> HIDE DEF snap, last
  <2>2. out(through) = EvaluateSnapshot(snap.book, snap.asOf, last(through))
    BY <1>2, <2>1 DEF Evaluations
  <2>3. LET outcome == EvaluateSnapshot(snap.book, snap.asOf, last(through))
        IN  outcome.entry # None => outcome.entry > snap.asOf
    BY <1>2, <2>1, EvaluationBuysLater
  <2> QED BY <2>2, <2>3
<1> HIDE DEF snap, out, o
<1>8. OutcomesFollowDecisions'
  <2> DEFINE y == o(through)
  <2>1. \E s \in frozen : s.of = y.of /\ s.asOf = y.asOf /\ s.book = y.book
    BY <1>1, <1>6
  <2>2. (\A d \in y.seen : d <= y.asOf) /\ (y.outcome.entry # None => y.outcome.entry > y.asOf)
    BY <1>2, <1>6, <1>7
  <2>3. results' \subseteq results \cup {y}
    BY <1>5
  <2> HIDE DEF y
  <2> QED BY <1>3, <2>1, <2>2, <2>3, OutcomeReported
<1>9. LoadedFrozen'
  BY <1>3, <1>4 DEF BlindInv, Shape, LoadedFrozen
<1>10. eval' \in [Evals -> {[phase |-> "idle"], [phase |-> "ended"]} \cup Loaded]
  BY <1>4 DEF BlindInv, Shape
<1>11. today' \in FirstDay .. MaxDay
  BY <1>3 DEF BlindInv, Shape
<1>12. QED
  BY <1>3, <1>8, <1>9, <1>10, <1>11, FilesKeep

LEMMA NewSessionKeeps == ASSUME BlindInv, NewSession PROVE BlindInv'
<1>1. UNCHANGED <<run, eval, features, snapshots, manifests, frozen, results>>
  BY DEF NewSession, FilesKept
<1>2. today' \in FirstDay .. MaxDay
  BY ResearchAssumption DEF NewSession, BlindInv, Shape
<1>3. (LoadedFrozen /\ OutcomesFollowDecisions)'
  BY <1>1, Zenon DEF BlindInv, LoadedFrozen, OutcomesFollowDecisions
<1>4. QED
  BY <1>1, <1>2, <1>3, FilesKeep DEF BlindInv, Shape

LEMMA BlindNext == BlindInv /\ [Next]_vars => BlindInv'
<1> SUFFICES ASSUME BlindInv, [Next]_vars PROVE BlindInv'
  OBVIOUS
<1>1. CASE UNCHANGED vars
  <2>1. UNCHANGED <<today, run, eval, features, snapshots, manifests, frozen, results>>
    BY <1>1 DEF vars
  <2>2. (LoadedFrozen /\ OutcomesFollowDecisions)'
    BY <2>1, Zenon DEF BlindInv, LoadedFrozen, OutcomesFollowDecisions
  <2> QED BY <2>1, <2>2, FilesKeep DEF BlindInv, Shape
<1>2. ASSUME NEW r \in Runs, Start(r) \/ Step(r) \/ Die(r) PROVE BlindInv'
  BY <1>2, StartKeeps, DieKeeps, ReadVisibleKeeps, SaveFeaturesKeeps, GatherNewsKeeps,
     DecideKeeps, FreezeKeeps, OpenTestWindowKeeps, BacktestedKeeps, RaiseKeeps, CloseKeeps,
     SaveManifestKeeps DEF Step
<1>3. ASSUME NEW e \in Evals, Load(e) \/ Evaluate(e) PROVE BlindInv'
  BY <1>3, LoadKeeps, EvaluateKeeps
<1>4. QED
  BY <1>1, <1>2, <1>3, NewSessionKeeps DEF Next

\* Every variable of the research runs has its type, and a run's model client
\* is open exactly from its construction to the close that every way out of
\* run_research goes through.
THEOREM TypeCorrect == Spec => []TypeOK
<1>1. BlindInv => TypeOK
  BY InvTyped
<1>2. QED
  BY <1>1, BlindInit, BlindNext, PTL DEF Spec

\* Whatever a run or an evaluation reports was decided, frozen on disk, before,
\* by a run that saw no session after its as-of date, and was bought after it:
\* for any number of runs, also of one id, dying anywhere, on growing data.
THEOREM OutcomesFollow == Spec => []OutcomesFollowDecisions
<1>1. BlindInv => OutcomesFollowDecisions
  BY DEF BlindInv
<1>2. QED
  BY <1>1, BlindInit, BlindNext, PTL DEF Spec
=============================================================================
