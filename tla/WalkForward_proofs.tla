-------------------------- MODULE WalkForward_proofs -------------------------
(***************************************************************************)
(* Proofs about a walk, however often it is stopped and resumed while the  *)
(* price data grows, for every calendar whose period keys come in blocks:  *)
(* it keeps the promise Walk states, its checkpointed curve is that of its *)
(* segments, what it publishes only grows, and a published curve has no    *)
(* hole.  That research is paid for once per split needs no such calendar. *)
(***************************************************************************)
EXTENDS WalkForward, Sums, FiniteSetTheorems, WellFoundedInduction, TLAPS

\* Days with one key follow each other without a day of another key between.
\* Calendar months do; (calendar year, ISO week) does within one year.
KeysInBlocks ==
    \A a, b, c \in Days :
        a < b /\ b < c =>
            /\ <<Year[a], Month[a]>> = <<Year[c], Month[c]>> =>
                  <<Year[b], Month[b]>> = <<Year[c], Month[c]>>
            /\ <<Year[a], Week[a]>> = <<Year[c], Week[c]>> =>
                  <<Year[b], Week[b]>> = <<Year[c], Week[c]>>

-----------------------------------------------------------------------------
(* Sets of days *)

\* A nonempty set of days has a least and a greatest element: among the days up
\* to each of its elements, and among those from it on, one set is smallest.
LEMMA SmallestSet ==
    ASSUME NEW S, S # {}, NEW f \in [S -> SUBSET Days]
    PROVE  \E m \in S : \A d \in S : f[d] \subseteq f[m] => f[d] = f[m]
<1> DEFINE R == StrictSubsetOrdering(Days)
<1> DEFINE F == {f[d] : d \in S}
<1>1. IsFiniteSet(Days)
  BY FS_Interval, WalkAssumption DEF Days
<1>2. IsWellFoundedOn(R, FiniteSubsetsOf(Days))
  BY FS_StrictSubsetOrderingWellFounded
<1>3. FiniteSubsetsOf(Days) = SUBSET Days
  BY <1>1, FS_FiniteSubsetsOfFinite
<1>4. F \subseteq SUBSET Days /\ F # {}
  OBVIOUS
<1>5. \A y, x \in SUBSET Days : y \subseteq x /\ y # x => <<y, x>> \in R
  BY DEF StrictSubsetOrdering
<1>6. PICK x \in F : \A y \in F : ~ (<<y, x>> \in R)
  <2> HIDE DEF F, R
  <2> QED BY <1>2, <1>3, <1>4, WFMin, Zenon
<1>7. PICK m \in S : x = f[m]
  OBVIOUS
<1>8. \A d \in S : f[d] \in F /\ f[d] \in SUBSET Days
  OBVIOUS
<1> HIDE DEF F, R
<1>9. QED
  BY <1>5, <1>6, <1>7, <1>8

LEMMA LeastDay ==
    ASSUME NEW S \in SUBSET Days, S # {}
    PROVE  Min(S) \in S /\ \A d \in S : Min(S) <= d
<1> DEFINE f == [d \in S |-> 1 .. d]
<1>1. f \in [S -> SUBSET Days]
  BY WalkAssumption DEF Days
<1>2. PICK m \in S : \A d \in S : f[d] \subseteq f[m] => f[d] = f[m]
  <2> HIDE DEF f
  <2> QED BY <1>1, SmallestSet
<1>3. \A d \in S : m <= d
  <2> SUFFICES ASSUME NEW d \in S, d < m PROVE FALSE
    BY WalkAssumption DEF Days
  <2>1. 1 .. d \subseteq 1 .. m /\ m \in 1 .. m /\ m \notin 1 .. d
    BY WalkAssumption DEF Days
  <2> QED BY <1>2, <2>1
<1>4. QED
  BY <1>3 DEF Min

LEMMA GreatestDay ==
    ASSUME NEW S \in SUBSET Days, S # {}
    PROVE  Max(S) \in S /\ \A d \in S : d <= Max(S)
<1> DEFINE f == [d \in S |-> d .. NumDays]
<1>1. f \in [S -> SUBSET Days]
  BY WalkAssumption DEF Days
<1>2. PICK m \in S : \A d \in S : f[d] \subseteq f[m] => f[d] = f[m]
  <2> HIDE DEF f
  <2> QED BY <1>1, SmallestSet
<1>3. \A d \in S : m >= d
  <2> SUFFICES ASSUME NEW d \in S, m < d PROVE FALSE
    BY WalkAssumption DEF Days
  <2>1. /\ d .. NumDays \subseteq m .. NumDays
        /\ m \in m .. NumDays /\ m \notin d .. NumDays
    BY WalkAssumption DEF Days
  <2> QED BY <1>2, <2>1
<1>4. Max(S) \in S /\ \A d \in S : Max(S) >= d
  BY <1>3 DEF Max
<1>5. Max(S) \in Days /\ \A d \in S : d \in Days
  BY <1>4
<1>6. QED
  BY <1>4, <1>5, WalkAssumption DEF Days

-----------------------------------------------------------------------------
(* The calendar, of any set of sessions *)

InBlocks ==
    \A a, b, c \in Days :
        a < b /\ b < c /\ PeriodKey(a) = PeriodKey(c) => PeriodKey(b) = PeriodKey(c)

\* d is after[delay] for asOf.
EntryIn(s, asOf, d) ==
    /\ d \in s /\ asOf < d
    /\ Cardinality({e \in s : asOf < e /\ e < d}) = DelayBars

\* The split of asOf can trade: its entry is no later than any later decision.
CanTrade(s, asOf) ==
    \E d \in s : EntryIn(s, asOf, d) /\ \A n \in RebalanceDates(s) : asOf < n => d <= n

\* a has the sessions s and later ones.
Extends(s, a) ==
    s \subseteq a /\ a \subseteq Days /\ \A d \in a \ s, e \in s : e < d

LEMMA KeysBlock == ASSUME KeysInBlocks PROVE InBlocks
<1> SUFFICES ASSUME NEW a \in Days, NEW b \in Days, NEW c \in Days,
                    a < b, b < c, PeriodKey(a) = PeriodKey(c)
             PROVE  PeriodKey(b) = PeriodKey(c)
  BY DEF InBlocks
<1>1. CASE config.rebalance = "monthly"
  BY <1>1 DEF KeysInBlocks, PeriodKey
<1>2. CASE config.rebalance # "monthly"
  BY <1>2 DEF KeysInBlocks, PeriodKey
<1>3. QED
  BY <1>1, <1>2

LEMMA EntryUnique ==
    ASSUME NEW s \in SUBSET Days, NEW asOf \in Days, NEW d, NEW e,
           EntryIn(s, asOf, d), EntryIn(s, asOf, e)
    PROVE  d = e
<1> DEFINE Before(x) == {y \in s : asOf < y /\ y < x}
<1>1. \A x \in Days : IsFiniteSet(Before(x))
  <2> TAKE x \in Days
  <2>1. IsFiniteSet(Days)
    BY FS_Interval, WalkAssumption DEF Days
  <2>2. Before(x) \in SUBSET Days
    OBVIOUS
  <2> QED BY <2>1, <2>2, FS_Subset
<1>2. \A x, y \in s : asOf < x /\ x < y => Cardinality(Before(x)) # Cardinality(Before(y))
  <2> SUFFICES ASSUME NEW x \in s, NEW y \in s, asOf < x, x < y
               PROVE  Cardinality(Before(x)) # Cardinality(Before(y))
    OBVIOUS
  <2>1. s \subseteq Int /\ asOf \in Int /\ x \in Int /\ y \in Int
    BY WalkAssumption DEF Days
  <2>2. Before(x) \in SUBSET Before(y)
    <3>1. \A u \in s : u < x => u < y
      BY <2>1
    <3> QED BY <3>1
  <2>3. x \in Before(y) /\ x \notin Before(x)
    BY <2>1
  <2>4. IsFiniteSet(Before(y))
    BY <1>1
  <2> HIDE DEF Before
  <2> QED BY <2>2, <2>3, <2>4, FS_Subset
<1>3. d \in Days /\ e \in Days
  BY DEF EntryIn
<1>4. d < e \/ e < d \/ d = e
  BY <1>3, WalkAssumption DEF Days
<1>5. QED
  BY <1>2, <1>4 DEF EntryIn

\* The calendar operators of the model are those of its sessions.
LEMMA EntryInSessions ==
    ASSUME sessions \subseteq Days, NEW asOf \in Days, NEW d
    PROVE  IsEntry(asOf, d) <=> EntryIn(sessions, asOf, d)
<1>1. d \in After(asOf) <=> d \in sessions /\ asOf < d
  BY WalkAssumption DEF After, Days
<1>2. {e \in After(asOf) : e < d} = {e \in sessions : asOf < e /\ e < d}
  BY WalkAssumption DEF After, Days
<1>3. QED
  BY <1>1, <1>2 DEF IsEntry, EntryIn

LEMMA ExitIsNext ==
    ASSUME sessions \subseteq Days, NEW asOf \in Days
    PROVE  /\ ExitDate(asOf) \in Days
           /\ \A n \in RebalanceDates(sessions) : asOf < n => ExitDate(asOf) <= n
           /\ \A d \in Days : (\A n \in RebalanceDates(sessions) : asOf < n => d <= n)
                                  => d <= ExitDate(asOf)
<1> DEFINE next == {d \in RebalanceDates(sessions) : d > asOf}
<1>1. next \subseteq Days /\ \A n \in RebalanceDates(sessions) : n \in Days
  BY DEF RebalanceDates
<1>2. \A n \in RebalanceDates(sessions) : asOf < n => n \in next
  BY <1>1, WalkAssumption DEF Days
<1>3. CASE next = {}
  <2>1. ExitDate(asOf) = NumDays
    BY <1>3 DEF ExitDate
  <2> QED BY <2>1, <1>2, <1>3, WalkAssumption DEF Days
<1>4. CASE next # {}
  <2>1. ExitDate(asOf) = Min(next)
    BY <1>4 DEF ExitDate
  <2>2. Min(next) \in next /\ \A n \in next : Min(next) <= n
    BY <1>1, <1>4, LeastDay
  <2> HIDE DEF next
  <2>3. Min(next) \in Days /\ Min(next) \in RebalanceDates(sessions) /\ asOf < Min(next)
    BY <2>2, <1>1, WalkAssumption DEF Days, next
  <2> QED BY <2>1, <2>2, <2>3, <1>2
<1>5. QED
  BY <1>3, <1>4

LEMMA TradableInSessions ==
    ASSUME sessions \subseteq Days, NEW asOf \in Days
    PROVE  Tradable(asOf) <=> CanTrade(sessions, asOf)
<1>1. \A n \in RebalanceDates(sessions) : n \in Days
  BY DEF RebalanceDates
<1>2. \A d \in sessions : d <= ExitDate(asOf) <=>
          \A n \in RebalanceDates(sessions) : asOf < n => d <= n
  <2> TAKE d \in sessions
  <2>1. d \in Days /\ ExitDate(asOf) \in Days
    BY ExitIsNext
  <2>2. \A n \in RebalanceDates(sessions) : asOf < n => ExitDate(asOf) <= n
    BY ExitIsNext
  <2>3. d <= ExitDate(asOf) => \A n \in RebalanceDates(sessions) : asOf < n => d <= n
    BY <1>1, <2>1, <2>2, WalkAssumption DEF Days
  <2> QED BY <2>1, <2>3, ExitIsNext
<1>3. \A d \in sessions : IsEntry(asOf, d) <=> EntryIn(sessions, asOf, d)
  BY EntryInSessions
<1>4. QED
  BY <1>2, <1>3 DEF Tradable, CanTrade

\* What a split that can trade looks like.
LEMMA SegmentShape ==
    ASSUME sessions \subseteq Days, NEW asOf \in Days, Tradable(asOf)
    PROVE  /\ EntryOf(asOf) \in sessions
           /\ asOf < EntryOf(asOf)
           /\ Max(Segment(asOf)) \in sessions
           /\ EntryOf(asOf) <= Max(Segment(asOf))
           /\ \A n \in RebalanceDates(sessions) : asOf < n => Max(Segment(asOf)) <= n
<1>1. PICK d \in sessions : IsEntry(asOf, d) /\ d <= ExitDate(asOf)
  BY DEF Tradable
<1>2. EntryOf(asOf) \in sessions /\ IsEntry(asOf, EntryOf(asOf))
  BY <1>1 DEF EntryOf
<1>3. EntryOf(asOf) = d
  <2>1. EntryIn(sessions, asOf, d) /\ EntryIn(sessions, asOf, EntryOf(asOf))
    BY <1>1, <1>2, EntryInSessions
  <2> QED BY <2>1, EntryUnique
<1>4. asOf < d
  BY <1>1, EntryInSessions DEF EntryIn
<1>5. d \in Segment(asOf) /\ Segment(asOf) \subseteq Days
  <2>1. d \in Days /\ d <= d
    BY WalkAssumption DEF Days
  <2>2. EntryOf(asOf) <= d /\ d <= ExitDate(asOf)
    BY <1>1, <1>3, <2>1
  <2> QED BY <2>2 DEF Segment
<1>6. Max(Segment(asOf)) \in Segment(asOf) /\ d <= Max(Segment(asOf))
  BY <1>5, GreatestDay
<1>7. Max(Segment(asOf)) \in sessions /\ Max(Segment(asOf)) <= ExitDate(asOf)
  BY <1>6 DEF Segment
<1>8. \A n \in RebalanceDates(sessions) : asOf < n => Max(Segment(asOf)) <= n
  <2> SUFFICES ASSUME NEW n \in RebalanceDates(sessions), asOf < n
               PROVE  Max(Segment(asOf)) <= n
    OBVIOUS
  <2>1. n \in Days /\ Max(Segment(asOf)) \in Days /\ ExitDate(asOf) \in Days
    BY <1>7, ExitIsNext DEF RebalanceDates
  <2>2. ExitDate(asOf) <= n
    BY ExitIsNext
  <2> QED BY <1>7, <2>1, <2>2, WalkAssumption DEF Days
<1>9. QED
  BY <1>3, <1>4, <1>6, <1>7, <1>8

-----------------------------------------------------------------------------
(* A checkpoint and the sessions it was made from *)

DoneIn(b, d) == \E k \in DOMAIN b : b[k].asOf = d

\* The last split's segment ends before later decisions; earlier decisions are
\* done or cannot trade.
Frontier(b, s) ==
    b # <<>> =>
        /\ b[Len(b)].asOf \in RebalanceDates(s)
        /\ b[Len(b)].exit \in s
        /\ b[Len(b)].asOf < b[Len(b)].exit
        /\ \A d \in RebalanceDates(s) : b[Len(b)].asOf < d => b[Len(b)].exit <= d
        /\ \A d \in RebalanceDates(s) :
              d < b[Len(b)].asOf => DoneIn(b, d) \/ ~CanTrade(s, d)

\* Later sessions take no decision away that has one of the sessions after it.
LEMMA DecisionsStay ==
    ASSUME InBlocks, NEW s, NEW a, Extends(s, a),
           NEW d \in RebalanceDates(s), NEW e \in s, d < e
    PROVE  d \in RebalanceDates(a)
<1>1. d \in s /\ d \in a /\ d \in Days /\ e \in Days /\ s \subseteq Days /\ a \subseteq Days
  BY DEF RebalanceDates, Extends
<1>2. SUFFICES ASSUME NEW x \in a, PeriodKey(x) = PeriodKey(d)
               PROVE  x <= d
  BY <1>1 DEF RebalanceDates
<1>3. CASE x \in s
  BY <1>2, <1>3 DEF RebalanceDates
<1>4. CASE x \notin s
  <2>1. e < x
    BY <1>4 DEF Extends
  <2>2. PeriodKey(e) = PeriodKey(x)
    BY <1>1, <1>2, <2>1, Zenon DEF InBlocks
  <2>3. e <= d
    BY <1>2, <2>2 DEF RebalanceDates
  <2> QED BY <1>1, <2>3, WalkAssumption DEF Days
<1>5. QED
  BY <1>3, <1>4

\* Nor do they add one among the sessions there were.
LEMMA DecisionsWere ==
    ASSUME NEW s, NEW a, Extends(s, a), NEW d \in RebalanceDates(a), d \in s
    PROVE  d \in RebalanceDates(s)
  BY DEF RebalanceDates, Extends

\* A split before a session-bounded later decision can trade after the growth
\* only if it could before.
LEMMA TradableBefore ==
    ASSUME InBlocks, NEW s, NEW a, Extends(s, a),
           NEW m \in RebalanceDates(s), NEW x \in s, m < x,
           NEW d \in RebalanceDates(a), d < m, CanTrade(a, d)
    PROVE  d \in RebalanceDates(s) /\ CanTrade(s, d)
<1>1. /\ s \subseteq Days /\ a \subseteq Days /\ s \subseteq a
      /\ m \in s /\ m \in Days /\ x \in Days /\ d \in a /\ d \in Days
  BY DEF RebalanceDates, Extends
<1>2. \A y \in a : y <= m => y \in s
  <2> SUFFICES ASSUME NEW y \in a, y <= m, y \notin s PROVE FALSE
    OBVIOUS
  <2>1. m < y /\ y \in Days
    BY <1>1 DEF Extends
  <2> QED BY <1>1, <2>1, WalkAssumption DEF Days
<1>3. d \in s
  BY <1>1, <1>2, WalkAssumption DEF Days
<1>4. m \in RebalanceDates(a)
  BY DecisionsStay
<1>5. PICK y \in a : EntryIn(a, d, y) /\ \A n \in RebalanceDates(a) : d < n => y <= n
  BY DEF CanTrade
<1>6. y <= m /\ y \in s /\ y \in Days
  BY <1>1, <1>2, <1>4, <1>5
<1>7. {e \in a : d < e /\ e < y} = {e \in s : d < e /\ e < y}
  <2>1. \A e \in a : e < y => e <= m
    BY <1>1, <1>6, WalkAssumption DEF Days
  <2> QED BY <1>1, <1>2, <2>1
<1>8. EntryIn(s, d, y)
  BY <1>5, <1>6, <1>7 DEF EntryIn
<1>9. \A n \in RebalanceDates(s) : d < n => y <= n
  <2> SUFFICES ASSUME NEW n \in RebalanceDates(s), d < n PROVE y <= n
    OBVIOUS
  <2>1. n \in Days
    BY <1>1 DEF RebalanceDates
  <2>2. CASE m <= n
    BY <1>1, <1>6, <2>1, <2>2, WalkAssumption DEF Days
  <2>3. CASE n < m
    <3>1. n \in RebalanceDates(a)
      BY <1>1, <2>3, DecisionsStay
    <3> QED BY <1>5, <3>1
  <2> QED BY <1>1, <2>1, <2>2, <2>3, WalkAssumption DEF Days
<1>10. QED
  BY <1>3, <1>6, <1>8, <1>9, DecisionsWere DEF CanTrade

LEMMA FrontierGrows ==
    ASSUME InBlocks, NEW s, NEW a, Extends(s, a), NEW b, Frontier(b, s)
    PROVE  Frontier(b, a)
<1> SUFFICES ASSUME b # <<>> PROVE Frontier(b, a)
  BY DEF Frontier
<1> DEFINE l == b[Len(b)]
<1>1. /\ l.asOf \in RebalanceDates(s) /\ l.exit \in s /\ l.asOf < l.exit
      /\ \A d \in RebalanceDates(s) : l.asOf < d => l.exit <= d
      /\ \A d \in RebalanceDates(s) : d < l.asOf => DoneIn(b, d) \/ ~CanTrade(s, d)
  BY DEF Frontier
<1> HIDE DEF l
<1>2. l.asOf \in RebalanceDates(a)
  BY <1>1, DecisionsStay
<1>3. l.exit \in a
  BY <1>1 DEF Extends
<1>4. \A d \in RebalanceDates(a) : l.asOf < d => l.exit <= d
  <2> SUFFICES ASSUME NEW d \in RebalanceDates(a), l.asOf < d PROVE l.exit <= d
    OBVIOUS
  <2>1. CASE d \in s
    BY <1>1, <2>1, DecisionsWere
  <2>2. CASE d \notin s
    <3>1. d \in a /\ l.exit < d /\ d \in Days /\ l.exit \in Days
      BY <1>1, <1>3, <2>2 DEF RebalanceDates, Extends
    <3> QED BY <3>1, WalkAssumption DEF Days
  <2> QED BY <2>1, <2>2
<1>5. \A d \in RebalanceDates(a) : d < l.asOf => DoneIn(b, d) \/ ~CanTrade(a, d)
  <2> SUFFICES ASSUME NEW d \in RebalanceDates(a), d < l.asOf, CanTrade(a, d)
               PROVE  DoneIn(b, d)
    OBVIOUS
  <2>1. d \in RebalanceDates(s) /\ CanTrade(s, d)
    BY <1>1, TradableBefore
  <2> QED BY <1>1, <2>1
<1>6. QED
  BY <1>1, <1>2, <1>3, <1>4, <1>5 DEF Frontier, l

-----------------------------------------------------------------------------
(* The invariant *)

Kinds ==
    /\ config \in Configs
    /\ pc \in {"down", "walk", "trade"}
    /\ available \subseteq Days
    /\ file.splits \in Seq(Split)
    /\ paid \in [Days -> Nat]

\* The checkpoint's holdings are those of its last split.
HoldingsOfBook ==
    file.holdings = IF file.splits = <<>> THEN Cash ELSE file.splits[Len(file.splits)].to

\* A process has read some of the sessions and the whole checkpoint; every
\* decision it has passed is done or cannot trade.
Walking ==
    /\ state = file
    /\ Extends(sessions, available)
    /\ Frontier(file.splits, sessions)
    /\ todo \subseteq RebalanceDates(sessions)
    /\ \A d \in RebalanceDates(sessions) \ todo :
          /\ DoneIn(file.splits, d) \/ ~CanTrade(sessions, d)
          /\ \A e \in todo : d < e

\* Research has returned a snapshot of the next decision, which can trade.
Trading ==
    /\ snapshot \in Snapshot
    /\ snapshot.asOf \in todo /\ \A e \in todo : snapshot.asOf <= e
    /\ ~DoneIn(file.splits, snapshot.asOf)
    /\ Tradable(snapshot.asOf)

WalkInv ==
    /\ Kinds
    /\ HoldingsOfBook
    /\ pc = "down" => Frontier(file.splits, available)
    /\ pc # "down" => Walking
    /\ pc = "trade" => Trading

LEMMA ExtendsItself == \A s \in SUBSET Days : Extends(s, s)
  BY DEF Extends

LEMMA WalkInit == Init => WalkInv
<1> SUFFICES ASSUME Init PROVE WalkInv
  OBVIOUS
<1>1. Kinds
  <2>1. file.splits = <<>>
    BY DEF Init, NoState
  <2> QED BY <2>1, WalkAssumption DEF Init, Kinds
<1>2. HoldingsOfBook /\ Frontier(file.splits, available) /\ pc = "down"
  BY DEF Init, NoState, HoldingsOfBook, Frontier
<1>3. QED
  BY <1>1, <1>2 DEF WalkInv

\* The checkpoint's frontier, whether or not a process is up.
LEMMA FrontierAvailable ==
    ASSUME InBlocks, WalkInv
    PROVE  Frontier(file.splits, available)
<1>1. CASE pc = "down"
  BY <1>1 DEF WalkInv
<1>2. CASE pc # "down"
  BY <1>2, FrontierGrows DEF WalkInv, Walking
<1>3. QED
  BY <1>1, <1>2

\* Steps that leave the calendar as it is.
LEMMA SameCalendar ==
    ASSUME config' = config, sessions' = sessions
    PROVE  /\ RebalanceDates(sessions)' = RebalanceDates(sessions)
           /\ \A d : CanTrade(sessions, d)' <=> CanTrade(sessions, d)
           /\ \A d : Tradable(d)' <=> Tradable(d)
           /\ \A b : Frontier(b, sessions)' <=> Frontier(b, sessions)
<1>1. RebalanceDates(sessions)' = RebalanceDates(sessions)
  BY DEF RebalanceDates, PeriodKey
<1>2. DelayBars' = DelayBars
  BY DEF DelayBars
<1>3. \A d : CanTrade(sessions, d)' <=> CanTrade(sessions, d)
  BY <1>1, <1>2 DEF CanTrade, EntryIn
<1>4. \A d : Tradable(d)' <=> Tradable(d)
  BY <1>1, <1>2 DEF Tradable, IsEntry, After, ExitDate
<1>5. \A b : Frontier(b, sessions)' <=> Frontier(b, sessions)
  BY <1>1, <1>3 DEF Frontier, DoneIn
<1>6. QED
  BY <1>1, <1>3, <1>4, <1>5

\* The rules of the calendar follow from the configuration alone.
LEMMA SameRules ==
    ASSUME config' = config, NEW b, NEW s, Frontier(b, s), b = file.splits', s = available'
    PROVE  Frontier(file.splits, available)'
<1>1. \A d : PeriodKey(d)' = PeriodKey(d)
  BY DEF PeriodKey
<1>2. RebalanceDates(available)' = RebalanceDates(s)
  BY <1>1 DEF RebalanceDates
<1>3. DelayBars' = DelayBars
  BY DEF DelayBars
<1>4. \A d : CanTrade(available, d)' <=> CanTrade(s, d)
  BY <1>2, <1>3 DEF CanTrade, EntryIn
<1>5. QED
  BY <1>2, <1>4 DEF Frontier, DoneIn

\* The process is gone: the checkpoint is what it was, the data what it is.
LEMMA Leaves ==
    ASSUME InBlocks, WalkInv, Exit, UNCHANGED <<config, file, available, paid>>
    PROVE  WalkInv'
<1>1. Kinds'
  BY DEF WalkInv, Kinds, Exit
<1>2. HoldingsOfBook'
  BY DEF WalkInv, HoldingsOfBook
<1>3. Frontier(file.splits, available)'
  BY FrontierAvailable, SameRules
<1>4. pc' = "down"
  BY DEF Exit
<1>5. QED
  BY <1>1, <1>2, <1>3, <1>4 DEF WalkInv

LEMMA Starts ==
    ASSUME WalkInv, Start
    PROVE  WalkInv'
<1>1. /\ pc = "down" /\ pc' = "walk" /\ sessions' = available /\ available' = available
      /\ todo' = RebalanceDates(available) /\ state' = file /\ file' = file
      /\ config' = config /\ paid' = paid
  BY DEF Start, Load
<1>2. Kinds'
  BY <1>1 DEF WalkInv, Kinds
<1>3. HoldingsOfBook'
  BY <1>1 DEF WalkInv, HoldingsOfBook
<1>4. Frontier(file.splits, available)'
  BY <1>1, SameRules DEF WalkInv
<1>5. Frontier(file.splits, sessions)'
  <2>1. sessions' = available'
    BY <1>1
  <2>2. RebalanceDates(sessions)' = RebalanceDates(available)'
    BY <2>1 DEF RebalanceDates
  <2>3. \A d : CanTrade(sessions, d)' <=> CanTrade(available, d)'
    BY <2>1, <2>2 DEF CanTrade, EntryIn
  <2> QED BY <1>4, <2>1, <2>2, <2>3 DEF Frontier
<1>6. Extends(sessions, available)'
  BY <1>1 DEF WalkInv, Kinds, Extends
<1>7. todo' = RebalanceDates(sessions)'
  BY <1>1 DEF RebalanceDates, PeriodKey
<1>8. Walking'
  BY <1>1, <1>5, <1>6, <1>7 DEF Walking
<1>9. QED
  BY <1>1, <1>2, <1>3, <1>8 DEF WalkInv

LEMMA Skips ==
    ASSUME WalkInv, NEW d \in Days, Skip(d)
    PROVE  WalkInv'
<1>1. /\ pc = "walk" /\ d \in todo /\ \A e \in todo : d <= e
      /\ Done(d) \/ ~Tradable(d)
      /\ todo' = todo \ {d}
      /\ UNCHANGED <<config, pc, sessions, state, file, available, paid>>
  BY DEF Skip, Visits
<1>2. Walking /\ Kinds /\ HoldingsOfBook
  BY <1>1 DEF WalkInv
<1>3. sessions \subseteq Days /\ todo \subseteq Days
  BY <1>2 DEF Walking, Extends, RebalanceDates
<1>4. DoneIn(file.splits, d) \/ ~CanTrade(sessions, d)
  BY <1>1, <1>2, <1>3, TradableInSessions DEF Done, DoneIn, Walking
<1>5. \A e \in todo' : d < e
  BY <1>1, <1>3, WalkAssumption DEF Days
<1>6. Kinds' /\ HoldingsOfBook'
  BY <1>1, <1>2 DEF Kinds, HoldingsOfBook
<1>7. Walking'
  <2>1. Extends(sessions, available)'
    BY <1>1, <1>2 DEF Walking, Extends
  <2>2. \A e \in RebalanceDates(sessions) \ todo' :
           /\ DoneIn(file.splits, e) \/ ~CanTrade(sessions, e)
           /\ \A x \in todo' : e < x
    BY <1>1, <1>2, <1>4, <1>5 DEF Walking
  <2>3. (state = file)' /\ todo' \subseteq RebalanceDates(sessions)
    BY <1>1, <1>2 DEF Walking
  <2>4. Frontier(file.splits, sessions)'
    BY <1>1, <1>2, SameCalendar DEF Walking
  <2> QED BY <1>1, <2>1, <2>2, <2>3, <2>4, SameCalendar DEF Walking, DoneIn
<1>8. QED
  BY <1>1, <1>6, <1>7 DEF WalkInv

LEMMA Researches ==
    ASSUME WalkInv, NEW d \in Days, Research(d)
    PROVE  WalkInv'
<1>1. /\ pc = "walk" /\ d \in todo /\ \A e \in todo : d <= e
      /\ ~Done(d) /\ Tradable(d)
      /\ paid' = [paid EXCEPT ![d] = @ + 1]
      /\ snapshot' = [asOf |-> d, run |-> paid[d] + 1]
      /\ pc' = "trade"
      /\ UNCHANGED <<config, sessions, todo, state, file, available>>
  BY DEF Research, Visits
<1>2. Walking /\ Kinds /\ HoldingsOfBook
  BY <1>1 DEF WalkInv
<1>3. Kinds' /\ HoldingsOfBook'
  BY <1>1, <1>2 DEF Kinds, HoldingsOfBook
<1>4. Walking'
  <2>1. Frontier(file.splits, sessions)'
    BY <1>1, <1>2, SameCalendar DEF Walking
  <2> QED BY <1>1, <1>2, <2>1, SameCalendar DEF Walking, Extends, DoneIn
<1>5. Trading'
  <2>1. snapshot' \in Snapshot /\ snapshot.asOf' = d
    BY <1>1, <1>2 DEF Snapshot, Kinds
  <2>2. Tradable(d)'
    BY <1>1, SameCalendar
  <2>3. ~DoneIn(file.splits, d)'
    BY <1>1, <1>2 DEF Done, DoneIn, Walking
  <2>4. Tradable(snapshot.asOf)'
    BY <2>1, <2>2 DEF Tradable, IsEntry, After, ExitDate
  <2>5. ~DoneIn(file.splits, snapshot.asOf)'
    BY <2>1, <2>3 DEF DoneIn
  <2> QED BY <1>1, <2>1, <2>4, <2>5 DEF Trading
<1>6. QED
  BY <1>1, <1>3, <1>4, <1>5 DEF WalkInv

\* The data grows: below a process, or under a checkpoint nobody works on.
LEMMA Grows ==
    ASSUME InBlocks, WalkInv, Grow
    PROVE  WalkInv'
<1>1. PICK d \in Days : (\A e \in available : e < d) /\ available' = available \cup {d}
  BY DEF Grow
<1>2. UNCHANGED <<config, pc, sessions, todo, snapshot, state, file, paid>>
  BY DEF Grow, memVars
<1>3. Kinds /\ HoldingsOfBook
  BY DEF WalkInv
<1>4. Kinds' /\ HoldingsOfBook'
  BY <1>1, <1>2, <1>3 DEF Kinds, HoldingsOfBook
<1>5. Extends(available, available')
  BY <1>1, <1>3 DEF Extends, Kinds
<1>6. Frontier(file.splits, available)'
  <2>1. Frontier(file.splits, available')
    BY <1>5, FrontierAvailable, FrontierGrows
  <2> QED BY <1>2, <2>1, SameRules
<1>7. pc # "down" => Walking'
  <2> SUFFICES ASSUME pc # "down" PROVE Walking'
    OBVIOUS
  <2>1. Walking
    BY DEF WalkInv
  <2>2. Extends(sessions, available)'
    <3>1. \A e \in sessions : e \in available
      BY <2>1 DEF Walking, Extends
    <3> QED BY <1>1, <1>2, <2>1, <3>1 DEF Walking, Extends
  <2>3. Frontier(file.splits, sessions)'
    BY <1>2, <2>1, SameCalendar DEF Walking
  <2> QED BY <1>2, <2>1, <2>2, <2>3, SameCalendar DEF Walking, DoneIn
<1>8. pc = "trade" => Trading'
  <2>1. Tradable(snapshot.asOf)' <=> Tradable(snapshot.asOf)
    BY <1>2 DEF Tradable, IsEntry, After, ExitDate, RebalanceDates, PeriodKey, DelayBars
  <2> QED BY <1>2, <2>1 DEF WalkInv, Trading, DoneIn
<1>9. QED
  BY <1>2, <1>4, <1>6, <1>7, <1>8 DEF WalkInv

\* The split of a completed decision, and why it follows the ones before it.
NewSplit(d) ==
    [asOf |-> d, entry |-> EntryOf(d), exit |-> Max(Segment(d)),
     from |-> state.holdings, to |-> snapshot]

LEMMA NewSplitFollows ==
    ASSUME WalkInv, NEW d \in Days, Complete(d)
    PROVE  /\ NewSplit(d) \in Split
           /\ NewSplit(d).asOf < NewSplit(d).entry
           /\ NewSplit(d).entry <= NewSplit(d).exit
           /\ NewSplit(d).exit \in sessions
           /\ \A n \in RebalanceDates(sessions) : d < n => NewSplit(d).exit <= n
           /\ Promise!Follows(NewSplit(d))
<1>1. /\ Walking /\ Trading /\ Kinds /\ HoldingsOfBook /\ d = snapshot.asOf
      /\ state = file /\ sessions \subseteq Days
  BY DEF WalkInv, Complete, Walking, Extends
<1>2. /\ d \in todo /\ \A e \in todo : d <= e
      /\ ~DoneIn(file.splits, d) /\ Tradable(d) /\ snapshot \in Snapshot
  BY <1>1 DEF Trading
<1>3. d \in RebalanceDates(sessions) /\ CanTrade(sessions, d)
  BY <1>1, <1>2, TradableInSessions DEF Walking
<1>4. /\ EntryOf(d) \in sessions /\ d < EntryOf(d)
      /\ Max(Segment(d)) \in sessions /\ EntryOf(d) <= Max(Segment(d))
      /\ \A n \in RebalanceDates(sessions) : d < n => Max(Segment(d)) <= n
  BY <1>1, <1>2, SegmentShape
<1>5. file.holdings \in Holding
  <2>1. CASE file.splits = <<>>
    BY <1>1, <2>1 DEF HoldingsOfBook, Holding
  <2>2. CASE file.splits # <<>>
    <3>1. file.splits[Len(file.splits)] \in Split
      BY <1>1, <2>2 DEF Kinds
    <3> QED BY <1>1, <2>2, <3>1 DEF HoldingsOfBook, Holding, Split
  <2> QED BY <2>1, <2>2
<1>6. NewSplit(d) \in Split
  BY <1>1, <1>2, <1>4, <1>5 DEF NewSplit, Split
<1>7. Promise!Follows(NewSplit(d))
  <2>1. CASE file.splits = <<>>
    BY <1>1, <2>1 DEF Promise!Follows, NewSplit, HoldingsOfBook
  <2>2. CASE file.splits # <<>>
    <3> DEFINE l == file.splits[Len(file.splits)]
    <3>1. l \in Split /\ Len(file.splits) \in DOMAIN file.splits
      BY <1>1, <2>2 DEF Kinds
    <3>2. /\ l.asOf \in RebalanceDates(sessions)
          /\ \A n \in RebalanceDates(sessions) : l.asOf < n => l.exit <= n
          /\ \A n \in RebalanceDates(sessions) :
                n < l.asOf => DoneIn(file.splits, n) \/ ~CanTrade(sessions, n)
      BY <1>1, <2>2 DEF Walking, Frontier
    <3>3. DoneIn(file.splits, l.asOf)
      BY <3>1 DEF DoneIn
    <3> HIDE DEF l
    <3>4. l.asOf \in Days /\ l.exit \in Days /\ EntryOf(d) \in Days
      BY <1>1, <1>4, <3>1 DEF Split
    <3>5. l.asOf < d
      BY <1>2, <1>3, <3>2, <3>3, <3>4, WalkAssumption DEF Days
    <3>6. l.exit < EntryOf(d)
      BY <1>3, <1>4, <3>2, <3>4, <3>5, WalkAssumption DEF Days
    <3>7. state.holdings = l.to
      BY <1>1, <2>2 DEF HoldingsOfBook, l
    <3> QED BY <2>2, <3>5, <3>6, <3>7 DEF Promise!Follows, Promise!Latest, NewSplit, l
  <2> QED BY <2>1, <2>2
<1>8. QED
  BY <1>4, <1>6, <1>7 DEF NewSplit

LEMMA BookGrows ==
    ASSUME WalkInv, NEW d \in Days, Complete(d)
    PROVE  /\ file'.splits = Append(file.splits, NewSplit(d))
           /\ file'.holdings = snapshot
           /\ file'.splits \in Seq(Split) /\ file'.splits # <<>>
           /\ file'.splits[Len(file'.splits)] = NewSplit(d)
           /\ \A e : DoneIn(file'.splits, e) <=> DoneIn(file.splits, e) \/ e = d
<1>1. state = file /\ file.splits \in Seq(Split) /\ NewSplit(d) \in Split
  BY NewSplitFollows DEF WalkInv, Walking, Kinds, Complete
<1>2. file'.splits = Append(file.splits, NewSplit(d)) /\ file'.holdings = snapshot
  BY <1>1 DEF Complete, Book, NewSplit
<1>3. /\ file'.splits \in Seq(Split) /\ file'.splits # <<>>
      /\ file'.splits[Len(file'.splits)] = NewSplit(d)
  BY <1>1, <1>2
<1>4. \A e : DoneIn(file'.splits, e) <=> DoneIn(file.splits, e) \/ e = d
  <2> DEFINE n == Len(file.splits) + 1
  <2>1. /\ DOMAIN file'.splits = DOMAIN file.splits \cup {n}
        /\ \A k \in DOMAIN file.splits : file'.splits[k] = file.splits[k]
        /\ file'.splits[n] = NewSplit(d)
    BY <1>1, <1>2
  <2>2. NewSplit(d).asOf = d
    BY DEF NewSplit
  <2> HIDE DEF n
  <2> QED BY <2>1, <2>2 DEF DoneIn
<1>5. QED
  BY <1>2, <1>3, <1>4

LEMMA Completes ==
    ASSUME WalkInv, NEW d \in Days, Complete(d)
    PROVE  WalkInv'
<1>1. /\ pc = "trade" /\ d = snapshot.asOf /\ file' = state' /\ todo' = todo \ {d}
      /\ pc' = "walk"
      /\ UNCHANGED <<config, sessions, available, paid>>
  BY DEF Complete
<1>2. Walking /\ Trading /\ Kinds /\ sessions \subseteq Days /\ todo \subseteq Days
  BY <1>1 DEF WalkInv, Walking, Extends, RebalanceDates
<1>3. d \in todo /\ (\A e \in todo : d <= e) /\ d \in RebalanceDates(sessions)
  BY <1>1, <1>2 DEF Trading, Walking
<1>4. Kinds'
  BY <1>1, <1>2, BookGrows DEF Kinds
<1>5. HoldingsOfBook'
  <2>1. NewSplit(d).to = snapshot
    BY DEF NewSplit
  <2> QED BY <2>1, BookGrows DEF HoldingsOfBook
<1>6. \A e \in RebalanceDates(sessions) \ todo :
         DoneIn(file.splits, e) \/ ~CanTrade(sessions, e)
  BY <1>2 DEF Walking
<1>7. Frontier(file'.splits, sessions)
  <2> DEFINE l == NewSplit(d)
  <2>1. l.asOf = d /\ l.entry = EntryOf(d) /\ d \in Days
    BY DEF NewSplit
  <2>2. /\ l.exit \in sessions /\ l.asOf < l.entry /\ l.entry <= l.exit /\ l \in Split
        /\ \A n \in RebalanceDates(sessions) : d < n => l.exit <= n
    BY NewSplitFollows
  <2>3. l.asOf < l.exit
    BY <2>2, WalkAssumption DEF Split, Days
  <2>4. \A n \in RebalanceDates(sessions) :
           n < d => DoneIn(file'.splits, n) \/ ~CanTrade(sessions, n)
    <3> SUFFICES ASSUME NEW n \in RebalanceDates(sessions), n < d
                 PROVE  DoneIn(file'.splits, n) \/ ~CanTrade(sessions, n)
      OBVIOUS
    <3>1. n \notin todo
      BY <1>2, <1>3, WalkAssumption DEF RebalanceDates, Days
    <3> QED BY <1>6, <3>1, BookGrows
  <2> HIDE DEF l
  <2>5. file'.splits[Len(file'.splits)] = l
    BY BookGrows DEF l
  <2> QED BY <1>3, <2>1, <2>2, <2>3, <2>4, <2>5 DEF Frontier
<1>8. Walking'
  <2>1. Frontier(file.splits, sessions)'
    BY <1>1, <1>7, SameCalendar
  <2>2. todo' \subseteq RebalanceDates(sessions)
    BY <1>1, <1>2 DEF Walking
  <2>3. \A e \in RebalanceDates(sessions) \ todo' :
           DoneIn(file'.splits, e) \/ ~CanTrade(sessions, e)
    BY <1>1, <1>6, BookGrows
  <2>4. \A e \in RebalanceDates(sessions) \ todo', x \in todo' : e < x
    <3> TAKE e \in RebalanceDates(sessions) \ todo', x \in todo'
    <3>1. CASE e \in todo
      BY <1>1, <1>2, <1>3, <3>1, WalkAssumption DEF Days
    <3>2. CASE e \notin todo
      BY <1>1, <1>2, <3>2 DEF Walking
    <3> QED BY <3>1, <3>2
  <2>5. Extends(sessions, available)' /\ (state = file)'
    BY <1>1, <1>2 DEF Walking, Extends
  <2> QED BY <1>1, <2>1, <2>2, <2>3, <2>4, <2>5, SameCalendar DEF Walking, DoneIn
<1>9. QED
  BY <1>1, <1>4, <1>5, <1>8 DEF WalkInv

LEMMA WalkStep ==
    ASSUME InBlocks, WalkInv, [Next]_vars
    PROVE  WalkInv'
<1>1. CASE Start
  BY <1>1, Starts
<1>2. ASSUME NEW d \in Days, Skip(d) PROVE WalkInv'
  BY <1>2, Skips
<1>3. ASSUME NEW d \in Days, Research(d) PROVE WalkInv'
  BY <1>3, Researches
<1>4. ASSUME NEW d \in Days, Complete(d) PROVE WalkInv'
  BY <1>4, Completes
<1>5. CASE Publish \/ Stop
  BY <1>5, Leaves DEF Publish, Stop
<1>6. CASE Grow
  BY <1>6, Grows
<1>7. CASE UNCHANGED vars
  <2>1. UNCHANGED <<config, pc, sessions, todo, snapshot, state, file, available, paid>>
    BY <1>7 DEF vars, memVars
  <2>2. Kinds' /\ HoldingsOfBook'
    BY <2>1 DEF WalkInv, Kinds, HoldingsOfBook
  <2>3. pc = "down" => Frontier(file.splits, available)'
    BY <2>1, SameRules DEF WalkInv
  <2>4. pc # "down" => Walking'
    <3>1. pc # "down" => Frontier(file.splits, sessions)'
      BY <2>1, SameCalendar DEF WalkInv, Walking
    <3> QED BY <2>1, <3>1, SameCalendar DEF WalkInv, Walking, Extends, DoneIn
  <2>5. pc = "trade" => Trading'
    <3>1. Tradable(snapshot.asOf)' <=> Tradable(snapshot.asOf)
      BY <2>1 DEF Tradable, IsEntry, After, ExitDate, RebalanceDates, PeriodKey, DelayBars
    <3> QED BY <2>1, <3>1 DEF WalkInv, Trading, DoneIn
  <2> QED BY <2>1, <2>2, <2>3, <2>4, <2>5 DEF WalkInv
<1>8. QED
  BY <1>1, <1>2, <1>3, <1>4, <1>5, <1>6, <1>7 DEF Next, Step

-----------------------------------------------------------------------------
(* The refinement *)

\* Every step adds one segment that follows the last, or none.
LEMMA BookStep ==
    ASSUME WalkInv, [Next]_vars
    PROVE  [Promise!Record]_(file.splits)
<1>1. ASSUME NEW d \in Days, Complete(d) PROVE Promise!Record
  <2>1. /\ file'.splits = Append(file.splits, NewSplit(d)) /\ file'.splits # <<>>
        /\ file'.splits[Len(file'.splits)] = NewSplit(d)
    BY <1>1, BookGrows
  <2>2. /\ NewSplit(d).asOf < NewSplit(d).entry
        /\ NewSplit(d).entry <= NewSplit(d).exit
        /\ Promise!Follows(NewSplit(d))
    BY <1>1, NewSplitFollows
  <2> QED BY <2>1, <2>2 DEF Promise!Record
<1>2. ASSUME NEW d \in Days, Skip(d) \/ Research(d) PROVE file' = file
  BY <1>2 DEF Skip, Research
<1>3. CASE Start \/ Publish \/ Stop \/ Grow \/ UNCHANGED vars
  BY <1>3 DEF Start, Publish, Stop, Grow, vars
<1>4. QED
  BY <1>1, <1>2, <1>3 DEF Next, Step

\* For every calendar whose keys come in blocks, configuration, history and
\* growth of the data: however often the walk is stopped, resumed or repeated,
\* its checkpoint only gains segments, each after the last one and from the
\* holdings it left (run_walkforward and _Checkpointer).
THEOREM ImplementsWalk == ASSUME KeysInBlocks PROVE Spec => BookIsKept
<1>1. InBlocks
  BY KeysBlock
<1>2. Init => Promise!Init
  BY DEF Init, NoState, Promise!Init
<1>3. Init => WalkInv
  BY WalkInit
<1>4. WalkInv /\ [Next]_vars => WalkInv'
  BY <1>1, WalkStep
<1>5. WalkInv /\ [Next]_vars => [Promise!Record]_(file.splits)
  BY BookStep
<1>6. QED
  BY <1>2, <1>3, <1>4, <1>5, PTL DEF Spec, BookIsKept, Promise!Spec

-----------------------------------------------------------------------------
(* The drift of a segment *)

\* h prices the days of every subset of U, the latest last.
IsDrift(h, rows, held, U) ==
    h = [s \in SUBSET U |->
           IF s = {} THEN rows
           ELSE Price(h[s \ {Max(s)}], [day |-> Max(s), held |-> held])]

\* A drift is the value its recursion gives all the days.
LEMMA DriftIs ==
    ASSUME NEW rows, NEW held, NEW U
    PROVE  Drift(rows, held, U) = (CHOOSE h : IsDrift(h, rows, held, U))[U]
BY DEF Drift, MapThenFoldSet, IsDrift

\* r is rows with a row for every day of D added, in ascending order.
Priced(r, rows, held, D) ==
    LET new == Len(rows) + 1 .. Len(r) IN
    /\ r \in Seq(Row) /\ Len(rows) <= Len(r)
    /\ \A i \in 1 .. Len(rows) : r[i] = rows[i]
    /\ \A i \in new : r[i].held = held /\ r[i].day \in D
    /\ \A d \in D : \E i \in new : r[i].day = d
    /\ \A i, j \in new : i < j => r[i].day < r[j].day

\* There are finitely many days.
LEMMA DaysFinite == IsFiniteSet(Days) /\ \A S \in SUBSET Days : IsFiniteSet(S)
<1>1. IsFiniteSet(Days)
  BY FS_Interval, WalkAssumption DEF Days
<1>2. QED
  BY <1>1, FS_Subset

\* The recursion of a drift has one solution at every set of days.
LEMMA DriftUnique ==
    ASSUME NEW h, NEW k, NEW rows, NEW held, NEW U, NEW V, NEW S \in SUBSET Days,
           IsDrift(h, rows, held, U), IsDrift(k, rows, held, V), S \subseteq U, S \subseteq V
    PROVE  h[S] = k[S]
<1> DEFINE B == {T \in SUBSET S : h[T] # k[T]}
<1>1. SUFFICES ASSUME B # {} PROVE FALSE
  OBVIOUS
<1>2. PICK m \in B : \A y \in B : y \subseteq m => y = m
  <2>1. B \subseteq SUBSET S /\ IsFiniteSet(S)
    BY DaysFinite
  <2> HIDE DEF B
  <2>2. QED
    BY <1>1, <2>1, Smallest
<1>3. m # {} /\ m \in SUBSET Days
  BY <1>2 DEF IsDrift
<1>4. Max(m) \in m
  BY <1>3, GreatestDay
<1>5. h[m \ {Max(m)}] = k[m \ {Max(m)}]
  BY <1>2, <1>4
<1>6. /\ h[m] = Price(h[m \ {Max(m)}], [day |-> Max(m), held |-> held])
      /\ k[m] = Price(k[m \ {Max(m)}], [day |-> Max(m), held |-> held])
  BY <1>2, <1>3 DEF IsDrift
<1>7. QED
  BY <1>2, <1>5, <1>6

\* The recursion of a drift has a solution: a smallest set of days without one
\* would take one from the set without its last day.
LEMMA DriftExists ==
    ASSUME NEW rows, NEW held, NEW U \in SUBSET Days
    PROVE  \E h : IsDrift(h, rows, held, U)
<1> DEFINE B == {T \in SUBSET U : ~\E h : IsDrift(h, rows, held, T)}
<1>1. SUFFICES ASSUME B # {} PROVE FALSE
  OBVIOUS
<1>2. PICK m \in B : \A y \in B : y \subseteq m => y = m
  <2>1. B \subseteq SUBSET U /\ IsFiniteSet(U)
    BY DaysFinite
  <2> HIDE DEF B
  <2>2. QED
    BY <1>1, <2>1, Smallest
<1>3. \A s \in SUBSET m : s # m => \E h : IsDrift(h, rows, held, s)
  BY <1>2
<1>4. m \in SUBSET Days
  BY <1>2
<1> DEFINE H(s) == (CHOOSE h : IsDrift(h, rows, held, s))[s]
           row(s) == [day |-> Max(s), held |-> held]
<1>5. ASSUME NEW s \in SUBSET m, s # m, s # {}
      PROVE  H(s) = Price(H(s \ {Max(s)}), row(s))
  <2>1. Max(s) \in s
    BY <1>4, <1>5, GreatestDay
  <2> DEFINE r == s \ {Max(s)}
             hs == CHOOSE h : IsDrift(h, rows, held, s)
             hr == CHOOSE h : IsDrift(h, rows, held, r)
  <2>2. IsDrift(hs, rows, held, s)
    BY <1>3, <1>5
  <2>3. r \in SUBSET m /\ r # m /\ r \subseteq s /\ r \in SUBSET Days
    BY <1>4, <1>5, <2>1
  <2>4. IsDrift(hr, rows, held, r)
    BY <1>3, <2>3
  <2> HIDE DEF r
  <2>5. hs[r] = hr[r]
    <3> HIDE DEF hs, hr
    <3>1. r \subseteq r
      OBVIOUS
    <3>2. QED
      BY <2>2, <2>3, <2>4, <3>1, DriftUnique
  <2>6. hs[s] = Price(hs[r], row(s))
    <3> HIDE DEF hs
    <3>1. QED
      BY <1>5, <2>2 DEF r, IsDrift
  <2>7. QED
    BY <2>5, <2>6 DEF r
<1> DEFINE k == [s \in SUBSET m |->
                   IF s = m /\ s # {} THEN Price(H(m \ {Max(m)}), row(m)) ELSE H(s)]
<1>6. H({}) = rows
  <2>1. \E h : IsDrift(h, rows, held, {})
    <3> DEFINE h == [s \in SUBSET {} |-> rows]
    <3>1. IsDrift(h, rows, held, {})
      BY DEF IsDrift
    <3>2. QED
      BY <3>1
  <2>2. QED
    BY <2>1 DEF IsDrift
<1>7. IsDrift(k, rows, held, m)
  <2> HIDE DEF H, row
  <2>1. ASSUME NEW s \in SUBSET m
        PROVE  k[s] = IF s = {} THEN rows ELSE Price(k[s \ {Max(s)}], row(s))
    <3>1. CASE s = {}
      BY <1>6, <3>1
    <3>2. CASE s # {}
      <4>1. Max(s) \in s
        BY <1>4, <3>2, GreatestDay
      <4>2. k[s \ {Max(s)}] = H(s \ {Max(s)})
        BY <4>1
      <4>3. QED
        BY <1>5, <3>2, <4>2
    <3>3. QED
      BY <3>1, <3>2
  <2>2. k = [s \in SUBSET m |-> k[s]]
    OBVIOUS
  <2> HIDE DEF k
  <2>3. k = [s \in SUBSET m |->
                IF s = {} THEN rows ELSE Price(k[s \ {Max(s)}], row(s))]
    BY <2>1, <2>2
  <2>4. QED
    BY <2>3 DEF IsDrift, row
<1>8. QED
  BY <1>2, <1>7

\* A drift of any curve is a curve.
LEMMA DriftType ==
    ASSUME NEW rows \in Seq(Row), NEW held \in Snapshot, NEW U \in SUBSET Days
    PROVE  Drift(rows, held, U) \in Seq(Row)
<1>1. PICK h : IsDrift(h, rows, held, U) /\ h[U] = Drift(rows, held, U)
  <2> DEFINE h == CHOOSE h : IsDrift(h, rows, held, U)
  <2>1. IsDrift(h, rows, held, U)
    BY DriftExists
  <2>2. QED
    BY <2>1, DriftIs
<1> DEFINE B == {T \in SUBSET U : h[T] \notin Seq(Row)}
<1>2. SUFFICES ASSUME B # {} PROVE FALSE
  BY <1>1
<1>3. PICK m \in B : \A y \in B : y \subseteq m => y = m
  <2>1. B \subseteq SUBSET U /\ IsFiniteSet(U)
    BY DaysFinite
  <2> HIDE DEF B
  <2>2. QED
    BY <1>2, <2>1, Smallest
<1>4. m # {} /\ m \in SUBSET Days
  BY <1>1, <1>3 DEF IsDrift
<1> DEFINE c == h[m \ {Max(m)}]  row == [day |-> Max(m), held |-> held]
<1>5. Max(m) \in m
  BY <1>4, GreatestDay
<1>6. c \in Seq(Row) /\ row \in Row
  BY <1>3, <1>4, <1>5 DEF Row
<1>7. h[m] = Price(c, row)
  BY <1>1, <1>3, <1>4 DEF IsDrift
<1> HIDE DEF c, row
<1>8. Price(c, row) \in Seq(Row)
  BY <1>6 DEF Price, Front
<1>9. QED
  BY <1>3, <1>7, <1>8

\* A drift over later days adds a row for each of them.
LEMMA DriftAppends ==
    ASSUME NEW rows \in Seq(Row), NEW held \in Snapshot, NEW U \in SUBSET Days,
           \A d \in U : rows = <<>> \/ Last(rows).day < d
    PROVE  Priced(Drift(rows, held, U), rows, held, U)
<1>1. PICK h : IsDrift(h, rows, held, U) /\ h[U] = Drift(rows, held, U)
  <2> DEFINE h == CHOOSE h : IsDrift(h, rows, held, U)
  <2>1. IsDrift(h, rows, held, U)
    BY DriftExists
  <2>2. QED
    BY <2>1, DriftIs
<1> DEFINE B == {T \in SUBSET U : ~Priced(h[T], rows, held, T)}
<1>2. SUFFICES ASSUME B # {} PROVE FALSE
  BY <1>1
<1>3. PICK m \in B : \A y \in B : y \subseteq m => y = m
  <2>1. B \subseteq SUBSET U /\ IsFiniteSet(U)
    BY DaysFinite
  <2> HIDE DEF B
  <2>2. QED
    BY <1>2, <2>1, Smallest
<1>4. m # {} /\ m \in SUBSET Days
  <2>1. h[{}] = rows
    BY <1>1 DEF IsDrift
  <2>2. Priced(h[{}], rows, held, {})
    BY <2>1 DEF Priced
  <2>3. QED
    BY <1>3, <2>2
<1> DEFINE x == Max(m)  c == h[m \ {x}]  row == [day |-> x, held |-> held]
<1>5. x \in m /\ \A d \in m : d # x => d < x
  <2>1. x \in m /\ \A d \in m : d <= x
    BY <1>4, GreatestDay
  <2>2. \A d \in m : d \in Int
    BY <1>4, WalkAssumption DEF Days
  <2> HIDE DEF x
  <2>3. QED
    BY <2>1, <2>2
<1>6. Priced(c, rows, held, m \ {x})
  BY <1>3, <1>5
<1>7. h[m] = Price(c, row)
  BY <1>1, <1>3, <1>4 DEF IsDrift
<1>8. row \in Row /\ row.day = x /\ row.held = held /\ x \in Days
  BY <1>4, <1>5 DEF Row
<1>9. rows = <<>> \/ Last(rows).day < x
  BY <1>3, <1>5
<1> HIDE DEF c, row, x
<1>10. c = <<>> \/ Last(c).day < row.day
  <2>1. c \in Seq(Row) /\ Len(rows) <= Len(c)
    BY <1>6 DEF Priced
  <2>2. CASE Len(c) = Len(rows)
    BY <1>6, <1>8, <1>9, <2>1, <2>2 DEF Priced, Last
  <2>3. CASE Len(c) > Len(rows)
    <3>1. Len(c) \in Len(rows) + 1 .. Len(c)
      BY <2>1, <2>3
    <3>2. c[Len(c)].day \in m /\ c[Len(c)].day # x
      BY <1>6, <3>1 DEF Priced
    <3>3. c[Len(c)].day < x
      BY <1>5, <3>2
    <3>4. QED
      BY <1>8, <3>3 DEF Last
  <2>4. QED
    BY <2>1, <2>2, <2>3
<1>11. h[m] = Append(c, row)
  BY <1>7, <1>10 DEF Price
<1>12. Priced(Append(c, row), rows, held, m)
  <2> DEFINE r == Append(c, row)  n == Len(c)
  <2>1. c \in Seq(Row) /\ n \in Nat /\ Len(rows) <= n /\ Len(rows) \in Nat
    BY <1>6 DEF Priced
  <2>2. /\ r \in Seq(Row) /\ Len(r) = n + 1 /\ r[n + 1] = row
        /\ \A i \in 1 .. n : r[i] = c[i]
    BY <1>8, <2>1
  <2> HIDE DEF r, n
  <2>3. \A i \in 1 .. Len(rows) : r[i] = rows[i]
    BY <1>6, <2>1, <2>2 DEF Priced, n
  <2>4. \A i \in Len(rows) + 1 .. n + 1 : i = n + 1 \/ (i \in Len(rows) + 1 .. n /\ r[i] = c[i])
    BY <2>1, <2>2
  <2>5. \A i \in Len(rows) + 1 .. n :
            /\ c[i].held = held /\ c[i].day \in m /\ c[i].day # x
    BY <1>6 DEF Priced, n
  <2>6. \A i \in Len(rows) + 1 .. n : c[i].day < x
    BY <1>5, <2>5
  <2>7. \A i \in Len(rows) + 1 .. n + 1 : r[i].held = held /\ r[i].day \in m
    BY <1>5, <1>8, <2>2, <2>4, <2>5
  <2>8. \A d \in m : \E i \in Len(rows) + 1 .. n + 1 : r[i].day = d
    <3> TAKE d \in m
    <3>1. CASE d = x
      <4>1. n + 1 \in Len(rows) + 1 .. n + 1
        BY <2>1
      <4>2. QED
        BY <1>8, <2>2, <3>1, <4>1
    <3>2. CASE d # x
      <4>1. PICK i \in Len(rows) + 1 .. n : c[i].day = d
        BY <1>6, <3>2 DEF Priced, n
      <4>2. i \in Len(rows) + 1 .. n + 1 /\ i \in 1 .. n
        BY <2>1
      <4>3. QED
        BY <2>2, <4>1, <4>2
    <3>3. QED
      BY <3>1, <3>2
  <2>9. \A i, j \in Len(rows) + 1 .. n + 1 : i < j => r[i].day < r[j].day
    <3> SUFFICES ASSUME NEW i \in Len(rows) + 1 .. n + 1, NEW j \in Len(rows) + 1 .. n + 1, i < j
                 PROVE  r[i].day < r[j].day
      OBVIOUS
    <3>1. i \in Len(rows) + 1 .. n /\ r[i] = c[i]
      BY <2>1, <2>4
    <3>2. CASE j = n + 1
      BY <1>8, <2>2, <2>6, <3>1, <3>2
    <3>3. CASE j # n + 1
      BY <1>6, <2>4, <3>1, <3>3 DEF Priced, n
    <3>4. QED
      BY <3>2, <3>3
  <2>10. Priced(r, rows, held, m)
    BY <2>1, <2>2, <2>3, <2>7, <2>8, <2>9 DEF Priced
  <2>11. QED
    BY <2>10 DEF r
<1>13. QED
  BY <1>3, <1>11, <1>12

-----------------------------------------------------------------------------
(* Type correctness *)

\* What research returned is a snapshot of a date that can trade.
TypeInv ==
    /\ TypeOK
    /\ pc = "trade" => snapshot \in Snapshot /\ Tradable(snapshot.asOf)

\* What a walk starts from is well-formed.
LEMMA HoldsNothing == NoState \in State /\ Cash \in Holding /\ <<>> \in Seq(Row)
BY DEF NoState, State, Holding

\* A recorded split has its place in the calendar.
LEMMA BookType ==
    ASSUME TypeInv, NEW d \in Days, Complete(d)
    PROVE  /\ Book(d) \in State
           /\ Segment(d) \in SUBSET Days
<1>1. /\ d = snapshot.asOf /\ snapshot \in Snapshot /\ Tradable(d)
      /\ sessions \subseteq Days /\ state \in State
  BY DEF Complete, TypeInv, TypeOK
<1>2. EntryOf(d) \in Days /\ Max(Segment(d)) \in Days
  BY <1>1, SegmentShape
<1>3. /\ state.splits \in Seq(Split) /\ state.equity \in Seq(Row)
      /\ state.holdings \in Holding
  BY <1>1 DEF State
<1> DEFINE s == [asOf |-> d, entry |-> EntryOf(d), exit |-> Max(Segment(d)),
                 from |-> state.holdings, to |-> snapshot]
           rows == Drift(state.equity, snapshot, Segment(d))
<1>4. s \in Split
  BY <1>1, <1>2, <1>3 DEF Split
<1>5. Segment(d) \in SUBSET Days
  BY <1>1 DEF Segment
<1>6. rows \in Seq(Row)
  BY <1>1, <1>3, <1>5, DriftType
<1>7. Book(d) = [splits |-> Append(state.splits, s), equity |-> rows, holdings |-> snapshot]
  BY DEF Book
<1>8. snapshot \in Holding
  BY <1>1 DEF Holding
<1> HIDE DEF s, rows
<1>9. Append(state.splits, s) \in Seq(Split)
  BY <1>3, <1>4
<1>10. QED
  BY <1>5, <1>6, <1>7, <1>8, <1>9 DEF State

\* The type invariant holds before the first process starts.
LEMMA TypeInit == Init => TypeInv
<1> SUFFICES ASSUME Init PROVE TypeInv
  OBVIOUS
<1>1. available \subseteq Days /\ paid \in [Days -> Nat] /\ stops \in Nat
  BY WalkAssumption DEF Init
<1>2. QED
  BY <1>1, HoldsNothing DEF Init, TypeInv, TypeOK

\* Every step keeps it.
LEMMA TypeStep == TypeInv /\ [Next]_vars => TypeInv'
<1> SUFFICES ASSUME TypeInv, [Next]_vars PROVE TypeInv'
  OBVIOUS
<1> USE DEF TypeOK
<1>1. TypeOK
  BY DEF TypeInv
<1>2. CASE Start
  <2>1. todo' \subseteq Days
    BY <1>1, <1>2 DEF Start, RebalanceDates
  <2>2. QED
    BY <1>1, <1>2, <2>1 DEF Start, Load, TypeInv
<1>3. ASSUME NEW d \in Days, Skip(d) PROVE TypeInv'
  BY <1>1, <1>3 DEF Skip, Visits, TypeInv
<1>4. ASSUME NEW d \in Days, Research(d) PROVE TypeInv'
  <2>1. /\ snapshot' = [asOf |-> d, run |-> paid[d] + 1] /\ Tradable(d)
        /\ UNCHANGED <<config, sessions>>
    BY <1>4 DEF Research
  <2>2. snapshot' \in Snapshot /\ snapshot' \in Holding /\ snapshot'.asOf = d
    BY <1>1, <2>1 DEF Snapshot, Holding
  <2>3. Tradable(d)'
    BY <2>1, SameCalendar
  <2>4. Tradable(snapshot.asOf)'
    BY <2>2, <2>3 DEF Tradable, IsEntry, After, ExitDate
  <2>5. paid' \in [Days -> Nat]
    BY <1>1, <1>4 DEF Research
  <2>6. QED
    BY <1>1, <1>4, <2>2, <2>4, <2>5 DEF Research, TypeInv
<1>5. ASSUME NEW d \in Days, Complete(d) PROVE TypeInv'
  BY <1>1, <1>5, BookType DEF Complete, TypeInv
<1>6. CASE Publish \/ Stop
  <2>1. result' \in Seq(Row)
    BY <1>1, <1>6 DEF Publish, Stop, State
  <2>2. stops' \in Nat
    BY <1>1, <1>6 DEF Publish, Stop
  <2>3. QED
    BY <1>1, <1>6, <2>1, <2>2, HoldsNothing DEF Publish, Stop, Exit, TypeInv
<1>7. CASE Grow
  <2>1. available' \subseteq Days /\ grew' \in BOOLEAN
    BY <1>1, <1>7 DEF Grow
  <2>2. UNCHANGED <<config, pc, sessions, todo, snapshot, state, file, result, paid, stops>>
    BY <1>7 DEF Grow, memVars
  <2>3. Tradable(snapshot.asOf)' <=> Tradable(snapshot.asOf)
    BY <2>2 DEF Tradable, IsEntry, After, ExitDate, RebalanceDates, PeriodKey, DelayBars
  <2>4. QED
    BY <1>1, <2>1, <2>2, <2>3 DEF TypeInv
<1>8. CASE UNCHANGED vars
  <2>1. UNCHANGED <<config, pc, sessions, todo, snapshot, state, file, result, available, paid,
                    stops, grew>>
    BY <1>8 DEF vars, memVars
  <2>2. Tradable(snapshot.asOf)' <=> Tradable(snapshot.asOf)
    BY <2>1 DEF Tradable, IsEntry, After, ExitDate, RebalanceDates, PeriodKey, DelayBars
  <2>3. QED
    BY <1>1, <2>1, <2>2 DEF TypeInv
<1>9. QED
  BY <1>2, <1>3, <1>4, <1>5, <1>6, <1>7, <1>8 DEF Next, Step

\* It is an invariant.
LEMMA TypeInvariant == Spec => []TypeInv
BY TypeInit, TypeStep, PTL DEF Spec

\* Every variable always holds a value of its kind: what is resumed from the
\* checkpoint and what is published are well-formed (backtest/walkforward.py).
THEOREM TypeCorrect == Spec => []TypeOK
<1>1. TypeInv => TypeOK
  BY DEF TypeInv
<1>2. QED
  BY <1>1, TypeInvariant, PTL

-----------------------------------------------------------------------------
(* Research is paid for once *)

\* A process works on a copy of the checkpoint, and what was paid is counted.
PaidInv ==
    /\ pc # "down" => state = file
    /\ SumOver(paid, Days) <= Len(file.splits) + stops + (IF pc = "trade" THEN 1 ELSE 0)

\* What was paid is the sum of the runs of all days.
LEMMA PaidSum ==
    ASSUME TypeOK
    PROVE  /\ MapThenSumSet(LAMBDA d : paid[d], Days) = SumOver(paid, Days)
           /\ IsFiniteSet(Days) /\ SumOver(paid, Days) \in Nat
           /\ \A d \in Days : paid[d] \in Int
           /\ Len(file.splits) \in Nat /\ stops \in Nat
<1>1. MapThenSumSet(LAMBDA d : paid[d], Days) = SumOver(paid, Days)
  BY DEF MapThenSumSet, MapThenFoldSet, SumOver, IsSum, Pick
<1>2. IsFiniteSet(Days) /\ \A d \in Days : paid[d] \in Nat /\ paid[d] \in Int
  BY DaysFinite DEF TypeOK
<1>3. SumOver(paid, Days) \in Nat
  BY <1>2, SumType
<1>4. Len(file.splits) \in Nat /\ stops \in Nat
  BY DEF TypeOK, State
<1>5. QED
  BY <1>1, <1>2, <1>3, <1>4

\* Only research pays, and the split or a stop follows it.
LEMMA PaidStep == TypeInv /\ TypeInv' /\ PaidInv /\ [Next]_vars => PaidInv'
<1> SUFFICES ASSUME TypeInv, TypeInv', PaidInv, [Next]_vars PROVE PaidInv'
  OBVIOUS
<1> DEFINE sum == SumOver(paid, Days)  len == Len(file.splits)
<1>0. sum \in Nat /\ len \in Nat /\ stops \in Nat
  BY PaidSum DEF TypeInv
<1>1. CASE Start
  BY <1>1 DEF Start, Load, PaidInv
<1>2. ASSUME NEW d \in Days, Skip(d) PROVE PaidInv'
  BY <1>2 DEF Skip, Visits, PaidInv
<1>3. ASSUME NEW d \in Days, Research(d) PROVE PaidInv'
  <2>1. /\ pc = "walk" /\ pc' = "trade" /\ paid' = [paid EXCEPT ![d] = @ + 1]
        /\ UNCHANGED <<state, file, stops>>
    BY <1>3 DEF Research, Visits
  <2>2. paid'[d] = paid[d] + 1 /\ \A e \in Days : e # d => paid'[e] = paid[e]
    BY <2>1 DEF TypeInv, TypeOK
  <2>3. SumOver(paid', Days) = sum + 1
    BY <2>2, PaidSum, SumRaise DEF TypeInv
  <2>4. sum <= len + stops
    BY <1>0, <2>1 DEF PaidInv
  <2> HIDE DEF sum, len
  <2>5. sum + 1 <= len + stops + 1
    BY <1>0, <2>4
  <2>6. QED
    BY <2>1, <2>3, <2>5 DEF PaidInv, len
<1>4. ASSUME NEW d \in Days, Complete(d) PROVE PaidInv'
  <2>1. /\ pc = "trade" /\ pc' = "walk" /\ UNCHANGED <<paid, stops>>
        /\ file' = state' /\ state' = Book(d)
    BY <1>4 DEF Complete
  <2>2. state = file /\ file.splits \in Seq(Split)
    BY <2>1 DEF PaidInv, TypeInv, TypeOK, State
  <2>3. Len(file'.splits) = len + 1
    BY <2>1, <2>2 DEF Book
  <2>4. sum <= len + stops + 1
    BY <2>1 DEF PaidInv
  <2> HIDE DEF sum, len
  <2>5. sum <= (len + 1) + stops + 0
    BY <1>0, <2>4
  <2>6. QED
    BY <2>1, <2>3, <2>5 DEF PaidInv, sum
<1>5. CASE Publish
  BY <1>5 DEF Publish, Exit, PaidInv
<1>6. CASE Stop
  <2>1. /\ pc' = "down" /\ stops' = stops + 1 /\ UNCHANGED <<file, paid>>
    BY <1>6 DEF Stop, Exit
  <2>2. sum <= len + stops + 1
    <3>1. sum <= len + stops + (IF pc = "trade" THEN 1 ELSE 0)
      BY DEF PaidInv
    <3> HIDE DEF sum, len
    <3>2. QED
      BY <1>0, <3>1
  <2> HIDE DEF sum, len
  <2>3. sum <= len + (stops + 1) + 0
    BY <1>0, <2>2
  <2>4. QED
    BY <2>1, <2>3 DEF PaidInv, sum, len
<1>7. CASE Grow \/ UNCHANGED vars
  BY <1>7 DEF Grow, vars, memVars, PaidInv
<1>8. QED
  BY <1>1, <1>2, <1>3, <1>4, <1>5, <1>6, <1>7 DEF Next, Step

\* Research is paid for once per recorded split and once more per stop, however
\* often the walk is resumed, whatever the calendar (run_walkforward).
THEOREM PaidPerSplit == Spec => []RepaidOnlyAfterStop
<1>1. Init => PaidInv
  <2> SUFFICES ASSUME Init PROVE PaidInv
    OBVIOUS
  <2>1. /\ pc = "down" /\ file.splits = <<>> /\ stops = 0
        /\ \A d \in Days : paid[d] = 0
    BY DEF Init, NoState
  <2>2. SumOver(paid, Days) = 0
    BY <2>1, DaysFinite, SumZero
  <2>3. QED
    BY <2>1, <2>2 DEF PaidInv
<1>2. TypeOK /\ PaidInv => RepaidOnlyAfterStop
  BY PaidSum DEF PaidInv, RepaidOnlyAfterStop
<1>3. TypeInv => TypeOK
  BY DEF TypeInv
<1>4. QED
  BY <1>1, <1>2, <1>3, TypeInvariant, PaidStep, PTL DEF Spec

-----------------------------------------------------------------------------
(* The curve of a checkpoint *)

\* Days ascend.
Ascending(rows) == \A i, j \in DOMAIN rows : i < j => rows[i].day < rows[j].day

\* Every row is one of a session of some segment, held by its snapshot, and
\* every session of a segment has such a row.
RowsInSegments(b, rows, a) ==
    \A i \in DOMAIN rows :
        /\ rows[i].day \in a
        /\ \E k \in DOMAIN b : /\ b[k].entry <= rows[i].day /\ rows[i].day <= b[k].exit
                               /\ rows[i].held = b[k].to

SegmentsInRows(b, rows, a) ==
    \A k \in DOMAIN b : \A d \in a :
        b[k].entry <= d /\ d <= b[k].exit =>
            \E i \in DOMAIN rows : rows[i].day = d /\ rows[i].held = b[k].to

\* The last segment ends the curve, and segments end with sessions.
EndsWithBook(b, rows, a) ==
    /\ b # <<>> => \A i \in DOMAIN rows : rows[i].day <= b[Len(b)].exit
    /\ \A k \in DOMAIN b : b[k].exit \in a

\* The curve of segments b among the sessions a.
CurveOf(b, rows, a) ==
    Ascending(rows) /\ RowsInSegments(b, rows, a) /\ SegmentsInRows(b, rows, a)
        /\ EndsWithBook(b, rows, a)

\* The checkpoint's curve is that of its segments.
CurveInv == CurveOf(file.splits, file.equity, available)

\* The days a new split prices are the sessions of the data between its ends.
LEMMA SegmentIs ==
    ASSUME WalkInv, NEW d \in Days, Complete(d)
    PROVE  /\ Segment(d) \in SUBSET Days
           /\ Segment(d) = {x \in available : NewSplit(d).entry <= x /\ x <= NewSplit(d).exit}
           /\ NewSplit(d).exit \in available
<1>1. /\ sessions \subseteq Days /\ Extends(sessions, available) /\ Tradable(d)
  BY DEF Complete, WalkInv, Walking, Trading, Extends
<1>2. Segment(d) \in SUBSET Days /\ ExitDate(d) \in Days
  BY <1>1, ExitIsNext DEF Segment
<1>3. /\ NewSplit(d).entry = EntryOf(d) /\ NewSplit(d).exit = Max(Segment(d))
      /\ NewSplit(d).exit \in sessions /\ NewSplit(d).exit \in Days /\ EntryOf(d) \in Days
  <2>1. NewSplit(d).exit \in sessions /\ NewSplit(d) \in Split
    BY NewSplitFollows
  <2>2. QED
    BY <2>1 DEF NewSplit, Split
<1>4. Segment(d) # {}
  <2>1. PICK x \in sessions : IsEntry(d, x) /\ x <= ExitDate(d)
    BY <1>1 DEF Tradable
  <2>2. IsEntry(d, EntryOf(d)) /\ EntryOf(d) \in sessions
    BY <2>1 DEF EntryOf
  <2>3. EntryOf(d) = x
    BY <1>1, <2>1, <2>2, EntryInSessions, EntryUnique
  <2>4. x <= x
    BY <1>1, WalkAssumption DEF Days
  <2>5. QED
    BY <2>1, <2>3, <2>4 DEF Segment
<1>5. Max(Segment(d)) \in Segment(d) /\ \A x \in Segment(d) : x <= Max(Segment(d))
  BY <1>2, <1>4, GreatestDay
<1> DEFINE e == EntryOf(d)  m == Max(Segment(d))
<1>6. \A x \in available : e <= x /\ x <= m => x \in Segment(d)
  <2> SUFFICES ASSUME NEW x \in available, e <= x, x <= m PROVE x \in Segment(d)
    OBVIOUS
  <2>1. x \in sessions
    <3>1. x \notin sessions => m < x
      BY <1>1, <1>3 DEF Extends
    <3>2. x \in Days /\ m \in Days
      BY <1>1, <1>3 DEF Extends
    <3> HIDE DEF m
    <3>3. QED
      BY <3>1, <3>2, WalkAssumption DEF Days
  <2>2. m <= ExitDate(d)
    BY <1>5 DEF Segment
  <2>3. x \in Days /\ m \in Days /\ ExitDate(d) \in Days
    BY <1>1, <1>2, <1>3, <2>1
  <2>4. x <= ExitDate(d)
    <3> HIDE DEF m
    <3>1. QED
      BY <2>2, <2>3, WalkAssumption DEF Days
  <2>5. QED
    BY <2>1, <2>4 DEF Segment
<1>7. \A x \in Segment(d) : x \in available /\ e <= x
  BY <1>1 DEF Segment, Extends
<1>8. QED
  BY <1>1, <1>2, <1>3, <1>5, <1>6, <1>7 DEF Extends

\* A completed split ends the curve with its rows.
LEMMA CurveExtends ==
    ASSUME WalkInv, CurveInv, TypeInv, NEW d \in Days, Complete(d)
    PROVE  /\ Priced(file'.equity, file.equity, snapshot, Segment(d))
           /\ file.equity \in Seq(Row)
           /\ file.splits # <<>> =>
                 file.splits[Len(file.splits)].exit < NewSplit(d).entry
           /\ file.splits = <<>> => file.equity = <<>>
<1>1. /\ state = file /\ file' = state' /\ state' = Book(d) /\ snapshot \in Snapshot
      /\ file.splits \in Seq(Split) /\ file.equity \in Seq(Row)
  BY DEF Complete, WalkInv, Walking, Trading, TypeInv, TypeOK, State
<1>2. file'.equity = Drift(file.equity, snapshot, Segment(d))
  BY <1>1 DEF Book
<1>3. /\ Segment(d) \in SUBSET Days
      /\ \A x \in Segment(d) : NewSplit(d).entry <= x
  BY SegmentIs
<1>4. NewSplit(d) \in Split /\ Promise!Follows(NewSplit(d))
  BY NewSplitFollows
<1>5. file.splits = <<>> => file.equity = <<>>
  <2> SUFFICES ASSUME file.splits = <<>>, file.equity # <<>> PROVE FALSE
    OBVIOUS
  <2>1. 1 \in DOMAIN file.equity
    BY <1>1
  <2>2. PICK k \in DOMAIN file.splits : file.equity[1].held = file.splits[k].to
    BY <2>1 DEF CurveInv, CurveOf, RowsInSegments
  <2>3. QED
    BY <2>2
<1> DEFINE l == file.splits[Len(file.splits)]
<1>6. file.splits # <<>> => l \in Split /\ l.exit < NewSplit(d).entry
  BY <1>1, <1>4 DEF Promise!Follows, Promise!Latest
<1>7. \A x \in Segment(d) : file.equity = <<>> \/ Last(file.equity).day < x
  <2> SUFFICES ASSUME NEW x \in Segment(d), file.equity # <<>> PROVE Last(file.equity).day < x
    OBVIOUS
  <2>1. file.splits # <<>>
    BY <1>5
  <2>2. Len(file.equity) \in DOMAIN file.equity /\ Last(file.equity) \in Row
    BY <1>1 DEF Last
  <2>3. Last(file.equity).day <= l.exit
    BY <2>1, <2>2 DEF CurveInv, CurveOf, EndsWithBook, Last
  <2>4. l.exit \in Days /\ NewSplit(d).entry \in Days /\ x \in Days
        /\ Last(file.equity).day \in Days
    BY <1>3, <1>4, <1>6, <2>1, <2>2 DEF Split, Row
  <2> HIDE DEF l
  <2>5. QED
    BY <1>3, <1>6, <2>1, <2>3, <2>4, WalkAssumption DEF Days
<1>8. Priced(file'.equity, file.equity, snapshot, Segment(d))
  BY <1>1, <1>2, <1>3, <1>7, DriftAppends
<1>9. QED
  BY <1>1, <1>5, <1>6, <1>8

\* The curve of a completed split is that of the segments with the new one.
LEMMA CurveCompletes ==
    ASSUME WalkInv, CurveInv, TypeInv, NEW d \in Days, Complete(d)
    PROVE  CurveInv'
<1> DEFINE b == file.splits  rows == file.equity  c == file'.splits  r == file'.equity
           s == NewSplit(d)  n == Len(rows)  S == Segment(d)
<1>1. /\ Priced(r, rows, snapshot, S) /\ rows \in Seq(Row) /\ r \in Seq(Row)
      /\ b # <<>> => b[Len(b)].exit < s.entry
      /\ b = <<>> => rows = <<>>
  BY CurveExtends DEF Priced
<1>2. /\ c = Append(b, s) /\ c \in Seq(Split) /\ c[Len(c)] = s /\ c # <<>>
      /\ b \in Seq(Split) /\ s \in Split /\ s.to = snapshot
  BY BookGrows, NewSplitFollows DEF NewSplit, WalkInv, Kinds
<1>3. /\ S \in SUBSET Days /\ s.exit \in available
      /\ S = {x \in available : s.entry <= x /\ x <= s.exit}
      /\ available' = available /\ available \subseteq Days
      /\ s.entry <= s.exit /\ s.entry \in Days /\ s.exit \in Days
  BY <1>2, SegmentIs, NewSplitFollows DEF Complete, WalkInv, Kinds, Split
<1>4. /\ DOMAIN c = DOMAIN b \cup {Len(b) + 1} /\ c[Len(b) + 1] = s
      /\ \A k \in DOMAIN b : c[k] = b[k] /\ b[k] \in Split
  BY <1>2
<1>5. CurveOf(b, rows, available)
  BY DEF CurveInv
<1>6. /\ DOMAIN rows = 1 .. n /\ n \in Nat /\ Len(r) \in Nat /\ n <= Len(r)
      /\ DOMAIN r = 1 .. Len(r)
      /\ \A i \in DOMAIN rows : i \in DOMAIN r /\ r[i] = rows[i]
      /\ \A i \in DOMAIN r : i \in DOMAIN rows \/ i \in n + 1 .. Len(r)
      /\ \A i \in n + 1 .. Len(r) : i \in DOMAIN r
  BY <1>1 DEF Priced
<1>7. /\ \A i \in n + 1 .. Len(r) : r[i].held = snapshot /\ r[i].day \in S
      /\ \A x \in S : \E i \in n + 1 .. Len(r) : r[i].day = x
      /\ \A i, j \in n + 1 .. Len(r) : i < j => r[i].day < r[j].day
  BY <1>1 DEF Priced
<1> HIDE DEF b, rows, c, r, s, n, S
<1>8. \A i \in DOMAIN rows : rows[i].day < s.entry
  <2> SUFFICES ASSUME NEW i \in DOMAIN rows PROVE rows[i].day < s.entry
    OBVIOUS
  <2>1. b # <<>> /\ rows[i] \in Row
    BY <1>1
  <2>2. Len(b) \in DOMAIN b /\ b[Len(b)] \in Split
    BY <1>2, <1>4, <2>1
  <2>3. rows[i].day <= b[Len(b)].exit /\ b[Len(b)].exit < s.entry
    BY <1>1, <1>5, <2>1 DEF CurveOf, EndsWithBook
  <2>4. rows[i].day \in Days /\ b[Len(b)].exit \in Days
    BY <2>1, <2>2 DEF Row, Split
  <2>5. QED
    BY <1>3, <2>3, <2>4, WalkAssumption DEF Days
<1>9. Ascending(r)
  <2> SUFFICES ASSUME NEW i \in DOMAIN r, NEW j \in DOMAIN r, i < j PROVE r[i].day < r[j].day
    BY DEF Ascending
  <2>1. CASE j \in DOMAIN rows
    <3>1. i \in DOMAIN rows
      BY <1>6, <2>1
    <3>2. QED
      BY <1>5, <1>6, <2>1, <3>1 DEF CurveOf, Ascending
  <2>2. CASE i \in DOMAIN rows /\ j \in n + 1 .. Len(r)
    <3>1. r[i].day < s.entry /\ s.entry <= r[j].day /\ r[j].day \in Days
      BY <1>3, <1>6, <1>7, <1>8, <2>2
    <3>2. r[i].day \in Days
      <4>1. r[i] \in Row
        BY <1>1
      <4>2. QED
        BY <4>1 DEF Row
    <3>3. QED
      BY <1>3, <3>1, <3>2, WalkAssumption DEF Days
  <2>3. CASE i \in n + 1 .. Len(r) /\ j \in n + 1 .. Len(r)
    BY <1>7, <2>3
  <2>4. QED
    BY <1>6, <2>1, <2>2, <2>3
<1>10. RowsInSegments(c, r, available)
  <2> SUFFICES ASSUME NEW i \in DOMAIN r
               PROVE  /\ r[i].day \in available
                      /\ \E k \in DOMAIN c : /\ c[k].entry <= r[i].day /\ r[i].day <= c[k].exit
                                             /\ r[i].held = c[k].to
    BY DEF RowsInSegments
  <2>1. CASE i \in DOMAIN rows
    BY <1>4, <1>5, <1>6, <2>1 DEF CurveOf, RowsInSegments
  <2>2. CASE i \in n + 1 .. Len(r)
    BY <1>2, <1>3, <1>4, <1>7, <2>2
  <2>3. QED
    BY <1>6, <2>1, <2>2
<1>11. SegmentsInRows(c, r, available)
  <2> SUFFICES ASSUME NEW k \in DOMAIN c, NEW x \in available,
                      c[k].entry <= x, x <= c[k].exit
               PROVE  \E i \in DOMAIN r : r[i].day = x /\ r[i].held = c[k].to
    BY DEF SegmentsInRows
  <2>1. CASE k \in DOMAIN b
    <3>1. \E i \in DOMAIN rows : rows[i].day = x /\ rows[i].held = b[k].to
      BY <1>4, <1>5, <2>1 DEF CurveOf, SegmentsInRows
    <3>2. QED
      BY <1>4, <1>6, <2>1, <3>1
  <2>2. CASE k = Len(b) + 1
    <3>1. x \in S
      BY <1>3, <1>4, <2>2
    <3>2. PICK i \in n + 1 .. Len(r) : r[i].day = x
      BY <1>7, <3>1
    <3>3. QED
      BY <1>2, <1>4, <1>6, <1>7, <2>2, <3>2
  <2>3. QED
    BY <1>4, <2>1, <2>2
<1>12. EndsWithBook(c, r, available)
  <2>1. \A i \in DOMAIN r : r[i].day <= s.exit
    <3> SUFFICES ASSUME NEW i \in DOMAIN r PROVE r[i].day <= s.exit
      OBVIOUS
    <3>1. CASE i \in DOMAIN rows
      <4>1. r[i].day < s.entry /\ r[i] \in Row
        BY <1>1, <1>6, <1>8, <3>1
      <4>2. r[i].day \in Days
        BY <4>1 DEF Row
      <4>3. QED
        BY <1>3, <4>1, <4>2, WalkAssumption DEF Days
    <3>2. CASE i \in n + 1 .. Len(r)
      BY <1>3, <1>7, <3>2
    <3>3. QED
      BY <1>6, <3>1, <3>2
  <2>2. \A k \in DOMAIN c : c[k].exit \in available
    BY <1>3, <1>4, <1>5 DEF CurveOf, EndsWithBook
  <2>3. QED
    BY <1>2, <2>1, <2>2 DEF EndsWithBook
<1>13. CurveOf(c, r, available)
  BY <1>9, <1>10, <1>11, <1>12 DEF CurveOf
<1>14. QED
  BY <1>3, <1>13 DEF CurveInv, c, r

\* Sessions that come later than all the data had belong to no segment yet.
LEMMA CurveGrows ==
    ASSUME CurveInv, TypeInv, NEW d \in Days, \A e \in available : e < d,
           available' = available \cup {d}, UNCHANGED file
    PROVE  CurveInv'
<1> DEFINE b == file.splits  rows == file.equity
<1>1. CurveOf(b, rows, available) /\ b \in Seq(Split) /\ available \subseteq Days
  BY DEF CurveInv, TypeInv, TypeOK, State
<1>2. \A k \in DOMAIN b : b[k].exit < d /\ b[k].exit \in Days
  BY <1>1 DEF CurveOf, EndsWithBook
<1>3. SegmentsInRows(b, rows, available')
  <2> SUFFICES ASSUME NEW k \in DOMAIN b, NEW x \in available', b[k].entry <= x, x <= b[k].exit
               PROVE  \E i \in DOMAIN rows : rows[i].day = x /\ rows[i].held = b[k].to
    BY DEF SegmentsInRows
  <2>1. x # d
    BY <1>2, WalkAssumption DEF Days
  <2>2. QED
    BY <1>1, <2>1 DEF CurveOf, SegmentsInRows
<1>4. CurveOf(b, rows, available')
  BY <1>1, <1>3 DEF CurveOf, RowsInSegments, EndsWithBook
<1>5. QED
  BY <1>4 DEF CurveInv

\* Every step keeps the curve that of the segments.
LEMMA CurveStep ==
    ASSUME WalkInv, TypeInv, CurveInv, [Next]_vars
    PROVE  CurveInv'
<1>1. ASSUME NEW d \in Days, Complete(d) PROVE CurveInv'
  BY <1>1, CurveCompletes
<1>2. CASE Grow
  BY <1>2, CurveGrows DEF Grow
<1>3. ASSUME UNCHANGED <<file, available>> PROVE CurveInv'
  BY <1>3 DEF CurveInv
<1>4. ASSUME NEW d \in Days, Skip(d) \/ Research(d) PROVE CurveInv'
  BY <1>3, <1>4 DEF Skip, Research
<1>5. CASE Start \/ Publish \/ Stop \/ UNCHANGED vars
  BY <1>3, <1>5 DEF Start, Publish, Stop, vars
<1>6. QED
  BY <1>1, <1>2, <1>4, <1>5 DEF Next, Step

\* It is an invariant, with what it rests on.
LEMMA CurveInvariant == ASSUME KeysInBlocks PROVE Spec => [](TypeInv /\ WalkInv /\ CurveInv)
<1>1. Init => TypeInv /\ WalkInv /\ CurveInv
  <2>1. Init => CurveInv
    BY DEF Init, NoState, CurveInv, CurveOf, Ascending, RowsInSegments, SegmentsInRows,
           EndsWithBook
  <2>2. QED
    BY <2>1, TypeInit, WalkInit
<1>2. TypeInv /\ WalkInv /\ CurveInv /\ [Next]_vars => (TypeInv /\ WalkInv /\ CurveInv)'
  <2>1. InBlocks
    BY KeysBlock
  <2>2. QED
    BY <2>1, TypeStep, WalkStep, CurveStep
<1>3. QED
  BY <1>1, <1>2, PTL DEF Spec

\* The checkpointed curve is that of the checkpointed segments, for every
\* calendar whose keys come in blocks (run_walkforward and _Checkpointer).
THEOREM CurveKept == ASSUME KeysInBlocks PROVE Spec => []CurveIsTheBook
<1>1. TypeInv /\ CurveInv => CurveIsTheBook
  <2> SUFFICES ASSUME TypeInv, CurveInv PROVE CurveIsTheBook
    OBVIOUS
  <2> DEFINE b == file.splits  rows == file.equity
  <2>1. /\ CurveOf(b, rows, available) /\ rows \in Seq(Row) /\ b \in Seq(Split)
        /\ available \subseteq Days
    BY DEF CurveInv, TypeInv, TypeOK, State
  <2>2. \A i \in DOMAIN rows : rows[i] = [day |-> rows[i].day, held |-> rows[i].held]
    <3> TAKE i \in DOMAIN rows
    <3>1. rows[i] \in Row
      BY <2>1
    <3> HIDE DEF rows
    <3>2. QED
      BY <3>1 DEF Row
  <2>3. \A d \in available, k \in DOMAIN b :
            d \in b[k].entry .. b[k].exit <=> b[k].entry <= d /\ d <= b[k].exit
    <3> TAKE d \in available, k \in DOMAIN b
    <3>1. d \in Days /\ b[k] \in Split
      BY <2>1
    <3>2. b[k].entry \in Days /\ b[k].exit \in Days
      BY <3>1 DEF Split
    <3>3. QED
      BY <3>1, <3>2, WalkAssumption DEF Days
  <2> DEFINE L == {rows[i] : i \in DOMAIN rows}
             SS == {b[k] : k \in DOMAIN b}
             P(s) == {[day |-> d, held |-> s.to] : d \in available \cap (s.entry .. s.exit)}
             R == UNION {P(s) : s \in SS}
  <2>4. ASSUME NEW x \in L PROVE x \in R
    <3>1. PICK i \in DOMAIN rows : x = rows[i]
      OBVIOUS
    <3>2. PICK k \in DOMAIN b : /\ b[k].entry <= rows[i].day /\ rows[i].day <= b[k].exit
                                /\ rows[i].held = b[k].to
      BY <2>1 DEF CurveOf, RowsInSegments
    <3>3. rows[i].day \in available \cap (b[k].entry .. b[k].exit)
      BY <2>1, <2>3, <3>2 DEF CurveOf, RowsInSegments
    <3>4. x \in P(b[k])
      BY <2>2, <3>1, <3>2, <3>3
    <3>5. QED
      BY <3>4
  <2>5. ASSUME NEW x \in R PROVE x \in L
    <3>1. PICK k \in DOMAIN b : x \in P(b[k])
      OBVIOUS
    <3>2. PICK d \in available \cap (b[k].entry .. b[k].exit) :
              x = [day |-> d, held |-> b[k].to]
      BY <3>1
    <3>3. PICK i \in DOMAIN rows : rows[i].day = d /\ rows[i].held = b[k].to
      BY <2>1, <2>3, <3>2 DEF CurveOf, SegmentsInRows
    <3>4. QED
      BY <2>2, <3>2, <3>3
  <2>6. L = R
    BY <2>4, <2>5
  <2>7. QED
    BY <2>1, <2>6 DEF CurveIsTheBook, CurveOf, Ascending
<1>2. QED
  BY <1>1, CurveInvariant, PTL

-----------------------------------------------------------------------------
(* What is published *)

\* t begins with the rows of s.
Begins(s, t) == Len(s) <= Len(t) /\ \A i \in 1 .. Len(s) : s[i] = t[i]

\* Beginning with the same rows is being a prefix.
LEMMA BeginsIsPrefix ==
    ASSUME NEW s \in Seq(Row), NEW t \in Seq(Row)
    PROVE  IsPrefix(s, t) <=> Begins(s, t)
<1>1. Len(s) \in Nat /\ Len(t) \in Nat /\ SubSeq(s, 1, Len(s)) = s
  OBVIOUS
<1>2. Len(s) <= Len(t) =>
        (SubSeq(s, 1, Len(s)) = SubSeq(t, 1, Len(s)) <=> \A i \in 1 .. Len(s) : s[i] = t[i])
  <2> SUFFICES ASSUME Len(s) <= Len(t)
               PROVE  s = SubSeq(t, 1, Len(s)) <=> \A i \in 1 .. Len(s) : s[i] = t[i]
    BY <1>1
  <2> DEFINE u == SubSeq(t, 1, Len(s))
  <2>1. u \in Seq(Row) /\ Len(u) = Len(s) /\ \A i \in 1 .. Len(s) : u[i] = t[i]
    BY <1>1
  <2> HIDE DEF u
  <2>2. s = u <=> \A i \in 1 .. Len(s) : s[i] = u[i]
    BY <1>1, <2>1
  <2>3. QED
    BY <2>1, <2>2 DEF u
<1>3. QED
  BY <1>2 DEF IsPrefix, Begins

\* What was published begins the curve of the checkpoint.
PublishedInv == Begins(result, file.equity)

\* Rows are only appended, and publishing takes all of them.
LEMMA PublishedStep ==
    ASSUME TypeInv, TypeInv', WalkInv, CurveInv, PublishedInv, [Next]_vars
    PROVE  PublishedInv' /\ (IsPrefix(result, result') \/ result' = result)
<1>0. /\ result \in Seq(Row) /\ file.equity \in Seq(Row)
      /\ result' \in Seq(Row) /\ file'.equity \in Seq(Row)
  BY DEF TypeInv, TypeOK, State
<1>1. ASSUME UNCHANGED <<result, file>>
      PROVE  PublishedInv' /\ (IsPrefix(result, result') \/ result' = result)
  BY <1>1 DEF PublishedInv
<1>2. ASSUME NEW d \in Days, Complete(d)
      PROVE  PublishedInv' /\ (IsPrefix(result, result') \/ result' = result)
  <2>1. Priced(file'.equity, file.equity, snapshot, Segment(d)) /\ result' = result
    BY <1>2, CurveExtends DEF Complete
  <2>2. /\ Len(file.equity) <= Len(file'.equity)
        /\ \A i \in 1 .. Len(file.equity) : file'.equity[i] = file.equity[i]
    BY <2>1 DEF Priced
  <2>3. /\ Len(result) \in Nat /\ Len(file.equity) \in Nat /\ Len(file'.equity) \in Nat
    BY <1>0
  <2>4. Begins(result, file'.equity)
    BY <2>2, <2>3 DEF PublishedInv, Begins
  <2>5. QED
    BY <2>1, <2>4 DEF PublishedInv
<1>3. CASE Publish
  <2>1. file' = file /\ state = file
    BY <1>3 DEF Publish, WalkInv, Walking
  <2>2. CASE state.equity = <<>>
    BY <1>1, <1>3, <2>1, <2>2 DEF Publish
  <2>3. CASE state.equity # <<>>
    <3>1. result' = file.equity
      BY <1>3, <2>1, <2>3 DEF Publish
    <3>2. IsPrefix(result, result')
      BY <1>0, <3>1, BeginsIsPrefix DEF PublishedInv
    <3>3. PublishedInv'
      BY <1>0, <2>1, <3>1 DEF PublishedInv, Begins
    <3>4. QED
      BY <3>2, <3>3
  <2>4. QED
    BY <2>2, <2>3
<1>4. ASSUME NEW d \in Days, Skip(d) \/ Research(d)
      PROVE  PublishedInv' /\ (IsPrefix(result, result') \/ result' = result)
  BY <1>1, <1>4 DEF Skip, Research
<1>5. CASE Start \/ Stop \/ Grow \/ UNCHANGED vars
  BY <1>1, <1>5 DEF Start, Stop, Grow, vars
<1>6. QED
  BY <1>2, <1>3, <1>4, <1>5 DEF Next, Step

\* What a resumed or repeated walk publishes extends what was published before,
\* for every calendar whose keys come in blocks.
THEOREM PublishedGrows == ASSUME KeysInBlocks PROVE Spec => PublishedOnlyGrows
<1>1. Init => PublishedInv
  BY DEF Init, NoState, PublishedInv, Begins
<1>2. TypeInv /\ WalkInv /\ CurveInv /\ TypeInv' /\ PublishedInv /\ [Next]_vars => PublishedInv'
  BY PublishedStep
<1>3. TypeInv /\ WalkInv /\ CurveInv /\ TypeInv' /\ PublishedInv /\ [Next]_vars
          => [IsPrefix(result, result')]_result
  BY PublishedStep
<1>4. QED
  BY <1>1, <1>2, <1>3, CurveInvariant, PTL DEF Spec, PublishedOnlyGrows

-----------------------------------------------------------------------------
(* No session is left out *)

\* A delay of one session, or none, skips no session.
LEMMA NoDelay == ASSUME config \in Configs, config.delay <= 1 PROVE DelayBars = 0
<1>1. config.delay \in Nat
  BY WalkAssumption
<1>2. {0, config.delay - 1} = {0, -1} \/ {0, config.delay - 1} = {0}
  BY <1>1
<1>3. Max({0, -1}) = 0 /\ Max({0}) = 0
  BY DEF Max
<1>4. QED
  BY <1>2, <1>3 DEF DelayBars

\* With next-session execution the entry of a decision is the next session.
LEMMA EntryIsNext ==
    ASSUME config \in Configs, config.delay <= 1, NEW s \in SUBSET Days, NEW asOf \in Days,
           NEW e, EntryIn(s, asOf, e)
    PROVE  \A x \in s : asOf < x => e <= x
<1>1. DelayBars = 0
  BY NoDelay
<1> DEFINE B == {y \in s : asOf < y /\ y < e}
<1>2. B = {}
  <2>1. IsFiniteSet(B) /\ Cardinality(B) = 0
    BY <1>1, DaysFinite DEF EntryIn
  <2> HIDE DEF B
  <2>2. QED
    BY <2>1, FS_EmptySet
<1>3. QED
  BY <1>2, WalkAssumption DEF EntryIn, Days

\* And a decision with a session after it can trade.
LEMMA NextCanTrade ==
    ASSUME config \in Configs, config.delay <= 1, NEW s \in SUBSET Days, NEW asOf \in Days,
           NEW x \in s, asOf < x
    PROVE  CanTrade(s, asOf)
<1> DEFINE L == {y \in s : asOf < y}  e == Min(L)
<1>1. e \in L /\ \A y \in L : e <= y
  <2>1. L \in SUBSET Days /\ L # {}
    OBVIOUS
  <2> HIDE DEF L
  <2>2. QED
    BY <2>1, LeastDay
<1> HIDE DEF e
<1>2. {y \in s : asOf < y /\ y < e} = {}
  <2> SUFFICES ASSUME NEW y \in s, asOf < y, y < e PROVE FALSE
    OBVIOUS
  <2>1. e <= y /\ e \in Days /\ y \in Days
    BY <1>1
  <2>2. QED
    BY <2>1, WalkAssumption DEF Days
<1>3. DelayBars = 0
  BY NoDelay
<1>4. EntryIn(s, asOf, e)
  BY <1>1, <1>2, <1>3, FS_EmptySet DEF EntryIn
<1>5. \A n \in RebalanceDates(s) : asOf < n => e <= n
  BY <1>1 DEF RebalanceDates
<1>6. QED
  BY <1>1, <1>4, <1>5 DEF CanTrade

\* A segment that does not end with the last session ends with a decision.
LEMMA ExitsOnDecision ==
    ASSUME sessions \subseteq Days, NEW d \in Days, Tradable(d),
           NEW x \in sessions, Max(Segment(d)) < x
    PROVE  Max(Segment(d)) \in RebalanceDates(sessions)
<1> DEFINE next == {n \in RebalanceDates(sessions) : n > d}  m == Max(Segment(d))
<1>1. PICK e \in sessions : IsEntry(d, e) /\ e <= ExitDate(d)
  BY DEF Tradable
<1>2. EntryOf(d) = e
  <2>1. EntryOf(d) \in sessions /\ IsEntry(d, EntryOf(d))
    BY <1>1 DEF EntryOf
  <2>2. QED
    BY <1>1, <2>1, EntryInSessions, EntryUnique
<1>3. Segment(d) = {y \in sessions : e <= y /\ y <= ExitDate(d)}
  BY <1>2 DEF Segment
<1>4. e \in Segment(d) /\ Segment(d) \in SUBSET Days
  <2>1. e <= e
    BY WalkAssumption DEF Days
  <2>2. QED
    BY <1>1, <1>3, <2>1
<1>5. m \in Segment(d) /\ \A y \in Segment(d) : y <= m
  BY <1>4, GreatestDay
<1>6. ExitDate(d) \in Days
  BY ExitIsNext
<1>7. m \in Days /\ x \in Days /\ e \in Days /\ e <= m /\ m < x
  BY <1>3, <1>5
<1> HIDE DEF m
<1>8. ExitDate(d) < x
  <2>1. SUFFICES ASSUME x <= ExitDate(d) PROVE FALSE
    BY <1>6, <1>7, WalkAssumption DEF Days
  <2>2. e <= x
    BY <1>7, WalkAssumption DEF Days
  <2>3. x <= m
    BY <1>3, <1>5, <2>1, <2>2
  <2>4. QED
    BY <1>7, <2>3, WalkAssumption DEF Days
<1>9. next # {}
  <2>1. next = {} => ExitDate(d) = NumDays
    BY DEF ExitDate
  <2> HIDE DEF next
  <2>2. QED
    BY <1>7, <1>8, <2>1, WalkAssumption DEF Days
<1>10. ExitDate(d) \in next
  <2>1. next \in SUBSET Days
    BY DEF RebalanceDates
  <2>2. ExitDate(d) = Min(next)
    BY <1>9 DEF ExitDate
  <2> HIDE DEF next
  <2>3. QED
    BY <1>9, <2>1, <2>2, LeastDay
<1>11. ExitDate(d) \in Segment(d)
  <2>1. ExitDate(d) \in sessions
    BY <1>10 DEF RebalanceDates
  <2>2. ExitDate(d) <= ExitDate(d)
    BY <1>6, WalkAssumption DEF Days
  <2>3. QED
    BY <1>1, <1>3, <2>1, <2>2
<1>12. m = ExitDate(d)
  <2>1. ExitDate(d) <= m /\ m <= ExitDate(d)
    BY <1>3, <1>5, <1>11
  <2>2. QED
    BY <1>6, <1>7, <2>1, WalkAssumption DEF Days
<1>13. QED
  BY <1>10, <1>12 DEF m

\* No decision is later than the last one recorded.
LatestLast(b) == \A k \in DOMAIN b : b[k].asOf <= b[Len(b)].asOf

\* The curve has every session up to the end of the last segment, which is the
\* last session or a decision.
Covered(b, rows, a) ==
    b # <<>> =>
        /\ rows # <<>>
        /\ \A x \in a : rows[1].day <= x /\ x <= b[Len(b)].exit =>
                            \E i \in DOMAIN rows : rows[i].day = x
        /\ \A x \in a : b[Len(b)].exit < x => b[Len(b)].exit \in RebalanceDates(a)

\* The equation of EverySessionPriced.
Whole == {result[i].day : i \in DOMAIN result} = {d \in available : result[1].day <= d}

\* With next-session execution, and data that has not grown under the walk,
\* the checkpoint has no hole, nor has what was published.
NoHoleInv ==
    /\ LatestLast(file.splits)
    /\ config.delay <= 1 /\ ~grew =>
          /\ pc # "down" => sessions = available
          /\ Covered(file.splits, file.equity, available)
          /\ result # <<>> => Whole

\* A decision that is not done ends the last segment, if later sessions exist.
LEMMA NothingPassedOver ==
    ASSUME WalkInv, TypeInv, LatestLast(file.splits), config.delay <= 1, pc # "down",
           Covered(file.splits, file.equity, sessions), file.splits # <<>>,
           NEW x \in sessions, file.splits[Len(file.splits)].exit < x
    PROVE  file.splits[Len(file.splits)].exit \in todo
<1> DEFINE b == file.splits  l == b[Len(b)]
<1>1. /\ Walking /\ sessions \in SUBSET Days /\ config \in Configs /\ b \in Seq(Split)
  BY DEF WalkInv, TypeInv, TypeOK, State
<1>2. l.exit \in RebalanceDates(sessions)
  BY DEF Covered
<1>3. l.asOf < l.exit
  BY <1>1 DEF Walking, Frontier
<1>4. Len(b) \in DOMAIN b /\ l \in Split
  BY <1>1
<1>5. l.exit \in Days /\ l.asOf \in Days
  BY <1>4 DEF Split
<1>6. ~DoneIn(b, l.exit)
  <2> SUFFICES ASSUME NEW k \in DOMAIN b, b[k].asOf = l.exit PROVE FALSE
    BY DEF DoneIn
  <2>1. l.exit <= l.asOf
    BY DEF LatestLast
  <2> HIDE DEF l
  <2>2. QED
    BY <1>3, <1>5, <2>1, WalkAssumption DEF Days
<1>7. CanTrade(sessions, l.exit)
  BY <1>1, <1>5, NextCanTrade
<1>8. QED
  BY <1>1, <1>2, <1>6, <1>7 DEF Walking

\* The last split has the latest decision.
LEMMA LatestLastStep ==
    ASSUME WalkInv, LatestLast(file.splits), [Next]_vars
    PROVE  LatestLast(file.splits)'
<1>1. ASSUME NEW d \in Days, Complete(d) PROVE LatestLast(file.splits)'
  <2> DEFINE b == file.splits  c == file'.splits  s == NewSplit(d)
  <2>1. /\ c = Append(b, s) /\ c \in Seq(Split) /\ b \in Seq(Split) /\ c[Len(c)] = s
        /\ s \in Split /\ Promise!Follows(s)
    BY <1>1, BookGrows, NewSplitFollows DEF WalkInv, Kinds
  <2>2. /\ DOMAIN c = DOMAIN b \cup {Len(b) + 1} /\ c[Len(b) + 1] = s
        /\ \A k \in DOMAIN b : c[k] = b[k] /\ c[k] \in Split
    BY <2>1
  <2>3. b # <<>> => b[Len(b)].asOf < s.asOf /\ b[Len(b)] \in Split
    BY <2>1 DEF Promise!Follows, Promise!Latest
  <2>4. \A k \in DOMAIN b : b # <<>> /\ b[k].asOf <= b[Len(b)].asOf
    BY <2>1 DEF LatestLast
  <2> HIDE DEF b, c, s
  <2>5. ASSUME NEW k \in DOMAIN c PROVE c[k].asOf <= s.asOf
    <3>1. CASE k \in DOMAIN b
      <4>1. /\ b[k].asOf <= b[Len(b)].asOf /\ b[Len(b)].asOf < s.asOf /\ c[k] = b[k]
            /\ b[k] \in Split /\ b[Len(b)] \in Split
        BY <2>2, <2>3, <2>4, <3>1
      <4>2. b[k].asOf \in Days /\ b[Len(b)].asOf \in Days /\ s.asOf \in Days
        BY <2>1, <4>1 DEF Split
      <4>3. QED
        BY <4>1, <4>2, WalkAssumption DEF Days
    <3>2. CASE k = Len(b) + 1
      <4>1. s.asOf \in Days /\ c[k] = s
        BY <2>1, <2>2, <3>2 DEF Split
      <4>2. QED
        BY <4>1, WalkAssumption DEF Days
    <3>3. QED
      BY <2>2, <3>1, <3>2
  <2>6. LatestLast(c)
    BY <2>1, <2>5 DEF LatestLast
  <2>7. QED
    BY <2>6 DEF LatestLast, c
<1>2. ASSUME file' = file PROVE LatestLast(file.splits)'
  BY <1>2 DEF LatestLast
<1>3. ASSUME NEW d \in Days, Skip(d) \/ Research(d) PROVE file' = file
  BY <1>3 DEF Skip, Research
<1>4. CASE Start \/ Publish \/ Stop \/ Grow \/ UNCHANGED vars
  BY <1>2, <1>4 DEF Start, Publish, Stop, Grow, vars
<1>5. QED
  BY <1>1, <1>2, <1>3, <1>4 DEF Next, Step

\* A completed split continues the curve without a hole.
LEMMA CoveredCompletes ==
    ASSUME WalkInv, TypeInv, CurveInv, CurveInv', LatestLast(file.splits), config.delay <= 1,
           Covered(file.splits, file.equity, available), sessions = available,
           NEW d \in Days, Complete(d)
    PROVE  Covered(file'.splits, file'.equity, available)
<1> DEFINE b == file.splits  rows == file.equity  c == file'.splits  r == file'.equity
           s == NewSplit(d)  n == Len(rows)  S == Segment(d)  l == b[Len(b)]
<1>1. /\ Priced(r, rows, snapshot, S) /\ rows \in Seq(Row) /\ r \in Seq(Row)
      /\ b # <<>> => l.exit < s.entry
      /\ b = <<>> => rows = <<>>
  BY CurveExtends DEF Priced
<1>2. /\ c[Len(c)] = s /\ b \in Seq(Split) /\ s \in Split
      /\ \A x \in RebalanceDates(sessions) : d < x => s.exit <= x
  BY BookGrows, NewSplitFollows DEF WalkInv, Kinds
<1>3. /\ S \in SUBSET Days /\ s.exit \in available
      /\ S = {x \in available : s.entry <= x /\ x <= s.exit}
      /\ available \subseteq Days /\ s.entry <= s.exit /\ s.entry \in Days /\ s.exit \in Days
      /\ s.entry = EntryOf(d) /\ s.exit = Max(S)
  BY <1>2, SegmentIs, NewSplitFollows DEF WalkInv, Kinds, Split, NewSplit
<1>4. /\ pc = "trade" /\ d \in todo /\ (\A e \in todo : d <= e) /\ Tradable(d)
      /\ config \in Configs /\ todo \subseteq Days
  BY DEF Complete, WalkInv, Trading, TypeInv, TypeOK
<1>5. Covered(b, rows, available) /\ (b # <<>> => rows # <<>>)
  BY DEF Covered
<1>6. /\ \A x \in S : \E i \in DOMAIN r : r[i].day = x /\ i > n
      /\ \A i \in DOMAIN rows : i \in DOMAIN r /\ r[i] = rows[i]
      /\ \A i \in DOMAIN r : i > n => r[i].day \in S
  <2>1. /\ DOMAIN rows = 1 .. n /\ n \in Nat /\ Len(r) \in Nat /\ n <= Len(r)
        /\ DOMAIN r = 1 .. Len(r)
        /\ \A i \in 1 .. n : r[i] = rows[i]
        /\ \A i \in n + 1 .. Len(r) : r[i].day \in S
        /\ \A x \in S : \E i \in n + 1 .. Len(r) : r[i].day = x
    BY <1>1 DEF Priced
  <2> HIDE DEF rows, r, S, n
  <2>2. \A i \in n + 1 .. Len(r) : i \in DOMAIN r /\ i > n
    BY <2>1
  <2>3. \A i \in DOMAIN r : i > n => i \in n + 1 .. Len(r)
    BY <2>1
  <2>4. \A i \in DOMAIN rows : i \in DOMAIN r
    BY <2>1
  <2>5. QED
    BY <2>1, <2>2, <2>3, <2>4
<1>7. Ascending(r)
  BY DEF CurveInv, CurveOf
<1>8. \E i \in DOMAIN r : r[i].day = s.exit /\ i > n
  <2>1. s.exit \in S
    <3>1. s.exit <= s.exit
      BY <1>3, WalkAssumption DEF Days
    <3>2. QED
      BY <1>3, <3>1
  <2>2. QED
    BY <1>6, <2>1
\* The new segment begins with the first session after the last one.
<1>9. b # <<>> => \A x \in available : l.exit < x => s.entry <= x
  <2> SUFFICES ASSUME b # <<>>, NEW x \in available, l.exit < x PROVE s.entry <= x
    OBVIOUS
  <2>1. l.exit \in todo
    BY <1>4, NothingPassedOver
  <2>2. l.exit = d
    <3>1. l.exit <= d
      <4>1. d \in RebalanceDates(sessions) /\ Frontier(b, sessions)
        BY <1>4 DEF WalkInv, Walking
      <4>2. l.asOf < d
        BY <1>2, <1>4, NewSplitFollows DEF Promise!Follows, Promise!Latest, NewSplit
      <4>3. QED
        BY <4>1, <4>2 DEF Frontier
    <3>2. d <= l.exit /\ l.exit \in Days
      BY <1>4, <2>1
    <3> HIDE DEF l
    <3>3. QED
      BY <3>1, <3>2, WalkAssumption DEF Days
  <2>3. EntryIn(sessions, d, EntryOf(d))
    <3>1. \E e \in sessions : IsEntry(d, e)
      BY <1>4 DEF Tradable
    <3>2. IsEntry(d, EntryOf(d))
      BY <3>1 DEF EntryOf
    <3>3. QED
      BY <1>3, <3>2, EntryInSessions
  <2>4. EntryOf(d) <= x
    BY <1>3, <1>4, <2>2, <2>3, EntryIsNext
  <2>5. QED
    BY <1>3, <2>4
<1>10. \A x \in available : s.exit < x => s.exit \in RebalanceDates(available)
  BY <1>3, <1>4, ExitsOnDecision
<1>11. \A i \in DOMAIN rows : rows[i] \in Row
  BY <1>1
<1>12. b # <<>> => l \in Split
  BY <1>2
<1> HIDE DEF b, rows, c, r, s, n, S, l
<1>13. r # <<>> /\ 1 \in DOMAIN r
  BY <1>1, <1>8
<1>14. ASSUME NEW x \in available, r[1].day <= x, x <= s.exit
       PROVE  \E i \in DOMAIN r : r[i].day = x
  <2>1. CASE x \in S
    BY <1>6, <2>1
  <2>2. CASE x \notin S
    <3>1. x < s.entry
      BY <1>3, <1>14, <2>2, WalkAssumption DEF Days
    <3>2. rows # <<>>
      <4> SUFFICES ASSUME rows = <<>> PROVE FALSE
        OBVIOUS
      <4>1. r[1].day \in S
        BY <1>6, <1>13 DEF n
      <4>2. QED
        BY <1>3, <1>14, <3>1, <4>1, WalkAssumption DEF Days
    <3>3. b # <<>> /\ 1 \in DOMAIN rows
      BY <1>1, <3>2
    <3>4. r[1] = rows[1]
      BY <1>6, <3>3
    <3>5. x <= l.exit
      <4>1. l.exit \in Days
        BY <1>12, <3>3 DEF Split
      <4>2. ~ (s.entry <= x)
        BY <1>3, <3>1, WalkAssumption DEF Days
      <4>3. ~ (l.exit < x)
        BY <1>9, <3>3, <4>2
      <4>4. QED
        BY <1>3, <4>1, <4>3, WalkAssumption DEF Days
    <3>6. PICK i \in DOMAIN rows : rows[i].day = x
      BY <1>5, <1>14, <3>3, <3>4, <3>5 DEF Covered, l
    <3>7. QED
      BY <1>6, <3>6
  <2>3. QED
    BY <2>1, <2>2
<1>15. Covered(c, r, available)
  BY <1>2, <1>10, <1>13, <1>14 DEF Covered
<1>16. QED
  BY <1>15 DEF c, r

\* A walk that has visited every decision has priced every session.
LEMMA WholeWhenDone ==
    ASSUME WalkInv, TypeInv, CurveInv, LatestLast(file.splits), config.delay <= 1,
           Covered(file.splits, file.equity, available), sessions = available,
           pc # "down", todo = {}, file.equity # <<>>
    PROVE  {file.equity[i].day : i \in DOMAIN file.equity}
               = {d \in available : file.equity[1].day <= d}
<1> DEFINE b == file.splits  rows == file.equity  l == b[Len(b)]
<1>1. /\ rows \in Seq(Row) /\ b \in Seq(Split) /\ available \subseteq Days
      /\ CurveOf(b, rows, available)
  BY DEF CurveInv, TypeInv, TypeOK, State
<1>2. b # <<>>
  <2> SUFFICES ASSUME b = <<>> PROVE FALSE
    OBVIOUS
  <2>1. 1 \in DOMAIN rows
    BY <1>1
  <2>2. PICK k \in DOMAIN b : rows[1].held = b[k].to
    BY <1>1, <2>1 DEF CurveOf, RowsInSegments
  <2>3. QED
    BY <2>2
<1>3. \A x \in available : ~ (l.exit < x)
  BY <1>2, NothingPassedOver
<1>4. l.exit \in Days
  <2>1. l \in Split
    BY <1>1, <1>2
  <2>2. QED
    BY <2>1 DEF Split
<1>5. \A x \in available : x <= l.exit
  <2> HIDE DEF l
  <2>1. QED
    BY <1>1, <1>3, <1>4, WalkAssumption DEF Days
<1>6. \A x \in available : rows[1].day <= x => \E i \in DOMAIN rows : rows[i].day = x
  BY <1>2, <1>5 DEF Covered
<1>7. \A i \in DOMAIN rows : rows[i].day \in available /\ rows[1].day <= rows[i].day
  <2> TAKE i \in DOMAIN rows
  <2>1. rows[i].day \in available /\ 1 \in DOMAIN rows /\ (i = 1 \/ 1 < i)
    BY <1>1 DEF CurveOf, RowsInSegments
  <2>2. rows[1].day \in available
    BY <1>1, <2>1 DEF CurveOf, RowsInSegments
  <2>3. 1 < i => rows[1].day < rows[i].day
    BY <1>1, <2>1 DEF CurveOf, Ascending
  <2>4. rows[1].day \in Days /\ rows[i].day \in Days
    BY <1>1, <2>1, <2>2
  <2> HIDE DEF rows
  <2>5. rows[1].day <= rows[i].day
    <3>1. CASE i = 1
      BY <2>4, <3>1, WalkAssumption DEF Days
    <3>2. CASE 1 < i
      BY <2>3, <2>4, <3>2, WalkAssumption DEF Days
    <3>3. QED
      BY <2>1, <3>1, <3>2
  <2>6. QED
    BY <2>1, <2>5
<1> HIDE DEF rows
<1>8. QED
  BY <1>6, <1>7 DEF rows

\* No step leaves a session out.
LEMMA NoHoleStep ==
    ASSUME WalkInv, TypeInv, TypeInv', CurveInv, CurveInv', PublishedInv, NoHoleInv, [Next]_vars
    PROVE  NoHoleInv'
<1>1. LatestLast(file.splits)'
  BY LatestLastStep DEF NoHoleInv
<1>2. SUFFICES ASSUME (config.delay <= 1 /\ ~grew)'
               PROVE  /\ (pc # "down" => sessions = available)'
                      /\ Covered(file.splits, file.equity, available)'
                      /\ (result # <<>> => Whole)'
  BY <1>1 DEF NoHoleInv
<1>3. config' = config /\ ~grew
  BY <1>2 DEF Next, Step, Start, Skip, Research, Complete, Publish, Stop, Grow, vars,
              TypeInv, TypeOK
<1>4. /\ config.delay <= 1 /\ LatestLast(file.splits)
      /\ pc # "down" => sessions = available
      /\ Covered(file.splits, file.equity, available)
      /\ result # <<>> => Whole
  BY <1>2, <1>3 DEF NoHoleInv
<1>5. ASSUME UNCHANGED <<file, available>>
      PROVE  Covered(file.splits, file.equity, available)'
  <2>1. RebalanceDates(available)' = RebalanceDates(available)
    BY <1>3, <1>5 DEF RebalanceDates, PeriodKey
  <2>2. QED
    BY <1>4, <1>5, <2>1 DEF Covered
<1>6. ASSUME UNCHANGED <<result, available>>
      PROVE  (result # <<>> => Whole)'
  BY <1>4, <1>6 DEF Whole
<1> USE DEF Whole
<1>7. CASE Start
  BY <1>5, <1>6, <1>7 DEF Start
<1>8. ASSUME NEW d \in Days, Skip(d) \/ Research(d) PROVE NoHoleInv'
  <2>1. /\ pc # "down" /\ UNCHANGED <<sessions, file, result, available>>
    BY <1>8 DEF Skip, Research, Visits
  <2>2. QED
    BY <1>1, <1>4, <1>5, <1>6, <2>1 DEF NoHoleInv
<1>9. ASSUME NEW d \in Days, Complete(d) PROVE NoHoleInv'
  <2>1. /\ pc = "trade" /\ UNCHANGED <<sessions, result, available>>
    BY <1>9 DEF Complete
  <2>2. Covered(file'.splits, file'.equity, available)
    BY <1>4, <1>9, <2>1, CoveredCompletes
  <2>3. RebalanceDates(available)' = RebalanceDates(available)
    BY <1>3, <2>1 DEF RebalanceDates, PeriodKey
  <2>4. Covered(file.splits, file.equity, available)'
    BY <2>1, <2>2, <2>3 DEF Covered
  <2>5. QED
    BY <1>1, <1>4, <1>6, <2>1, <2>4 DEF NoHoleInv
<1>10. CASE Publish
  <2>1. /\ pc = "walk" /\ todo = {} /\ pc' = "down" /\ UNCHANGED <<file, available>>
    BY <1>10 DEF Publish, Exit
  <2>2. state = file
    BY <2>1 DEF WalkInv, Walking
  <2>3. CASE file.equity = <<>>
    BY <1>5, <1>6, <1>10, <2>1, <2>2, <2>3 DEF Publish
  <2>4. CASE file.equity # <<>>
    <3>1. result' = file.equity
      BY <1>10, <2>2, <2>4 DEF Publish
    <3>2. {file.equity[i].day : i \in DOMAIN file.equity}
              = {d \in available : file.equity[1].day <= d}
      BY <1>4, <2>1, <2>4, WholeWhenDone
    <3>3. QED
      BY <1>5, <2>1, <3>1, <3>2
  <2>5. QED
    BY <2>3, <2>4
<1>11. CASE Stop
  BY <1>5, <1>6, <1>11 DEF Stop, Exit
\* Data that grows under a checkpoint or a process is told apart by grew.
<1>12. CASE Grow
  <2>1. /\ file = NoState /\ pc = "down" /\ UNCHANGED <<pc, file, result>>
    BY <1>2, <1>12 DEF Grow, TypeInv, TypeOK
  <2>2. result = <<>>
    <3>1. result \in Seq(Row) /\ Len(result) <= 0
      BY <2>1 DEF PublishedInv, Begins, NoState, TypeInv, TypeOK
    <3>2. QED
      BY <3>1
  <2>3. QED
    BY <2>1, <2>2 DEF Covered, NoState
<1>13. CASE UNCHANGED vars
  BY <1>4, <1>5, <1>6, <1>13 DEF vars, memVars
<1>14. QED
  BY <1>2, <1>7, <1>8, <1>9, <1>10, <1>11, <1>12, <1>13 DEF Next, Step, NoHoleInv

\* A published curve has no hole, for every calendar whose keys come in blocks,
\* however often the walk was interrupted (run_walkforward).
THEOREM NoHole == ASSUME KeysInBlocks PROVE Spec => []EverySessionPriced
<1>1. Init => PublishedInv /\ NoHoleInv
  BY DEF Init, NoState, PublishedInv, Begins, NoHoleInv, LatestLast, Covered
<1>2. TypeInv /\ WalkInv /\ CurveInv /\ PublishedInv /\ NoHoleInv /\ [Next]_vars
          /\ TypeInv' /\ CurveInv' => PublishedInv' /\ NoHoleInv'
  BY PublishedStep, NoHoleStep
<1>3. NoHoleInv => EverySessionPriced
  BY DEF NoHoleInv, EverySessionPriced, Whole
<1>4. QED
  BY <1>1, <1>2, <1>3, CurveInvariant, PTL DEF Spec
=============================================================================
