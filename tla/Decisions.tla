------------------------------ MODULE Decisions -----------------------------
(***************************************************************************)
(* From evidence to a portfolio: theses, measured score components, the    *)
(* debate's verdict, ranking, tradability, signals, the strategy builders  *)
(* and the risk limits (research/thesis.py, components.py, validation.py,  *)
(* scoring.py, ranking.py, mapping.py, signals/engine.py,                  *)
(* portfolio/builders.py, portfolio/risk.py), in the order in which        *)
(* run_research, run_demo and run_walkforward compose them.                *)
(*                                                                         *)
(* Agents may answer anything or fail.  Confidences, ranks and volatility  *)
(* are in hundredths; composites, scores and weights in ten thousandths,   *)
(* rounded towards zero.  Tickers are numbers in alphabetical order.       *)
(***************************************************************************)
EXTENDS Integers, Sequences, FiniteSets, SequencesExt

CONSTANTS
    Sectors,                \* sequence of the sectors that have evidence
    CardSets,               \* [sector -> possible sets of its cards]; a card has
                            \* a category, direction, confidence, relevance, names
    SecuritiesOf, EtfsOf,   \* [sector -> sequence of tickers], universe.yaml
    MomentumRank, VolumeRank, Volatility,   \* features, or None
    DollarVolume,
    Views,                  \* [specialist -> what it may answer]
    Opinions,               \* what a debating agent or the judge may answer
    BarHistories,           \* [days, price, traded, gaps] a ticker may have
    Weight, RiskSubtracted, Threshold,      \* scoring.yaml
    MinDays, MinPrice, MinTraded,           \* universe.yaml, tradability
    Strategies, MaxLongs,
    MaxTicker, MaxSector, MaxGross, MaxNet, MaxPositions,
    VolTarget, AllowShorting                \* risk.yaml

One == 10000
None == -1
Absent == [dir |-> "none", conf |-> 0, missing |-> FALSE]
AllTickers == DOMAIN Volatility
Directions == {"positive", "negative", "neutral"}
Answers == [dir : Directions, conf : 0 .. 100, missing : BOOLEAN]
ComponentNames ==
    {"trend_strength", "evidence_quality", "supply_chain_confidence", "market_confirmation",
     "fundamental_confirmation", "valuation_risk", "crowding_risk", "liquidity",
     "macro_alignment", "validation_strength"}
Builders == {"long_basket", "score_weighted", "etf_rotation", "long_short", "momentum",
             "risk_parity", "ensemble", "cash"}

\* A long book has no more lines than half a book has ten thousandths.
ASSUME DecisionAssumption ==
    /\ Threshold \in 0 .. One /\ MaxLongs \in 1 .. One \div 2
    /\ \A x \in {MaxTicker, MaxSector, MaxGross, MaxNet} : x \in 0 .. One
    /\ MaxPositions \in Nat /\ VolTarget \in Nat /\ Strategies \subseteq Builders
    /\ DOMAIN Weight \subseteq ComponentNames /\ \A n \in DOMAIN Weight : Weight[n] \in Int
    /\ FoldFunction(+, 0, Weight) = 100 /\ RiskSubtracted \subseteq DOMAIN Weight

\* The universe, its features, and what agents and evidence may say.
ASSUME UniverseAssumption ==
    /\ AllTickers \subseteq Nat /\ IsFiniteSet(AllTickers)
    /\ \A rank \in {MomentumRank, VolumeRank} : rank \in [AllTickers -> 0 .. 100 \cup {None}]
    /\ \A f \in {Volatility, DollarVolume} : f \in [AllTickers -> Nat \cup {None}]
    /\ Sectors \in Seq(DOMAIN CardSets)
    /\ \A list \in {SecuritiesOf, EtfsOf} : list \in [ToSet(Sectors) -> Seq(AllTickers)]
    /\ \A s \in DOMAIN CardSets : \A cards \in CardSets[s] :
        /\ IsFiniteSet(cards)
        /\ \A c \in cards : c.dir \in Directions /\ c.conf \in 0 .. 100 /\ c.rel \in 0 .. 100
    /\ Views \in [{"macro", "sector", "supply_chain", "valuation"} -> SUBSET Answers]
    /\ Opinions \subseteq Answers

VARIABLES
    stage,
    evidence,   \* [sector -> its cards]
    macro,      \* the macro specialist's argument
    desk,       \* the sector in work: arguments, opinions
    subs,       \* sequence of submissions
    checks,     \* [ticker -> tradable], of the candidates looked at
    signals,    \* the actionable ones; at is a signal's place in their list
    strategy,
    raw, target \* [ticker -> [w, sector]] before and after the risk limits

vars == <<stage, evidence, macro, desk, subs, checks, signals, strategy, raw, target>>

Total(f) == FoldFunction(+, 0, f)
AtLeast(a, b) == IF a > b THEN a ELSE b
AtMost(a, b) == IF a < b THEN a ELSE b
Unit(x) == AtLeast(0, AtMost(100, x))
Abs(x) == IF x < 0 THEN -x ELSE x
Scaled(w, num, den) == IF w < 0 THEN -((-w * num) \div den) ELSE (w * num) \div den

\* The mean of the values of f; None without any.
Mean(f) ==
    IF DOMAIN f = {} THEN None ELSE Total(f) \div Cardinality(DOMAIN f)

Confidence(cards) == [c \in cards |-> c.conf]
Quality(cards) == [c \in cards |-> (c.conf * c.rel) \div 100]

-----------------------------------------------------------------------------
(* Thesis and components *)

ThesisConfidence(cards, argument) ==
    IF argument # Absent THEN Unit(argument.conf) ELSE Unit(AtLeast(0, Mean(Confidence(cards))))

SupplyChain(cards, argument) ==
    LET base == Mean(Confidence({c \in cards : c.cat \in {"supply_bottleneck", "demand_signal"}}))
        view == IF argument.dir # "negative" THEN argument.conf ELSE argument.conf \div 2
    IN  IF argument = Absent THEN base ELSE IF base = None THEN view ELSE (base + view) \div 2

SectorRank(sector, rank) ==
    LET measured == {t \in ToSet(SecuritiesOf[sector]) : rank[t] # None}
    IN  Mean(Restrict(rank, measured))

Crowding(mean) == IF mean = None THEN None ELSE Unit(2 * (mean - 50))

ValuationRisk(argument) ==
    CASE argument = Absent -> None
      [] argument.dir = "negative" -> argument.conf
      [] argument.dir = "positive" -> 100 - argument.conf
      [] argument.dir = "neutral" -> ((100 - argument.conf) \div 2) + 25

MacroAlignment(argument, cards) ==
    LET of == {c \in cards : c.cat = "macro_signal"}
        Signed(c) == CASE c.dir = "positive" -> c.conf [] c.dir = "negative" -> -c.conf
                       [] c.dir = "neutral" -> 0
    IN  CASE argument.dir = "positive" -> argument.conf
          [] argument.dir = "negative" -> 100 - argument.conf
          [] argument.dir = "neutral" -> 50
          [] argument = Absent ->
                IF of = {} THEN None
                ELSE Unit(50 + (Total([c \in of |-> Signed(c)]) \div (2 * Cardinality(of))))

\* No provider has records of past fundamentals: that component is missing.
Components(sector, d, verdictScore) ==
    LET momentum == SectorRank(sector, MomentumRank)
        cards == evidence[sector]
    IN  [trend_strength |-> ThesisConfidence(cards, d.sector),
         evidence_quality |-> Mean(Quality(cards)),
         supply_chain_confidence |-> SupplyChain(cards, d.supply_chain),
         market_confirmation |-> momentum,
         fundamental_confirmation |-> None,
         valuation_risk |-> ValuationRisk(d.valuation),
         crowding_risk |-> Crowding(momentum),
         liquidity |-> SectorRank(sector, VolumeRank),
         macro_alignment |-> MacroAlignment(macro, cards),
         validation_strength |-> verdictScore]

\* Risk components are subtracted, missing ones left out; the rest is
\* renormalised and half the missing weight is the penalty.
Composite(components) ==
    LET present == {n \in DOMAIN Weight : components[n] # None}
        mass == Total([n \in present |-> Weight[n]])
        sum == Total([n \in present |->
                    (IF n \in RiskSubtracted THEN -1 ELSE 1) * Weight[n] * components[n]])
    IN  IF mass <= 0 THEN 0 ELSE AtLeast(0, AtMost(One, (sum * (100 + mass)) \div (2 * mass)))

-----------------------------------------------------------------------------
(* Verdict and ranking *)

IsLeakage(opinion) == opinion.dir = "negative" /\ opinion.conf >= 50

DecideStatus(judge, leakage, missing) ==
    CASE leakage -> "rejected"
      [] ~leakage /\ judge = Absent -> "needs_more_evidence"
      [] ~leakage /\ judge.dir = "negative" -> "rejected"
      [] ~leakage /\ judge.dir \in {"positive", "neutral"} ->
            IF judge.conf < 40 \/ missing THEN "needs_more_evidence"
            ELSE IF judge.dir = "positive" /\ judge.conf >= 60 THEN "approved"
            ELSE "watchlist"

\* Variant of the mutant runs: any score over the threshold is selected.
SelectableByScore(sub) == sub.composite >= Threshold

Selectable(sub) ==
    /\ sub.status = "approved" /\ ~sub.leakage
    /\ sub.composite >= Threshold

SelectedSectors == {subs[i].sector : i \in {j \in DOMAIN subs : Selectable(subs[j])}}

Mapped(sector) == ToSet(SecuritiesOf[sector]) \cup ToSet(EtfsOf[sector])

Tradable(h) ==
    /\ h.days >= MinDays /\ h.days > 0
    /\ h.price >= MinPrice /\ h.traded >= MinTraded /\ ~h.gaps

-----------------------------------------------------------------------------
(* Signals *)

SectorClass(sub) ==
    CASE sub.status = "rejected" -> "avoid"
      [] sub.status # "rejected" /\ Selectable(sub) ->
            IF sub.composite >= 7500 THEN "strong_long" ELSE "moderate_long"
      [] sub.status # "rejected" /\ ~Selectable(sub) -> "neutral"

\* The mean of what is measured of a company; None when nothing is.
CompanyFactor(ticker, cards) ==
    LET own == {c \in cards : ticker \in c.securities}
        parts == <<Mean(Quality(own)), MomentumRank[ticker], VolumeRank[ticker]>>
    IN  Mean(Restrict(parts, {k \in DOMAIN parts : parts[k] # None}))

\* Of a company in several sectors the factor of the last one that measures it
\* counts; 50 without any.
Factor(ticker) ==
    LET of == {i \in DOMAIN subs : ticker \in ToSet(SecuritiesOf[subs[i].sector])}
        f == [i \in of |-> CompanyFactor(ticker, evidence[subs[i].sector])]
        measured == {i \in of : f[i] # None}
        last == CHOOSE i \in measured : \A j \in measured : j <= i
    IN  IF measured = {} THEN 50 ELSE f[last]

\* Securities need a passed check; an ETF must not have failed one.
SecuritySignals(n) ==
    LET sub == subs[n]
        list == SecuritiesOf[sub.sector]
    IN  {[ticker |-> list[k], kind |-> "security", sector |-> sub.sector,
          class |-> SectorClass(sub), at |-> <<n, 1, k>>,
          score |-> (sub.composite * (100 + Factor(list[k]))) \div 200] :
            k \in {k \in DOMAIN list : list[k] \in DOMAIN checks /\ checks[list[k]]}}

EtfSignals(n) ==
    LET sub == subs[n]
        list == EtfsOf[sub.sector]
    IN  {[ticker |-> list[k], kind |-> "etf", sector |-> sub.sector,
          class |-> SectorClass(sub), at |-> <<n, 2, k>>, score |-> sub.composite] :
            k \in {k \in DOMAIN list : list[k] \in DOMAIN checks => checks[list[k]]}}

\* A sector's own signal never is actionable, and nothing else is made for a
\* sector that is not selected.
ActionableSignals ==
    UNION {SecuritySignals(n) \cup EtfSignals(n) : n \in {k \in DOMAIN subs : Selectable(subs[k])}}

-----------------------------------------------------------------------------
(* Strategy builders *)

Earlier(a, b) ==
    \/ a[1] < b[1]
    \/ a[1] = b[1] /\ (a[2] < b[2] \/ (a[2] = b[2] /\ a[3] < b[3]))

\* Best score first, in the order of the list among equals.
Ahead(x, y) == x.score > y.score \/ (x.score = y.score /\ Earlier(x.at, y.at))

\* Variant of the mutant runs: moderate signals are not followed.
LongSignalsStrongOnly(s) ==
    LET long == {x \in s : x.class = "strong_long"}
    IN  {x \in long : Cardinality({y \in long : Ahead(y, x)}) < MaxLongs}

\* Long signals, one per ticker, the first MaxLongs.
LongSignals(s) ==
    LET long == {x \in s : x.class \in {"strong_long", "moderate_long"}}
        first == {x \in long : \A y \in long \ {x} : y.ticker = x.ticker => Ahead(x, y)}
    IN  {x \in first : Cardinality({y \in first : Ahead(y, x)}) < MaxLongs}

Cash == <<>>

\* Weights in proportion to shares; a position of weight 0 is none.
Proportional(longs, share, parts) ==
    LET total == Total(share)
        w == [x \in longs |-> IF total = 0 THEN 0 ELSE (share[x] * One) \div (total * parts)]
        held == {x \in longs : w[x] # 0}
    IN  [t \in {x.ticker : x \in held} |->
            LET x == CHOOSE x \in held : x.ticker = t
            IN  [w |-> w[x], sector |-> x.sector]]

Equal(longs) == [x \in longs |-> 1]
Score(longs) == [x \in longs |-> x.score]
Momentum(longs) == [x \in longs |-> MomentumRank[x.ticker]]
InverseVol(longs) == [x \in longs |-> 1000 \div Volatility[x.ticker]]

LongBasket(s) == Proportional(LongSignals(s), Equal(LongSignals(s)), 1)

ScoreWeighted(s) ==
    LET longs == LongSignals(s)
    IN  IF \A x \in longs : x.score = 0 THEN LongBasket(s)
        ELSE Proportional(longs, Score(longs), 1)

\* The first of the best ETFs.
EtfRotation(s) ==
    LET etfs == {x \in s : x.kind = "etf" /\ x.class \in {"strong_long", "moderate_long"}}
        best == {x \in etfs : \A y \in etfs \ {x} : Ahead(x, y)}
    IN  Proportional(best, Equal(best), 1)

\* Half the book long; shorts would need an actionable signal to avoid.
LongShort(s) ==
    LET shorts == {x \in s : x.class \in {"avoid", "short_candidate"}}
        few == {x \in shorts : Cardinality({y \in shorts : Earlier(y.at, x.at)}) < MaxLongs}
        short == Proportional(few, Equal(few), 2)
        many == LongSignals(s)
        long == Proportional(many, Equal(many), 2)
    IN  [t \in DOMAIN short \cup DOMAIN long |->
            IF t \in DOMAIN short THEN [short[t] EXCEPT !.w = -@] ELSE long[t]]

MomentumWeighted(s) ==
    LET longs == {x \in LongSignals(s) : MomentumRank[x.ticker] # None}
    IN  IF longs # {} /\ \A x \in longs : MomentumRank[x.ticker] = 0
        THEN LongBasket(s) ELSE Proportional(longs, Momentum(longs), 1)

RiskParity(s) ==
    LET longs == {x \in LongSignals(s) : Volatility[x.ticker] > 0}
    IN  Proportional(longs, InverseVol(longs), 1)

\* The mean of four builders over all four, whether a builder held the ticker
\* or went to cash.
Ensemble(s) ==
    LET parts == <<LongBasket(s), ScoreWeighted(s), MomentumWeighted(s), RiskParity(s)>>
        Held(t) == {k \in DOMAIN parts : t \in DOMAIN parts[k]}
        tickers == UNION {DOMAIN parts[k] : k \in DOMAIN parts}
    IN  [t \in tickers |->
            [w |-> Total([k \in Held(t) |-> parts[k][t].w]) \div Len(parts),
             sector |-> parts[CHOOSE k \in Held(t) : TRUE][t].sector]]

BuildStrategy(name, s) ==
    CASE name = "long_basket" -> LongBasket(s)
      [] name = "score_weighted" -> ScoreWeighted(s)
      [] name = "etf_rotation" -> EtfRotation(s)
      [] name = "long_short" -> LongShort(s)
      [] name = "momentum" -> MomentumWeighted(s)
      [] name = "risk_parity" -> RiskParity(s)
      [] name = "ensemble" -> Ensemble(s)
      [] name = "cash" -> Cash

-----------------------------------------------------------------------------
(* Risk limits *)

ScaledBook(p, num, den) == [t \in DOMAIN p |-> [p[t] EXCEPT !.w = Scaled(@, num, den)]]
GrossOf(p) == Total([t \in DOMAIN p |-> Abs(p[t].w)])
NetOf(p) == Total([t \in DOMAIN p |-> p[t].w])
SectorGross(p, sector) == 
    GrossOf(Restrict(p, {t \in DOMAIN p : p[t].sector = sector}))

NoShorts(p) == Restrict(p, {t \in DOMAIN p : AllowShorting \/ p[t].w >= 0})
Liquid(p) ==
    Restrict(p, {t \in DOMAIN p : DollarVolume[t] = None \/ DollarVolume[t] >= MinTraded})

\* The largest weights are kept, in alphabetical order among equals.
Largest(p) ==
    LET Before(t) == {u \in DOMAIN p :
            Abs(p[u].w) > Abs(p[t].w) \/ (Abs(p[u].w) = Abs(p[t].w) /\ u < t)}
    IN  Restrict(p, {t \in DOMAIN p : Cardinality(Before(t)) < MaxPositions})

TickerCapped(p) ==
    [t \in DOMAIN p |-> [p[t] EXCEPT !.w =
        IF Abs(@) > MaxTicker THEN (IF @ < 0 THEN -MaxTicker ELSE MaxTicker) ELSE @]]

SectorCapped(p) ==
    [t \in DOMAIN p |->
        LET gross == SectorGross(p, p[t].sector)
        IN  IF gross > MaxSector THEN [p[t] EXCEPT !.w = Scaled(@, MaxSector, gross)] ELSE p[t]]

GrossCapped(p) == IF GrossOf(p) > MaxGross THEN ScaledBook(p, MaxGross, GrossOf(p)) ELSE p
NetCapped(p) == IF Abs(NetOf(p)) > MaxNet THEN ScaledBook(p, MaxNet, Abs(NetOf(p))) ELSE p

\* The weighted volatility, an upper bound; None if one is unknown.
WeightedVol(p) ==
    IF \E t \in DOMAIN p : Volatility[t] = None THEN None
    ELSE Total([t \in DOMAIN p |-> Abs(p[t].w) * Volatility[t]])

\* External: what the returns show of a ticker, all of it where no feature does.
ReturnVol(t) == IF Volatility[t] = None THEN 100 ELSE Volatility[t]

\* The bound over 21 days, or, with enough returns, the covariance estimate over
\* 63 days, which may be lower or higher.
VolEstimates(p) ==
    LET returns == Total([t \in DOMAIN p |-> Abs(p[t].w) * ReturnVol(t)])
    IN  {WeightedVol(p), returns \div 2, 2 * returns}

\* Variant of the mutant runs: a calm book is scaled up to the target.
AtVolTargetBothWays(p, vol) ==
    IF vol > 0 THEN ScaledBook(p, VolTarget * One, vol) ELSE p

AtVolTarget(p, vol) ==
    IF vol > VolTarget * One THEN ScaledBook(p, VolTarget * One, vol) ELSE p

\* Variant of the mutant runs: the sector cap is left out.
BeforeVolUncapped(p) == NetCapped(GrossCapped(TickerCapped(Largest(Liquid(NoShorts(p))))))

BeforeVol(p) == NetCapped(GrossCapped(SectorCapped(TickerCapped(Largest(Liquid(NoShorts(p)))))))

-----------------------------------------------------------------------------
(* The stages *)

NoDesk == [sector |-> Absent, supply_chain |-> Absent, valuation |-> Absent,
           leakage |-> FALSE, missing |-> FALSE]

Init ==
    /\ stage = "macro" /\ macro = Absent /\ desk = NoDesk /\ subs = <<>>
    /\ evidence \in {e \in [ToSet(Sectors) -> UNION {CardSets[s] : s \in ToSet(Sectors)}] :
                        \A s \in ToSet(Sectors) : e[s] \in CardSets[s]}
    /\ checks = <<>> /\ signals = {} /\ strategy = "none" /\ raw = Cash /\ target = Cash

Sector == Sectors[Len(subs) + 1]

\* The macro specialist, asked when there is macro evidence, answers or fails.
AskMacro ==
    /\ stage = "macro"
    /\ \/ macro' = Absent
       \/ /\ \E s \in ToSet(Sectors) : \E c \in evidence[s] : c.cat = "macro_signal"
          /\ macro' \in Views["macro"]
    /\ stage' = IF Sectors = <<>> THEN "check" ELSE "argue"
    /\ UNCHANGED <<evidence, desk, subs, checks, signals, strategy, raw, target>>

\* The specialists of a sector, each isolated from the failure of another.
Argue ==
    /\ stage = "argue"
    /\ \E s \in Views["sector"] \cup {Absent}, c \in Views["supply_chain"] \cup {Absent},
          v \in Views["valuation"] \cup {Absent} :
        desk' = [NoDesk EXCEPT !.sector = s, !.supply_chain = c, !.valuation = v]
    /\ stage' = "debate"
    /\ UNCHANGED <<evidence, macro, subs, checks, signals, strategy, raw, target>>

\* Bull, bear and leakage; an agent that failed has found nothing.
Debate ==
    /\ stage = "debate"
    /\ \E leakage \in Opinions \cup {Absent}, missing \in BOOLEAN :
        desk' = [desk EXCEPT !.leakage = IsLeakage(leakage), !.missing = missing]
    /\ stage' = "judge"
    /\ UNCHANGED <<evidence, macro, subs, checks, signals, strategy, raw, target>>

\* The judge answers or fails; the sector is scored and submitted.
Judge ==
    /\ stage = "judge"
    /\ \E judge \in Opinions \cup {Absent} :
        LET status == DecideStatus(judge, desk.leakage, desk.missing \/ judge.missing)
        IN  subs' = Append(subs, [sector |-> Sector, status |-> status, leakage |-> desk.leakage,
                                  composite |-> Composite(Components(Sector, desk, judge.conf))])
    /\ desk' = NoDesk
    /\ stage' = IF Len(subs) + 1 = Len(Sectors) THEN "check" ELSE "argue"
    /\ UNCHANGED <<evidence, macro, checks, signals, strategy, raw, target>>

\* The candidates of the selected sectors are checked on their bars.
Check ==
    /\ stage = "check"
    /\ \E h \in [UNION {Mapped(s) : s \in SelectedSectors} -> BarHistories] :
        checks' = [t \in DOMAIN h |-> Tradable(h[t])]
    /\ stage' = "signal"
    /\ UNCHANGED <<evidence, macro, desk, subs, signals, strategy, raw, target>>

BuildSignals ==
    /\ stage = "signal"
    /\ signals' = ActionableSignals
    /\ stage' = "build"
    /\ UNCHANGED <<evidence, macro, desk, subs, checks, strategy, raw, target>>

Build ==
    /\ stage = "build"
    /\ \E name \in Strategies : strategy' = name /\ raw' = BuildStrategy(name, signals)
    /\ stage' = "limit"
    /\ UNCHANGED <<evidence, macro, desk, subs, checks, signals, target>>

ApplyRiskConstraints ==
    /\ stage = "limit"
    /\ \E vol \in VolEstimates(BeforeVol(raw)) : target' = AtVolTarget(BeforeVol(raw), vol)
    /\ stage' = "done"
    /\ UNCHANGED <<evidence, macro, desk, subs, checks, signals, strategy, raw>>

Next ==
    \/ AskMacro \/ Argue \/ Debate \/ Judge \/ Check \/ BuildSignals \/ Build
    \/ ApplyRiskConstraints

Spec == Init /\ [][Next]_vars

-----------------------------------------------------------------------------
(* Properties *)

Statuses == {"approved", "watchlist", "needs_more_evidence", "rejected"}

\* Every variable has its type; composites and weights stay within one.
TypeOK ==
    /\ Len(subs) <= Len(Sectors)
    /\ \A i \in DOMAIN subs : subs[i].status \in Statuses /\ subs[i].composite \in 0 .. One
    /\ DOMAIN checks \subseteq AllTickers
    /\ \A x \in signals : x.score \in 0 .. One
    /\ \A p \in {raw, target} : \A t \in DOMAIN p :
        t \in AllTickers /\ p[t].w \in -One .. One /\ p[t].sector \in ToSet(Sectors)

\* What is held at the end was vetted at every stage: its sector was approved
\* without leakage and reached the threshold, it is mapped to that sector, and
\* its bars passed the tradability check.
OnlyVetted ==
    stage = "done" => \A t \in DOMAIN target :
        /\ t \in DOMAIN checks /\ checks[t]
        /\ \E i \in DOMAIN subs :
            /\ subs[i].sector = target[t].sector /\ t \in Mapped(subs[i].sector)
            /\ subs[i].status = "approved" /\ ~subs[i].leakage
            /\ subs[i].composite >= Threshold

\* No limit of risk.yaml is broken by the limits applied after it, whatever
\* the order of their scalings, and the limits only take away: nothing is
\* bought that the strategy did not want, no weight grows or changes its side.
LimitsHold ==
    stage = "done" =>
        /\ Cardinality(DOMAIN target) <= MaxPositions
        /\ \A t \in DOMAIN target :
            /\ Abs(target[t].w) <= MaxTicker /\ (AllowShorting \/ target[t].w >= 0)
            /\ SectorGross(target, target[t].sector) <= MaxSector
            /\ DollarVolume[t] = None \/ DollarVolume[t] >= MinTraded
        /\ GrossOf(target) <= MaxGross /\ Abs(NetOf(target)) <= MaxNet
        /\ \A t \in DOMAIN target :
            /\ t \in DOMAIN raw
            /\ Abs(target[t].w) <= Abs(raw[t].w) /\ target[t].w * raw[t].w >= 0

\* Cash is never held by accident: when a candidate of a selected sector is
\* tradable, the strategies that only read the signals hold something.
NotSilentlyCash ==
    /\ stage = "limit" /\ (\E t \in DOMAIN checks : checks[t])
    /\ strategy \in {"long_basket", "score_weighted", "long_short", "ensemble"}
    => raw # Cash
=============================================================================
