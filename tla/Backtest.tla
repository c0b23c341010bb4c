------------------------------ MODULE Backtest ------------------------------
(***************************************************************************)
(* What became of a frozen portfolio: the single-split backtest of a       *)
(* research run (backtest/engine.py), the evaluation of a snapshot         *)
(* (evaluation.py) and the classification of a failure                     *)
(* (analysis/failure.py).                                                  *)
(*                                                                         *)
(* Days are numbers and a price of a day is a number or None.  Weights are *)
(* in hundredths; every order costs the same; interest, borrow and the     *)
(* remaining metrics are left out.                                         *)
(***************************************************************************)
EXTENDS Integers, FiniteSets, FiniteSetsExt, Functions

CONSTANTS
    Price,              \* [ticker -> [day -> price or None]]
    Benchmark,          \* the benchmark ticker
    Notional,           \* starting money, a multiple of 100
    OrderCost,          \* commission and slippage of an order
    Delay,              \* execution_delay_days
    DrawdownLimit,      \* in hundredths of the peak, 20
    CostLimit           \* in hundredths of the money, 2

ASSUME BacktestAssumption == Delay \in Nat

None == -1
NoPortfolio == <<>>

Priced(t, d) == t \in DOMAIN Price /\ Price[t][d] # None
SessionsOf(tickers, first, last) == {d \in first .. last : \E t \in tickers : Priced(t, d)}

CashWeight(book) == 100 - FoldFunction(+, 0, book)

\* The money on day d of a book bought on day e: what has no price that day
\* counts nothing.
Money(book, bought, cost, e, d) ==
    LET held == {t \in bought : Priced(t, d)}
        Value(t) == ((book[t] * (Notional \div 100)) * Price[t][d]) \div Price[t][e]
    IN  (CashWeight(book) * (Notional \div 100)) - cost
            + FoldFunction(+, 0, [t \in held |-> Value(t)])

\* The deepest fall below an earlier peak, in hundredths of the peak.
MaxDrawdown(money, days) ==
    LET falls == {x \in days \X days : x[1] < x[2] /\ money[x[1]] > 0}
    IN  Min({0} \cup {((money[x[2]] - money[x[1]]) * 100) \div money[x[1]] : x \in falls})

\* The benchmark's growth over a set of days, in hundredths; None without two
\* prices.
Growth(days) ==
    LET priced == {d \in days : Priced(Benchmark, d)}
    IN  IF Cardinality(priced) < 2 THEN None
        ELSE (Price[Benchmark][Max(priced)] * 100) \div Price[Benchmark][Min(priced)]

ClassifyFailure(drawdown, cost, grown, benchmark) ==
    CASE drawdown <= -DrawdownLimit -> "risk_limit"
      [] drawdown > -DrawdownLimit /\ cost * 100 > CostLimit * Notional -> "execution_slippage"
      [] OTHER -> IF benchmark = None THEN "timing_wrong"
                  ELSE IF grown < 100 /\ 100 < benchmark THEN "thesis_wrong"
                  ELSE "benchmark_underperformance"

\* A run's window opens at the first session after the decision; the book is
\* bought Delay days later.  A ticker without a price that day is not bought.
RunBacktest(book, tickers, first, last) ==
    LET sessions == SessionsOf(tickers, first, last)
        candidates == {d \in sessions : d >= first + Delay}
        flat == book = NoPortfolio \/ candidates = {}
        entry == IF flat THEN None ELSE Min(candidates)
        bought == IF flat THEN {} ELSE {t \in DOMAIN book \cap tickers : Priced(t, entry)}
        cost == OrderCost * Cardinality(bought)
        days == {d \in sessions : d >= entry}
        money == [d \in days |-> IF flat THEN Notional ELSE Money(book, bought, cost, entry, d)]
        grown == (money[Max(days)] * 100) \div Notional
        benchmark == Growth(sessions)
    IN  [entry |-> entry, bought |-> bought, cost |-> cost, opening |-> money[Min(days)],
         failure |-> IF grown < (IF benchmark = None THEN 100 ELSE benchmark)
                     THEN ClassifyFailure(MaxDrawdown(money, days), cost, grown, benchmark)
                     ELSE "none"]

\* The evaluation of a snapshot from its as-of date on.  It is bought at the
\* first session from the reported entry on at which every ticker has a price.
Unfit == [entry |-> None]
EvaluateSnapshot(book, asOf, last) ==
    LET sessions == SessionsOf(DOMAIN book \cup {Benchmark}, asOf, last)
        later == {d \in sessions : d > asOf}
        delay == IF Delay > 0 THEN Delay - 1 ELSE 0
        eligible == {d \in later : Cardinality({x \in later : x < d}) >= delay}
        entry == Min(eligible)
        window == {d \in sessions : d >= entry /\ \A t \in DOMAIN book : Priced(t, d)}
        cost == OrderCost * Cardinality(DOMAIN book)
    IN  IF \/ book = NoPortfolio
           \/ \E t \in DOMAIN book : \A d \in sessions : ~Priced(t, d)
           \/ eligible = {}
        THEN Unfit
        ELSE IF Cardinality(window) < 2 THEN Unfit
        ELSE [entry |-> Min(window), reported |-> entry, bought |-> DOMAIN book, cost |-> cost,
              opening |-> Money(book, DOMAIN book, cost, Min(window), Min(window)),
              failure |-> "none"]
=============================================================================
