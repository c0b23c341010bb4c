--------------------------- MODULE MCResearchRun ----------------------------
(***************************************************************************)
(* An instance of ResearchRun for TLC, and a statement of the repository   *)
(* that the code does not keep.                                            *)
(***************************************************************************)
EXTENDS ResearchRun

CONSTANTS r1, r2, e1

\* Company "a" has no price on day 2; "c" is a candidate of a sector and not
\* among the tickers of a run.
Prices == [spy |-> [d \in 0 .. 4 |-> 100 + d],
           a   |-> [d \in 0 .. 4 |-> <<50, 50, None, 40, 30>>[d + 1]],
           c   |-> [d \in 0 .. 4 |-> 20]]
Fetched == {"spy", "a"}
TwoBooks == [t \in {"a", "c"} |-> 40]
TheBooks == {NoPortfolio, TwoBooks}

\* A position without an entry price is "excluded" (backtest/engine.py:153),
\* and "cash earns cash_return_annual while uninvested" (engine.py:10): what is
\* not bought would stay money.
UnboughtStaysMoney ==
    \A x \in results :
        x.kind = "backtest" => x.outcome.opening = Notional - x.outcome.cost
=============================================================================
