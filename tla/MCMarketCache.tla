---------------------------- MODULE MCMarketCache ---------------------------
(***************************************************************************)
(* An instance of MarketCache for TLC.                                     *)
(***************************************************************************)
EXTENDS MarketCache

CONSTANTS p1, p2

TwoTickers == <<"A", "B">>
\* Three sessions; B is listed from day 5.
Listed == [t \in {"A", "B"} |-> IF t = "A" THEN {1, 3, 5} ELSE {5}]
Early == [from |-> 1, to |-> 1]
Long  == [from |-> 1, to |-> 5]
Asked == {Early, Long}
=============================================================================
