---------------------------- MODULE MCWalkForward ---------------------------
(***************************************************************************)
(* An instance of WalkForward for TLC, and a statement of the docstring    *)
(* that the code does not keep.                                            *)
(***************************************************************************)
EXTENDS WalkForward

AllConfigs == [rebalance : {"monthly", "weekly"}, delay : {1, 2}]

\* Four weeks of two days or one, in three months of one year.
OneYear     == [d \in 1 .. 7 |-> 2024]
ThreeMonths == <<4, 4, 5, 5, 5, 6, 6>>
Weeks       == <<18, 18, 19, 19, 20, 20, 21>>

\* A complete history, one that ends in the middle of a week, one with holidays.
Starts == {1 .. 7, 1 .. 3, {1, 3, 4, 6}}

\* "a valid persisted snapshot is REUSED, never recomputed/repaid"
\* (walkforward.py:5-6): research runs once for each rebalance date.
SnapshotReused == \A d \in Days : paid[d] <= 1
=============================================================================
