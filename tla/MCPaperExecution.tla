-------------------------- MODULE MCPaperExecution --------------------------
(***************************************************************************)
(* Instances of PaperExecution for TLC, and statements of the repository's *)
(* comments and documentation that the code does not keep.                 *)
(***************************************************************************)
EXTENDS PaperExecution, TLC

CONSTANTS p1, p2, monday, tuesday

OneClient == [p \in Procs |-> 17]

\* Processes with one client id are interchangeable.
Interchangeable == Permutations(Procs)

Flat == [t \in 1 .. 1 |-> 0]
Tilted == <<3, 0>>
Losses == {-6, -5, 0}

\* Weights are percentages, so with an account value of 100 a weight of w is
\* worth w units of money.
BuyOne  == {[asOf |-> monday, weight |-> <<2>>]}
BuyTwo  == {[asOf |-> monday, weight |-> <<2, 1>>]}
Renewed == {[asOf |-> monday, weight |-> <<1>>], [asOf |-> tuesday, weight |-> <<2>>]}

-----------------------------------------------------------------------------
(* Claims of the documentation *)

\* "a restarted process can never duplicate a paper order it already
\* submitted" (execution/ledger.py:5-7).
RestartNeverDuplicates ==
    \A m, n \in DOMAIN orders : m # n => orders[m].key # orders[n].key

\* "If the file exists, no new orders - period." (execution/kill_switch.py:1).
NoOrderWhileEngaged == \A p \in Procs : slips[p] = 0
=============================================================================
