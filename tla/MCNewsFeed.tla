----------------------------- MODULE MCNewsFeed -----------------------------
(***************************************************************************)
(* An instance of NewsFeed for TLC.                                        *)
(***************************************************************************)
EXTENDS NewsFeed

CONSTANTS r1, r2

\* 1 and 2 tell one story on day 2, before and after the decision time; 3 is
\* of day 1; 4 is of day 2 and has no title; 5 is of day 2 after the decision
\* time and is exported too.
PubOf     == <<4, 5, 2, 4, 5>>
ClusterOf == <<"s", "s", "t", "u", "v">>
TitleOf   == <<"s", "s2", "t", "u", "v">>
NamesOf   == <<{}, {"NV"}, {}, {}, {"NV"}>>
TheTicker == <<"NV">>
ChipLabel == [t \in {"NV"} |-> "chips"]
TheLabel  == <<"chips">>
NoThemes  == <<>>
Found     == [l \in {"NV", "chips"} |-> IF l = "NV" THEN {1, 2, 4, 5} ELSE {1, 3}]
=============================================================================
