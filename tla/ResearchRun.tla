---------------------------- MODULE ResearchRun -----------------------------
(***************************************************************************)
(* Research runs and the evaluation of what they froze: run_research       *)
(* (research_runtime.py), the repository and the future-data gate, the     *)
(* snapshot store and `evaluate snapshot`.  Runs and evaluations are       *)
(* processes that share the data directory and the market source; a        *)
(* process can die at every step, and leave the file it writes torn.       *)
(*                                                                         *)
(* What happens to the news is module NewsFeed, how a portfolio is decided *)
(* module Decisions: here news are there or not and a book is chosen.      *)
(***************************************************************************)
EXTENDS Backtest

CONSTANTS
    Runs, Evals,
    RunTickers,         \* the tickers whose bars a run fetches
    Books,              \* portfolios a run may decide for: [ticker -> weight]
    AsOfs,              \* as-of dates that may be asked for
    BackSessions,       \* sessions held back when none is
    FirstDay, MaxDay,   \* the source has bars to FirstDay, later to MaxDay
    Seconds,            \* the seconds at which runs may start
    WithBacktest        \* SUBSET BOOLEAN: --no-backtest or not

ASSUME ResearchAssumption ==
    /\ FirstDay \in Nat /\ MaxDay \in Nat /\ MaxDay >= FirstDay
    /\ BackSessions \in Nat \ {0} /\ AsOfs \subseteq 0 .. MaxDay
    /\ WithBacktest \subseteq BOOLEAN

Days == 0 .. MaxDay
Ids == Days \X Seconds     \* run_id: the as-of date and the second of the start

VARIABLES
    today,      \* last day with bars at the source
    run, eval,
    features, snapshots,    \* [id -> file]
    manifests,  \* [id -> file], written by the command around a run
    frozen,     \* snapshots that have been whole on disk
    results     \* backtests and evaluations saved

vars == <<today, run, eval, features, snapshots, manifests, frozen, results>>

Missing == [state |-> "missing"]
Torn == [state |-> "torn"]
Idle == [phase |-> "idle"]

Init ==
    /\ today = FirstDay
    /\ run = [r \in Runs |-> Idle] /\ eval = [e \in Evals |-> Idle]
    /\ features = [i \in Ids |-> Missing] /\ snapshots = [i \in Ids |-> Missing]
    /\ manifests = [i \in Ids |-> Missing]
    /\ frozen = {} /\ results = {}

At(r, phase) == run[r].phase = phase
Goto(r, phase) == run' = [run EXCEPT ![r].phase = phase]
Ended(open) == [phase |-> "ended", open |-> open]
FilesKept == UNCHANGED <<features, snapshots, manifests, frozen, results>>
World == <<today, eval>>

-----------------------------------------------------------------------------
(* run_research *)

\* Without an as-of date the run holds the last sessions back, as many as
\* there are.
DefaultAsOf(days) == Min({d \in days : Cardinality({x \in days : x > d}) < BackSessions})

\* The whole history is fetched first: the future is in memory from here on.
Start(r) ==
    LET days == SessionsOf(RunTickers, 0, today)
    IN  /\ At(r, "idle") /\ days # {}
        /\ \E asOf \in AsOfs \cup {DefaultAsOf(days)}, second \in Seconds,
                backtest \in WithBacktest :
            run' = [run EXCEPT ![r] =
                [phase |-> "read", asOf |-> asOf, id |-> <<asOf, second>>, last |-> today,
                 backtest |-> backtest /\ \E d \in days : d > asOf,
                 seen |-> {}, book |-> NoPortfolio, open |-> FALSE]]
        /\ UNCHANGED World /\ FilesKept

\* Variant of the mutant runs: the window and the bars are not cut at the
\* as-of date.
ReadVisibleUncut(r) ==
    /\ At(r, "read")
    /\ run' = [run EXCEPT ![r].seen = SessionsOf(RunTickers, 0, today), ![r].phase = "features"]
    /\ UNCHANGED World /\ FilesKept

\* The bars the decision sees: clamped before the request, filtered after it.
ReadVisible(r) ==
    /\ At(r, "read")
    /\ run' = [run EXCEPT ![r].seen = {d \in SessionsOf(RunTickers, 0, today) : d <= run[r].asOf},
                          ![r].phase = "features"]
    /\ UNCHANGED World /\ FilesKept

SaveFeatures(r) ==
    /\ At(r, "features") /\ Goto(r, "news")
    /\ features' = [features EXCEPT ![run[r].id] = [state |-> "whole", of |-> r]]
    /\ UNCHANGED World /\ UNCHANGED <<snapshots, manifests, frozen, results>>

\* News was found, and the model provider is built.
GatherNews(r) ==
    /\ At(r, "news")
    /\ run' = [run EXCEPT ![r].phase = "decide", ![r].open = TRUE]
    /\ UNCHANGED World /\ FilesKept

Decide(r) ==
    /\ At(r, "decide")
    /\ \E book \in Books : run' = [run EXCEPT ![r].book = book, ![r].phase = "freeze"]
    /\ UNCHANGED World /\ FilesKept

\* The snapshot hashes the features file as it is on disk now.
SnapshotOf(r) ==
    [state |-> "whole", of |-> r, asOf |-> run[r].asOf, seen |-> run[r].seen,
     book |-> run[r].book, hashed |-> features[run[r].id]]

Freeze(r) ==
    \/ /\ At(r, "freeze") /\ Goto(r, "freezing")
       /\ snapshots' = [snapshots EXCEPT ![run[r].id] = Torn]
       /\ UNCHANGED World /\ UNCHANGED <<features, manifests, frozen, results>>
    \/ /\ At(r, "freezing")
       /\ snapshots' = [snapshots EXCEPT ![run[r].id] = SnapshotOf(r)]
       /\ frozen' = frozen \cup {SnapshotOf(r)}
       /\ Goto(r, IF run[r].backtest THEN "open" ELSE "close")
       /\ UNCHANGED World /\ UNCHANGED <<features, manifests, results>>

\* The gate opens on a whole snapshot of this id, whichever run's it is.
OpenTestWindow(r) ==
    /\ At(r, "open") /\ snapshots[run[r].id].state = "whole"
    /\ Goto(r, "backtest")
    /\ UNCHANGED World /\ FilesKept

\* The first fetched session after the decision.
TestStart(r) == Min({d \in SessionsOf(RunTickers, 0, run[r].last) : d > run[r].asOf})

\* The backtests there can be, a table: TLC computes it once.
Backtests ==
    [x \in {x \in Books \X Days \X Days : x[2] \in SessionsOf(RunTickers, x[2], x[3])} |->
        RunBacktest(x[1], RunTickers, x[2], x[3])]

\* The book of this run on the history fetched at the start.
Backtested(r) ==
    /\ At(r, "backtest") /\ Goto(r, "close")
    /\ results' = results \cup
        {[kind |-> "backtest", of |-> r, asOf |-> run[r].asOf, seen |-> run[r].seen,
          book |-> run[r].book,
          outcome |-> Backtests[<<run[r].book, TestStart(r), run[r].last>>]]}
    /\ UNCHANGED World /\ UNCHANGED <<features, snapshots, manifests, frozen>>

\* The features and the manifest are written in place: a write that is cut off
\* leaves a torn file.
TornOrKept(r) ==
    /\ features' \in {features} \cup
        (IF At(r, "features") THEN {[features EXCEPT ![run[r].id] = Torn]} ELSE {})
    /\ manifests' \in {manifests} \cup
        (IF At(r, "list") THEN {[manifests EXCEPT ![run[r].id] = Torn]} ELSE {})

\* A step fails: no market data or a source that raises, no news, no evidence,
\* a missing key, a spent budget, a source that raises while the candidates are
\* checked, a file that cannot be hashed or written, a snapshot that is not
\* whole when the gate looks, a backtest without prices.
Raise(r) ==
    /\ run[r].phase \notin {"raised", "ended"}
    /\ IF At(r, "idle") \/ ~run[r].open
       THEN run' = [run EXCEPT ![r] = Ended(FALSE)]
       ELSE Goto(r, "raised")
    /\ TornOrKept(r)
    /\ UNCHANGED World /\ UNCHANGED <<snapshots, frozen, results>>

\* Variant of the mutant runs: the provider is closed on success only.
CloseOnSuccess(r) ==
    /\ run[r].phase \in {"close", "raised"}
    /\ run' = [run EXCEPT ![r] = IF At(r, "close") THEN [@ EXCEPT !.phase = "list", !.open = FALSE]
                                ELSE Ended(TRUE)]
    /\ UNCHANGED World /\ FilesKept

\* The provider is closed however the run ends.
Close(r) ==
    /\ run[r].phase \in {"close", "raised"}
    /\ run' = [run EXCEPT ![r] = IF At(r, "close") THEN [@ EXCEPT !.phase = "list", !.open = FALSE]
                                ELSE Ended(FALSE)]
    /\ UNCHANGED World /\ FilesKept

\* The command writes the manifest of a run that returned.
SaveManifest(r) ==
    /\ At(r, "list") /\ run' = [run EXCEPT ![r] = Ended(FALSE)]
    /\ manifests' = [manifests EXCEPT ![run[r].id] =
                        [state |-> "whole", of |-> r, book |-> run[r].book]]
    /\ UNCHANGED World /\ UNCHANGED <<features, snapshots, frozen, results>>

Die(r) ==
    /\ run[r].phase \notin {"idle", "ended"}
    /\ run' = [run EXCEPT ![r] = Ended(FALSE)]
    /\ TornOrKept(r)
    /\ UNCHANGED World /\ UNCHANGED <<snapshots, frozen, results>>

Step(r) ==
    \/ Raise(r)
    \/ ReadVisible(r) \/ SaveFeatures(r) \/ GatherNews(r) \/ Decide(r) \/ Freeze(r)
    \/ OpenTestWindow(r) \/ Backtested(r) \/ Close(r) \/ SaveManifest(r)

-----------------------------------------------------------------------------
(* evaluate snapshot *)

EvalKept == UNCHANGED <<today, run, features, snapshots, manifests, frozen>>

\* A snapshot is loaded by its id; a torn file does not parse.
Load(e) ==
    /\ eval[e].phase = "idle"
    /\ \E id \in Ids :
        /\ snapshots[id].state # "missing"
        /\ eval' = [eval EXCEPT ![e] = IF snapshots[id].state = "whole"
                                       THEN [phase |-> "loaded", snap |-> snapshots[id]]
                                       ELSE [phase |-> "ended"]]
    /\ EvalKept /\ UNCHANGED results

Evaluations ==
    [x \in Books \X Days \X Days |-> EvaluateSnapshot(x[1], x[2], x[3])]

\* Bars up to a day or to the last there is; what is unfit fails, and so may
\* the source.
Evaluate(e) ==
    /\ eval[e].phase = "loaded"
    /\ \E through \in Days :
        LET snap == eval[e].snap
            outcome == Evaluations[<<snap.book, snap.asOf,
                                     IF through < today THEN through ELSE today>>]
            result == [kind |-> "evaluation", of |-> snap.of, asOf |-> snap.asOf,
                       seen |-> snap.seen, book |-> snap.book, outcome |-> outcome]
        IN  results' \in {results, IF outcome = Unfit THEN results ELSE results \cup {result}}
    /\ eval' = [eval EXCEPT ![e] = [phase |-> "ended"]]
    /\ EvalKept

-----------------------------------------------------------------------------
(* The world *)

NewSession ==
    /\ today < MaxDay /\ today' = today + 1
    /\ UNCHANGED <<run, eval>> /\ FilesKept

Next ==
    \/ \E r \in Runs : Start(r) \/ Step(r) \/ Die(r)
    \/ \E e \in Evals : Load(e) \/ Evaluate(e)
    \/ NewSession

Spec == Init /\ [][Next]_vars

\* The event loop goes on with a started run; nothing makes one start.
FairSpec ==
    Spec /\ \A r \in Runs : WF_run(run[r].phase # "idle" /\ Step(r))

-----------------------------------------------------------------------------
(* Properties *)

Phases == {"idle", "read", "features", "news", "decide", "freeze", "freezing",
           "open", "backtest", "close", "raised", "list", "ended"}

\* Every variable has its type, and a run is open from its provider's
\* construction to its end.
TypeOK ==
    /\ today \in FirstDay .. MaxDay
    /\ \A r \in Runs : run[r].phase \in Phases
    /\ \A r \in Runs : run[r].phase \notin {"idle", "ended"} =>
        run[r].id \in Ids /\ run[r].seen \subseteq Days
    /\ \A r \in Runs : run[r].phase # "idle" =>
        (run[r].open <=> run[r].phase \in
            {"decide", "freeze", "freezing", "open", "backtest", "close", "raised"})
    /\ \A e \in Evals : eval[e].phase \in {"idle", "loaded", "ended"}
    /\ \A i \in Ids : {features[i].state, snapshots[i].state, manifests[i].state}
                        \subseteq {"missing", "torn", "whole"}

\* What is reported of a decision, by a manifest too, was decided first and
\* blindly: its snapshot was whole on disk before, with the same book; it saw
\* no session after its as-of date; and the book was bought after it (the
\* invariants of snapshots/freeze.py, core/gatekeeper.py and evaluation.py).
OutcomesFollowDecisions ==
    /\ \A x \in results :
        /\ \E s \in frozen : s.of = x.of /\ s.asOf = x.asOf /\ s.book = x.book
        /\ \A d \in x.seen : d <= x.asOf
        /\ x.outcome.entry # None => x.outcome.entry > x.asOf
    /\ \A i \in Ids : manifests[i].state = "whole" =>
        \E s \in frozen : s.of = manifests[i].of /\ s.asOf = i[1] /\ s.book = manifests[i].book

\* A run that has started ends, and leaves no model client open.
RunsClose ==
    \A r \in Runs : run[r].phase # "idle" ~> (run[r].phase = "ended" /\ ~run[r].open)
=============================================================================
