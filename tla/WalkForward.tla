---------------------------- MODULE WalkForward -----------------------------
(***************************************************************************)
(* `quantctl backtest walk-forward` and `backtest resume`: at every        *)
(* rebalance date the process pays for a research snapshot, rebalances at  *)
(* the next session from the holdings it carries, lets the portfolio drift *)
(* to the next rebalance date, and checkpoints.  It may stop anywhere and  *)
(* be resumed from the checkpoint, by then with more sessions in the data. *)
(*                                                                         *)
(* Days are numbered 1..NumDays, from --start to --end.  A position, a     *)
(* cash balance and an equity value are represented by the snapshot they   *)
(* come from: which numbers a snapshot's targets and prices make is left   *)
(* out, whose targets are held on which day is kept.                       *)
(***************************************************************************)
EXTENDS Integers, Sequences, SequencesExt, FiniteSetsExt

CONSTANTS
    NumDays,
    Year, Month, Week,  \* of each day: calendar year and month, ISO week
    Configs,            \* --rebalance and execution_delay_days of a walk
    Histories,          \* sessions the price data may have at first
    MaxStops            \* bound: times a process dies or raises

Days == 1 .. NumDays

\* Research numbers its runs; the portfolio of a snapshot is its targets'.
Snapshot == [asOf : Days, run : Nat]
Cash == [asOf |-> 0, run |-> 0]
Holding == Snapshot \cup {Cash}

Split == [asOf : Days, entry : Days, exit : Days, from : Holding, to : Snapshot]
Row == [day : Days, held : Snapshot]

\* state.json; its splits, snapshot_ids and split_results are one sequence.
State == [splits : Seq(Split), equity : Seq(Row), holdings : Holding]
NoState == [splits |-> <<>>, equity |-> <<>>, holdings |-> Cash]

ASSUME WalkAssumption ==
    /\ NumDays \in Nat
    /\ \A c \in Configs : c \in [rebalance : {"monthly", "weekly"}, delay : Nat]
    /\ \A s \in Histories : s \subseteq Days
    /\ MaxStops \in Nat

VARIABLES
    config,    \* the walk's configuration
    pc,        \* "down", "walk", or "trade" once research has returned
    sessions,  \* the sessions this process read
    todo,      \* rebalance dates it has still to visit
    snapshot,  \* what research returned
    state,     \* the process's copy of the checkpoint
    file,      \* state.json
    result,    \* the equity curve in result.json, <<>> before the first
    available, \* sessions in the price data
    paid,      \* research runs paid for each date
    stops,
    grew       \* the data has grown since a process first read it

memVars == <<sessions, todo, snapshot, state>>
vars == <<config, pc, memVars, file, result, available, paid, stops, grew>>

-----------------------------------------------------------------------------
(* The calendar *)

PeriodKey(d) ==
    IF config.rebalance = "monthly" THEN <<Year[d], Month[d]>> ELSE <<Year[d], Week[d]>>

\* The last session of each group of sessions with the same key.
RebalanceDates(s) ==
    {d \in s : \A e \in s : PeriodKey(e) = PeriodKey(d) => e <= d}

After(asOf) == {d \in sessions : d > asOf}

DelayBars == Max({0, config.delay - 1})

\* after[delay]; there is none when not more than delay sessions follow.
IsEntry(asOf, d) ==
    d \in After(asOf) /\ Cardinality({e \in After(asOf) : e < d}) = DelayBars

EntryOf(asOf) == CHOOSE d \in sessions : IsEntry(asOf, d)

\* Variant: the segment ends with the session before the next decision.
ExitShort(asOf) ==
    LET next == {d \in RebalanceDates(sessions) : d > asOf}
    IN  IF next = {} THEN NumDays ELSE Min(next) - 1

ExitDate(asOf) ==
    LET next == {d \in RebalanceDates(sessions) : d > asOf}
    IN  IF next = {} THEN NumDays ELSE Min(next)

Tradable(asOf) == \E d \in sessions : IsEntry(asOf, d) /\ d <= ExitDate(asOf)

Done(asOf) == \E k \in DOMAIN state.splits : state.splits[k].asOf = asOf

Segment(asOf) == {d \in sessions : EntryOf(asOf) <= d /\ d <= ExitDate(asOf)}

\* One priced day: a later day is appended, any other replaces the last row.
Price(rows, row) ==
    IF rows = <<>> \/ Last(rows).day < row.day
    THEN Append(rows, row)
    ELSE Append(Front(rows), row)

\* The days of a segment are priced one after the other.
Drift(rows, held, days) ==
    MapThenFoldSet(LAMBDA d, acc : Price(acc, [day |-> d, held |-> held]),
                   rows, LAMBDA d : d, LAMBDA s : Max(s), days)

-----------------------------------------------------------------------------
(* One process *)

\* Variant: the checkpoint's holdings are not read back.
ForgetHoldings == [file EXCEPT !.holdings = Cash]

\* Variant: the checkpoint is not read.
Fresh == NoState

Load == file

\* The process is gone, and its memory with it.
Exit ==
    /\ pc' = "down"
    /\ sessions' = {} /\ todo' = {}
    /\ snapshot' = Cash /\ state' = NoState

\* Fetch prices, load the checkpoint; without a session in the window it raises.
Start ==
    /\ pc = "down"
    /\ available # {}
    /\ pc' = "walk"
    /\ sessions' = available
    /\ todo' = RebalanceDates(available)
    /\ state' = Load
    /\ UNCHANGED <<config, snapshot, file, result, available, paid, stops, grew>>

Visits(d) == pc = "walk" /\ d \in todo /\ \A e \in todo : d <= e

\* The date is in the checkpoint, or its split could not trade.
Skip(d) ==
    /\ Visits(d)
    /\ Done(d) \/ ~Tradable(d)
    /\ todo' = todo \ {d}
    /\ UNCHANGED <<config, pc, sessions, snapshot, state, file, result, available, paid,
                   stops, grew>>

\* research_fn returns a new frozen snapshot.  The prior snapshot the code looks
\* for first is recorded only together with the finished split.
Research(d) ==
    /\ Visits(d)
    /\ ~Done(d) /\ Tradable(d)
    /\ paid' = [paid EXCEPT ![d] = @ + 1]
    /\ snapshot' = [asOf |-> d, run |-> paid[d] + 1]
    /\ pc' = "trade"
    /\ UNCHANGED <<config, sessions, todo, state, file, result, available, stops, grew>>

\* Variant: the split is recorded without its segment.
BookOnly(d) ==
    [splits   |-> Append(state.splits,
                         [asOf |-> d, entry |-> EntryOf(d), exit |-> Max(Segment(d)),
                          from |-> state.holdings, to |-> snapshot]),
     equity   |-> state.equity,
     holdings |-> snapshot]

\* Variant: the drift comes before the rebalance.
DriftFirst(d) ==
    [splits   |-> Append(state.splits,
                         [asOf |-> d, entry |-> EntryOf(d), exit |-> Max(Segment(d)),
                          from |-> state.holdings, to |-> snapshot]),
     equity   |-> Drift(state.equity, state.holdings, Segment(d)),
     holdings |-> snapshot]

\* Delta rebalance from the current holdings, then the drift of the segment.
Book(d) ==
    [splits   |-> Append(state.splits,
                         [asOf |-> d, entry |-> EntryOf(d), exit |-> Max(Segment(d)),
                          from |-> state.holdings, to |-> snapshot]),
     equity   |-> Drift(state.equity, snapshot, Segment(d)),
     holdings |-> snapshot]

\* The split and its checkpoint: state.json is replaced by a rename.
Complete(d) ==
    /\ pc = "trade" /\ d = snapshot.asOf
    /\ state' = Book(d)
    /\ file' = state'
    /\ todo' = todo \ {d}
    /\ pc' = "walk"
    /\ UNCHANGED <<config, sessions, snapshot, result, available, paid, stops, grew>>

\* Metrics, equity.parquet and result.json; a curve without rows raises.
Publish ==
    /\ pc = "walk" /\ todo = {}
    /\ Exit
    /\ result' = IF state.equity = <<>> THEN result ELSE state.equity
    /\ UNCHANGED <<config, file, available, paid, stops, grew>>

\* Killed; or research, verification or the equity check raises.
Stop ==
    /\ pc # "down"
    /\ stops < MaxStops
    /\ Exit
    /\ stops' = stops + 1
    /\ UNCHANGED <<config, file, result, available, paid, grew>>

\* A new session is traded after all that the data has.
Grow ==
    /\ \E d \in Days :
          /\ \A e \in available : e < d
          /\ available' = available \cup {d}
    /\ grew' = (grew \/ file # NoState \/ pc # "down")
    /\ UNCHANGED <<config, pc, memVars, file, result, paid, stops>>

Init ==
    /\ config \in Configs
    /\ pc = "down"
    /\ sessions = {} /\ todo = {} /\ snapshot = Cash
    /\ state = NoState /\ file = NoState
    /\ result = <<>>
    /\ available \in Histories
    /\ paid = [d \in Days |-> 0]
    /\ stops = 0 /\ grew = FALSE

Step == (\E d \in Days : Skip(d) \/ Research(d) \/ Complete(d)) \/ Publish

Next == Start \/ Step \/ Stop \/ Grow

Spec == Init /\ [][Next]_vars

-----------------------------------------------------------------------------
(* Properties *)

\* Every variable holds a value of its kind (backtest/walkforward.py).
TypeOK ==
    /\ config \in Configs
    /\ pc \in {"down", "walk", "trade"}
    /\ sessions \subseteq Days /\ todo \subseteq Days /\ available \subseteq Days
    /\ snapshot \in Holding
    /\ state \in State /\ file \in State
    /\ result \in Seq(Row)
    /\ paid \in [Days -> Nat]
    /\ stops \in Nat /\ grew \in BOOLEAN

\* The checkpoint keeps the promise Walk states: segments in time order, each
\* from the holdings the one before left, none ever lost or rewritten, however
\* often the walk is stopped and resumed (_Checkpointer, run_walkforward).
Promise == INSTANCE Walk WITH book <- file.splits
BookIsKept == Promise!Spec

\* What a resumed or repeated walk publishes extends what was published before
\* (equity.parquet and result.json after a resume).
PublishedOnlyGrows == [][IsPrefix(result, result')]_result

\* The checkpointed curve is the checkpointed segments': every session of a
\* segment has one row, held by that segment's snapshot, and the days ascend,
\* although splits and rows are built apart and restored apart.
CurveIsTheBook ==
    /\ \A i, j \in DOMAIN file.equity : i < j => file.equity[i].day < file.equity[j].day
    /\ {file.equity[i] : i \in DOMAIN file.equity} =
          UNION {{[day |-> d, held |-> s.to] : d \in available \cap (s.entry .. s.exit)} :
                    s \in {file.splits[k] : k \in DOMAIN file.splits}}

\* A published curve has no hole: with next-session execution every session
\* from the first entry to the last session of the data has its row, however
\* the walk was interrupted, unless the data grew meanwhile (exit_date of one
\* split against entry of the next).
EverySessionPriced ==
    (config.delay <= 1 /\ ~grew /\ result # <<>>) =>
        {result[i].day : i \in DOMAIN result} = {d \in available : result[1].day <= d}

\* Research is paid for once per recorded split, and once more for each time
\* the process stopped in between: never for a split that cannot trade, never
\* again for one that is recorded (the feasibility check before research_fn,
\* and `if key in done`).
RepaidOnlyAfterStop ==
    MapThenSumSet(LAMBDA d : paid[d], Days)
        <= Len(file.splits) + stops + (IF pc = "trade" THEN 1 ELSE 0)
=============================================================================
