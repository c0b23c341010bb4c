--------------------------- MODULE PaperExecution ---------------------------
(***************************************************************************)
(* `quantctl paper execute`: CLI processes turn a frozen portfolio target  *)
(* into delta orders, pass each through the pre-trade risk gate, hand it   *)
(* to the IBKR paper account, wait for an outcome and append the order's   *)
(* content key to the persistent ledger.  A process may die at any point   *)
(* and be started again, or lose its connection to TWS and go on; the      *)
(* broker fills, cancels or rejects what it was given whenever it likes; a *)
(* human touches the kill-switch file whenever he likes.                   *)
(*                                                                         *)
(* Money and shares are whole units.  Tickers are 1..NumTickers, in their  *)
(* sorting order; weights are percentages of the account value.            *)
(***************************************************************************)
EXTENDS Integers, Sequences, FiniteSets, Functions

CONSTANTS
    Procs,        \* CLI processes of `paper execute`
    ClientOf,     \* the IBKR client id each process connects with
    NumTickers,
    Targets,      \* frozen targets --snapshot may name: [asOf, weight]
    Quotes,       \* prices a ticker may have when a run reads it; 0 is none
    NavReadings,  \* NetLiquidation values the account summary may return
    PnlReadings,  \* DailyPnL values it may return, NoPnl when the tag is absent
    NoPnl,
    DryRun,       \* the values of "not confirmed or DRY_RUN=true" a run may have
    InitialHeld,  \* the account's positions before the first run, in shares
    \* configs/risk.yaml, section execution
    MinOrder, MaxOrder, MaxPosition, MaxGross, MaxDailyTurnover, MaxDailyLoss,
    MaxConcurrent, StaleSignal,
    \* bounds of the exploration
    MaxRuns, MaxCrashes, MaxDrops, MaxSwitches

Tickers == 1 .. NumTickers
Sides == {"BUY", "SELL"}
Dates == {tgt.asOf : tgt \in Targets}

\* The content an idempotency key hashes; two keys are equal iff these are.
Key == [ticker : Tickers, side : Sides, qty : Nat, asOf : Dates]
Intent == [key : Key, notional : Nat]

BrokerStatus == {"Working", "PendingCancel", "Filled", "Cancelled", "Rejected"}
Live == {"Working", "PendingCancel"}
OrderStatus == {"SUBMITTED", "PARTIALLY_FILLED", "FILLED", "CANCELLED", "REJECTED"}

\* Where the ledger record of a placed order stands: not written yet; on a
\* readable line; never written, its process died; run into a partial line.
Lost == {"dropped", "fused"}
RecordState == {"inflight", "recorded"} \cup Lost

\* Where a process is in execute().
Stage == {"idle", "connecting", "connected", "check", "submit", "qualify",
          "monitor", "record"}

\* A process's connection to TWS: none, the one its run began with, or one
\* re-established in the middle of the run.
LinkState == {"down", "first", "again"}

\* An order at the broker.  `raised`: its submission ended in an exception, so
\* the run's result has it without the broker's order id; `settled`: its run
\* began with no order working; `again`: it was sent over a re-established
\* connection; `cut`: the connection was lost before its record was written.
Order == [key : Key, notional : Nat, run : Nat, filled : Nat,
          status : BrokerStatus, outcome : OrderStatus \cup {"none"},
          record : RecordState,
          raised : BOOLEAN, settled : BOOLEAN, again : BOOLEAN, cut : BOOLEAN]

ASSUME ExecutionAssumption ==
    /\ NumTickers \in Nat
    /\ Quotes \subseteq Nat /\ NavReadings \subseteq Nat
    /\ DryRun \subseteq BOOLEAN
    /\ InitialHeld \in [Tickers -> Int]
    /\ Targets \subseteq [asOf : Dates, weight : [Tickers -> Int]]
    /\ Targets # {}
    /\ {MinOrder, MaxOrder, MaxPosition, MaxGross, MaxDailyTurnover, MaxDailyLoss,
        MaxConcurrent, StaleSignal, MaxRuns, MaxCrashes, MaxDrops,
        MaxSwitches} \subseteq Nat

VARIABLES
    pc,       \* where each process is in execute()
    job,      \* what its run read at the start
    intents,  \* order intents it has still to process
    seen,     \* seen_keys of its run
    used,     \* day_turnover, open-order count and current_value of its run
    cur,      \* index in orders of the order it is submitting, 0 when none
    link,     \* its connection to TWS
    orders,   \* every order the paper account ever accepted, oldest first
    held,     \* the account's positions, in shares
    ledger,   \* keys on the readable lines of ledger.jsonl
    torn,     \* the file ends in a partial line
    engaged,  \* the kill-switch file exists
    slips,    \* orders each process placed since the file was created
    runs, crashes, drops, switches

procVars   == <<pc, job, intents, seen, used, cur, link>>
brokerVars == <<orders, held>>
fileVars   == <<ledger, torn>>
switchVars == <<engaged, slips, switches>>
counters   == <<runs, crashes, drops>>
vars == <<procVars, brokerVars, fileVars, switchVars, counters>>

-----------------------------------------------------------------------------
(* Delta intents *)

Abs(n) == IF n < 0 THEN -n ELSE n

\* Whole shares worth v at price px, rounded to the nearest.
Shares(v, px) == (2 * v + px) \div (2 * px)

\* `account.net_liquidation or 1.0`; a missing tag reads as 0.
AccountValue(j) == IF j.nav = 0 THEN 1 ELSE j.nav

\* Variant: full-target orders instead of deltas.
FullTarget(j, px, t) == (j.target.weight[t] * AccountValue(j)) \div 100

Delta(j, px, t) ==
    ((j.target.weight[t] * AccountValue(j)) \div 100) - j.held[t] * px[t]

Traded(j, px) ==
    {t \in Tickers : /\ px[t] > 0
                     /\ Abs(Delta(j, px, t)) >= MinOrder
                     /\ Shares(Abs(Delta(j, px, t)), px[t]) > 0}

\* Variant: a sell's estimate keeps its sign.
SignedEstimate(j, px, t) == Delta(j, px, t)

NotionalEstimate(j, px, t) == Abs(Delta(j, px, t))

IntentFor(j, px, t) ==
    [key |-> [ticker |-> t,
              side   |-> IF Delta(j, px, t) > 0 THEN "BUY" ELSE "SELL",
              qty    |-> Shares(Abs(Delta(j, px, t)), px[t]),
              asOf   |-> j.target.asOf],
     notional |-> NotionalEstimate(j, px, t)]

BuildDeltaIntents(j, px) == {IntentFor(j, px, t) : t \in Traded(j, px)}

\* Intents are processed in ticker order, one per ticker.
Foremost(i, p) ==
    /\ i \in intents[p]
    /\ \A o \in intents[p] : i.key.ticker <= o.key.ticker

-----------------------------------------------------------------------------
(* The pre-trade risk gate *)

SignedNotional(i) == IF i.key.side = "BUY" THEN i.notional ELSE -i.notional

\* current_value with intent i assumed to fill in full.
ValueAfter(p, i) == [used[p].value EXCEPT ![i.key.ticker] = @ + SignedNotional(i)]

Gross(value) == FoldFunction(LAMBDA v, sum : Abs(v) + sum, 0, value)

\* execute() passes neither signal_age_seconds nor price_age_seconds, so the
\* staleness limits always compare the default.
SignalAge == 0

\* Variant: a check that was left out.
Waived(p, i) == TRUE

NotHalted(p, i) == ~engaged
NotSeen(p, i) == i.key \notin seen[p]

PreTradeCheck(p, i) ==
    /\ NotHalted(p, i)
    /\ i.notional <= MaxOrder
    /\ Abs(ValueAfter(p, i)[i.key.ticker]) <= MaxPosition
    /\ Gross(ValueAfter(p, i)) <= MaxGross
    /\ SignalAge <= StaleSignal
    /\ NotSeen(p, i)
    /\ used[p].open < MaxConcurrent
    /\ used[p].turnover + i.notional <= MaxDailyTurnover
    /\ job[p].pnl # NoPnl => job[p].pnl > -MaxDailyLoss

\* Variant: the run's turnover is never added up.
Unbooked(p, i) == [used[p] EXCEPT !.value = ValueAfter(p, i)]

\* The run's books once i is approved, as if it had filled in full.
Booked(p, i) ==
    [used[p] EXCEPT !.turnover = @ + i.notional, !.value = ValueAfter(p, i)]

-----------------------------------------------------------------------------
(* One process: the steps of execute() and run_pipeline() *)

NoJob == [target |-> CHOOSE tgt \in Targets : TRUE, nav |-> 0, pnl |-> NoPnl,
          dry |-> TRUE, held |-> InitialHeld, run |-> 0, settled |-> TRUE]
NoUse == [turnover |-> 0, open |-> 0, value |-> [t \in Tickers |-> 0]]

\* The process is gone, and its memory and its connection with it.
Exit(p) ==
    /\ pc' = [pc EXCEPT ![p] = "idle"]
    /\ job' = [job EXCEPT ![p] = NoJob]
    /\ intents' = [intents EXCEPT ![p] = {}]
    /\ seen' = [seen EXCEPT ![p] = {}]
    /\ used' = [used EXCEPT ![p] = NoUse]
    /\ cur' = [cur EXCEPT ![p] = 0]
    /\ link' = [link EXCEPT ![p] = "down"]

\* Only p changes where it is in execute(), to w.
At(p, w) == pc' = [pc EXCEPT ![p] = w]

IsLive(n) == orders[n].status \in Live

\* Variant: every process connects with a client id of its own.
OwnClient(p) == TRUE

\* The gateway refuses a client id that is already connected.
ClientFree(p) == \A q \in Procs : ClientOf[q] = ClientOf[p] => link[q] = "down"

\* Load the snapshot and connect; refused or timed out, the process exits.
Connect(p) ==
    /\ pc[p] = "idle"
    /\ runs < MaxRuns
    /\ ClientFree(p)
    /\ At(p, "connecting")
    /\ link' = [link EXCEPT ![p] = "first"]
    /\ runs' = runs + 1
    /\ job' = [job EXCEPT ![p].run = runs + 1]
    /\ UNCHANGED <<intents, seen, used, cur, brokerVars, fileVars, switchVars,
                   crashes, drops>>

\* TWS answers account_snapshot(): the account as it is now.
ReadAccount(p) ==
    /\ pc[p] = "connecting"
    /\ link[p] # "down"
    /\ \E tgt \in Targets, nav \in NavReadings, pnl \in PnlReadings, dry \in DryRun :
          job' = [job EXCEPT ![p] =
                    [target |-> tgt, nav |-> nav, pnl |-> pnl,
                     dry |-> dry, held |-> held, run |-> job[p].run,
                     settled |-> \A n \in DOMAIN orders : ~IsLive(n)]]
    /\ At(p, "connected")
    /\ UNCHANGED <<intents, seen, used, cur, link, brokerVars, fileVars, switchVars,
                   counters>>

\* The connection is lost before TWS answers: the command ends with an error.
AccountUnread(p) ==
    /\ pc[p] = "connecting"
    /\ link[p] = "down"
    /\ Exit(p)
    /\ UNCHANGED <<brokerVars, fileVars, switchVars, counters>>

\* The first gate of run_pipeline: an engaged kill switch blocks the run.
BlockedByKillSwitch(p) ==
    /\ pc[p] = "connected"
    /\ engaged
    /\ Exit(p)
    /\ UNCHANGED <<brokerVars, fileVars, switchVars, counters>>

\* Variant: a process that does not read the ledger.
NoKeys(p) == {}

\* known_keys(), or nothing for a dry run, which is given no ledger.
KnownKeys(p) == IF job[p].dry THEN {} ELSE ledger

\* Read prices, build the delta intents, load the ledger's keys.
Prepare(p) ==
    /\ pc[p] = "connected"
    /\ ~engaged
    /\ \E px \in [Tickers -> Quotes] :
          /\ \E t \in Tickers : px[t] > 0
          /\ intents' = [intents EXCEPT ![p] = BuildDeltaIntents(job[p], px)]
          /\ used' = [used EXCEPT ![p] =
                        [turnover |-> 0, open |-> 0,
                         value |-> [t \in Tickers |-> job[p].held[t] * px[t]]]]
    /\ seen' = [seen EXCEPT ![p] = KnownKeys(p)]
    /\ At(p, "check")
    /\ UNCHANGED <<job, cur, link, brokerVars, fileVars, switchVars, counters>>

\* No ticker has a recent price: the command exits before the pipeline.
NoPrices(p) ==
    /\ pc[p] = "connected"
    /\ 0 \in Quotes
    /\ Exit(p)
    /\ UNCHANGED <<brokerVars, fileVars, switchVars, counters>>

Rejected(p, i) ==
    /\ pc[p] = "check" /\ Foremost(i, p)
    /\ ~PreTradeCheck(p, i)
    /\ intents' = [intents EXCEPT ![p] = @ \ {i}]
    /\ UNCHANGED <<pc, job, seen, used, cur, link, brokerVars, fileVars, switchVars,
                   counters>>

\* The run's books are updated before anything is sent.  A dry run stops here;
\* a real one goes on to the broker.
Approved(p, i) ==
    /\ pc[p] = "check" /\ Foremost(i, p)
    /\ PreTradeCheck(p, i)
    /\ seen' = [seen EXCEPT ![p] = @ \cup {i.key}]
    /\ used' = [used EXCEPT ![p] = Booked(p, i)]
    /\ IF job[p].dry
       THEN /\ intents' = [intents EXCEPT ![p] = @ \ {i}]
            /\ UNCHANGED pc
       ELSE /\ At(p, "submit")
            /\ UNCHANGED intents
    /\ UNCHANGED <<job, cur, link, brokerVars, fileVars, switchVars, counters>>

\* The connection is there, or is opened again if the client id is free.
EnsureConnected(p) ==
    /\ pc[p] = "submit"
    /\ \/ link[p] # "down" /\ UNCHANGED link
       \/ link[p] = "down" /\ ClientFree(p) /\ link' = [link EXCEPT ![p] = "again"]
    /\ At(p, "qualify")
    /\ UNCHANGED <<job, intents, seen, used, cur, brokerVars, fileVars, switchVars,
                   counters>>

\* Connecting again or qualifying the contract raises: the pipeline turns the
\* exception into a REJECTED order, and nothing has reached the broker.
SubmitRaises(p) ==
    /\ \/ pc[p] = "submit" /\ link[p] = "down"
       \/ pc[p] = "qualify"
    /\ At(p, "record")
    /\ UNCHANGED <<job, intents, seen, used, cur, link, brokerVars, fileVars, switchVars,
                   counters>>

\* TWS has qualified the contract and placeOrder follows at once: from here on
\* the order is the broker's.
Place(p, i) ==
    /\ pc[p] = "qualify" /\ Foremost(i, p)
    /\ link[p] # "down"
    /\ orders' = Append(orders,
          [key |-> i.key, notional |-> i.notional, run |-> job[p].run,
           filled |-> 0, status |-> "Working", outcome |-> "none",
           record |-> "inflight", raised |-> FALSE, settled |-> job[p].settled,
           again |-> link[p] = "again", cut |-> FALSE])
    /\ cur' = [cur EXCEPT ![p] = Len(orders) + 1]
    /\ slips' = IF engaged THEN [slips EXCEPT ![p] = @ + 1] ELSE slips
    /\ At(p, "monitor")
    /\ UNCHANGED <<job, intents, seen, used, link, held, fileVars, engaged, switches,
                   counters>>

\* What the client may know of an order: the broker's present word on it or,
\* with news under way or the connection lost, an earlier one.
Views(o) ==
    {[status |-> o.status, filled |-> o.filled]}
        \cup [status : {"Working"}, filled : 0 .. o.filled]

\* Variant: any fill counts as a complete one.
AnyFillIsFilled(view) == IF view.filled > 0 THEN "FILLED" ELSE "SUBMITTED"

ReportedStatus(view) ==
    CASE view.status = "Filled"                         -> "FILLED"
      [] view.status \in {"Cancelled", "PendingCancel"} -> "CANCELLED"
      [] view.status = "Rejected"                       -> "REJECTED"
      [] view.status = "Working" /\ view.filled > 0     -> "PARTIALLY_FILLED"
      [] OTHER                                          -> "SUBMITTED"

\* What open_order_count counts; an order that ends PARTIALLY_FILLED is not.
CountsAsOpen(status) == status = "SUBMITTED"

\* Variant: wait for the broker for ever.
NoDeadline(p) == FALSE

\* The deadline is finite, so at any step it may have passed.
DeadlinePassed(p) == TRUE

\* The poll loop ends, with a finished trade or at the deadline.
Report(p) ==
    /\ pc[p] = "monitor"
    /\ IsLive(cur[p]) => DeadlinePassed(p)
    /\ \E view \in Views(orders[cur[p]]) :
          /\ orders' = [orders EXCEPT ![cur[p]].outcome = ReportedStatus(view)]
          /\ used' = [used EXCEPT ![p].open =
                        IF CountsAsOpen(ReportedStatus(view)) THEN @ + 1 ELSE @]
    /\ At(p, "record")
    /\ UNCHANGED <<job, intents, seen, cur, link, held, fileVars, switchVars, counters>>

\* Anything raised after placeOrder is caught the same way: the run's result
\* has a REJECTED order without the broker's id, and the order goes on.
MonitorRaises(p) ==
    /\ pc[p] = "monitor"
    /\ orders' = [orders EXCEPT ![cur[p]].outcome = "REJECTED", ![cur[p]].raised = TRUE]
    /\ At(p, "record")
    /\ UNCHANGED <<job, intents, seen, used, cur, link, held, fileVars, switchVars,
                   counters>>

\* orders with the record of p's order in flight settled one way or the other.
Settle(p, state) ==
    IF cur[p] = 0 THEN orders ELSE [orders EXCEPT ![cur[p]].record = state]

\* Append one line.  After a partial line the new one continues it, and
\* neither of the two can be read back.
Record(p, i) ==
    /\ pc[p] = "record" /\ Foremost(i, p)
    /\ ledger' = IF torn THEN ledger ELSE ledger \cup {i.key}
    /\ torn' = FALSE
    /\ orders' = Settle(p, IF torn THEN "fused" ELSE "recorded")
    /\ cur' = [cur EXCEPT ![p] = 0]
    /\ intents' = [intents EXCEPT ![p] = @ \ {i}]
    /\ At(p, "check")
    /\ UNCHANGED <<job, seen, used, link, held, switchVars, counters>>

Finish(p) ==
    /\ pc[p] = "check"
    /\ intents[p] = {}
    /\ Exit(p)
    /\ UNCHANGED <<brokerVars, fileVars, switchVars, counters>>

\* The process dies: killed, interrupted, or by an exception the pipeline does
\* not catch.  Dying while the ledger is written may leave part of a line.
Crash(p) ==
    /\ pc[p] # "idle"
    /\ crashes < MaxCrashes
    /\ Exit(p)
    /\ orders' = Settle(p, "dropped")
    /\ torn' \in IF pc[p] = "record" THEN {torn, TRUE} ELSE {torn}
    /\ crashes' = crashes + 1
    /\ UNCHANGED <<held, ledger, switchVars, runs, drops>>

\* The socket to TWS is lost; the process notices at its next submission.
Drop(p) ==
    /\ link[p] # "down"
    /\ drops < MaxDrops
    /\ link' = [link EXCEPT ![p] = "down"]
    /\ orders' = IF cur[p] = 0 THEN orders ELSE [orders EXCEPT ![cur[p]].cut = TRUE]
    /\ drops' = drops + 1
    /\ UNCHANGED <<pc, job, intents, seen, used, cur, held, fileVars, switchVars,
                   runs, crashes>>

-----------------------------------------------------------------------------
(* The paper account, as TWS reports it *)

Signed(o, n) == IF o.key.side = "BUY" THEN n ELSE -n

Fill(n) ==
    /\ IsLive(n)
    /\ \E m \in 1 .. orders[n].key.qty - orders[n].filled :
          LET filled == orders[n].filled + m IN
          /\ orders' = [orders EXCEPT
                ![n].filled = filled,
                ![n].status = IF filled = orders[n].key.qty THEN "Filled" ELSE @]
          /\ held' = [held EXCEPT ![orders[n].key.ticker] = @ + Signed(orders[n], m)]
    /\ UNCHANGED <<procVars, fileVars, switchVars, counters>>

\* A human asks TWS to cancel; the exchange has not answered yet.
RequestCancel(n) ==
    /\ orders[n].status = "Working"
    /\ orders' = [orders EXCEPT ![n].status = "PendingCancel"]
    /\ UNCHANGED <<procVars, held, fileVars, switchVars, counters>>

Cancelled(n) ==
    /\ IsLive(n)
    /\ orders' = [orders EXCEPT ![n].status = "Cancelled"]
    /\ UNCHANGED <<procVars, held, fileVars, switchVars, counters>>

BrokerRejects(n) ==
    /\ orders[n].status = "Working"
    /\ orders[n].filled = 0
    /\ orders' = [orders EXCEPT ![n].status = "Rejected"]
    /\ UNCHANGED <<procVars, held, fileVars, switchVars, counters>>

-----------------------------------------------------------------------------
(* The kill-switch file *)

Engage ==
    /\ switches < MaxSwitches
    /\ ~engaged
    /\ engaged' = TRUE
    /\ switches' = switches + 1
    /\ UNCHANGED <<procVars, brokerVars, fileVars, slips, counters>>

Disengage ==
    /\ engaged
    /\ engaged' = FALSE
    /\ slips' = [p \in Procs |-> 0]
    /\ UNCHANGED <<procVars, brokerVars, fileVars, switches, counters>>

-----------------------------------------------------------------------------
Init ==
    /\ pc = [p \in Procs |-> "idle"]
    /\ job = [p \in Procs |-> NoJob]
    /\ intents = [p \in Procs |-> {}]
    /\ seen = [p \in Procs |-> {}]
    /\ used = [p \in Procs |-> NoUse]
    /\ cur = [p \in Procs |-> 0]
    /\ link = [p \in Procs |-> "down"]
    /\ orders = <<>>
    /\ held = InitialHeld
    /\ ledger = {} /\ torn = FALSE
    /\ engaged = FALSE /\ switches = 0
    /\ slips = [p \in Procs |-> 0]
    /\ runs = 0 /\ crashes = 0 /\ drops = 0

\* What a running process does next without anyone's help.
Step(p) ==
    \/ ReadAccount(p) \/ AccountUnread(p)
    \/ BlockedByKillSwitch(p) \/ NoPrices(p) \/ Prepare(p)
    \/ \E i \in intents[p] : Rejected(p, i) \/ Approved(p, i)
    \/ EnsureConnected(p) \/ SubmitRaises(p)
    \/ \E i \in intents[p] : Place(p, i)
    \/ Report(p) \/ \E i \in intents[p] : Record(p, i)
    \/ Finish(p)

Process(p) == Connect(p) \/ Step(p) \/ MonitorRaises(p) \/ Crash(p) \/ Drop(p)

Broker ==
    \E n \in DOMAIN orders :
        Fill(n) \/ RequestCancel(n) \/ Cancelled(n) \/ BrokerRejects(n)

Next == (\E p \in Procs : Process(p)) \/ Broker \/ Engage \/ Disengage

Spec == Init /\ [][Next]_vars

\* What a process asks TWS about the account or a contract, it asks without a
\* timeout: it may wait for ever.  Every other wait of a run is bounded.
Awaiting(p) == pc[p] \in {"connecting", "qualify"} /\ link[p] # "down"

FairSpec == Spec /\ \A p \in Procs : WF_vars(~Awaiting(p) /\ Step(p))
-----------------------------------------------------------------------------
(* Properties *)

Job == [target : Targets, nav : NavReadings \cup {0}, pnl : PnlReadings \cup {NoPnl},
        dry : BOOLEAN, held : [Tickers -> Int], run : Nat, settled : BOOLEAN]
Use == [turnover : Nat, open : Nat, value : [Tickers -> Int]]

\* Every variable holds a value of its kind (execution/pipeline.py,
\* ledger.py, kill_switch.py).
TypeOK ==
    /\ pc \in [Procs -> Stage]
    /\ job \in [Procs -> Job]
    /\ intents \in [Procs -> SUBSET Intent]
    /\ seen \in [Procs -> SUBSET Key]
    /\ used \in [Procs -> Use]
    /\ cur \in [Procs -> Nat]
    /\ link \in [Procs -> LinkState]
    /\ orders \in Seq(Order)
    /\ held \in [Tickers -> Int]
    /\ ledger \subseteq Key
    /\ torn \in BOOLEAN /\ engaged \in BOOLEAN
    /\ slips \in [Procs -> Nat]
    /\ runs \in Nat /\ crashes \in Nat /\ drops \in Nat /\ switches \in Nat

\* The ledger makes submission idempotent as far as it remembers: two orders
\* with one content key exist at the broker only if the record of the earlier
\* one was lost, in a crash before or while it was written or to the partial
\* line such a crash left, or if a connection broke: the earlier order's before
\* its record was written, or the later order's run's, whose keys were then
\* stale (OrderLedger, ensure_connected and the duplicate check of
\* pre_trade_check).  Holds when all processes share one client id.
DuplicateOnlyAfterLoss ==
    \A m, n \in DOMAIN orders :
        m < n /\ orders[m].key = orders[n].key =>
            orders[m].record \in Lost \/ orders[m].cut \/ orders[n].again

\* Engaging the kill switch stops a process that is between its check and
\* placeOrder only after that one order: while the file exists no process
\* places two (the per-intent re-check of pre_trade_check).
KillSwitchSlip == \A p \in Procs : slips[p] <= 1

\* What a run reports on the broker's word is final: a FILLED order is full, and
\* an order REJECTED under the broker's id has no fill and is not working, so
\* none can follow, however stale the client's view of it was.  An order whose
\* submission raised is reported REJECTED too, without that id
\* (submit_and_monitor's status mapping, run_pipeline's except clause).
ReportedFinalIsFinal ==
    \A n \in DOMAIN orders :
        /\ orders[n].outcome = "FILLED" => orders[n].filled = orders[n].key.qty
        /\ orders[n].outcome = "REJECTED" /\ ~orders[n].raised =>
              orders[n].filled = 0 /\ ~IsLive(n)

\* The account and the ledger together keep the promise OrderPromise states, for
\* orders whose connection held: one is sent from placeOrder on, remembered once
\* its line is readable, forgotten with the process that sent it, in a partial
\* line, or when its connection breaks before its record is written.
Counted(n) == ~orders[n].again /\ ~orders[n].cut
KeysOf(states) ==
    {orders[n].key : n \in {m \in DOMAIN orders : Counted(m) /\ orders[m].record \in states}}
Promise == INSTANCE OrderPromise WITH
    sent       <- KeysOf({"inflight"}),
    remembered <- KeysOf({"recorded"})
LedgerKeepsPromise == Promise!Spec

\* What one run sends to the broker stays inside max_daily_turnover.
RunTurnover(r) ==
    FoldFunctionOnSet(LAMBDA o, sum : o.notional + sum, 0, orders,
                      {n \in DOMAIN orders : orders[n].run = r})
TurnoverWithinRun == \A r \in 1 .. runs : RunTurnover(r) <= MaxDailyTurnover

\* What a target is worth in a ticker at one reading of the account value.
TargetValue(tgt, t, nav) == (tgt.weight[t] * AccountValue([nav |-> nav])) \div 100

\* The share counts nearest to v at price px: two of them at a tie.
Nearest(v, px) == {Shares(v, px), -Shares(-v, px)}

\* Those of every target at the prices and account values runs can read.
TargetShares(t) ==
    UNION {Nearest(TargetValue(tgt, t, nav), px) :
             tgt \in Targets, nav \in NavReadings, px \in Quotes \ {0}}

\* The account approaches its targets and never crosses them, run after run, as
\* long as every run began with no order still working and sent its orders over
\* the connection it read the account on: deltas are then taken against
\* positions that no other order changes (build_delta_intents on
\* account_snapshot's positions).  Every position stays between the one the
\* account began with and the share counts nearest to its targets.
SettledRunsConverge ==
    (\A n \in DOMAIN orders : orders[n].settled /\ ~orders[n].again) =>
        \A t \in Tickers :
            \E low, high \in {InitialHeld[t]} \cup TargetShares(t) :
                low <= held[t] /\ held[t] <= high

\* A run ends, whatever the broker does with its orders, unless TWS leaves a
\* question about the account or a contract unanswered for ever: the poll loop
\* of submit_and_monitor has a deadline, those questions have none.
RunsEnd == \A p \in Procs : pc[p] # "idle" ~> (pc[p] = "idle" \/ []Awaiting(p))
=============================================================================
