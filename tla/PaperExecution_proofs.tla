------------------------ MODULE PaperExecution_proofs ------------------------
(***************************************************************************)
(* Theorems about PaperExecution, for any set of processes, targets,       *)
(* prices, limits and bounds.                                              *)
(***************************************************************************)
EXTENDS PaperExecution, SequenceTheorems, TLAPS, Sums

(* Operators *)

LEMMA ConfigType ==
    /\ \A x \in Quotes : x \in Nat
    /\ \A x \in NavReadings : x \in Nat
    /\ \A x \in DryRun : x \in BOOLEAN
    /\ InitialHeld \in [Tickers -> Int]
  BY ExecutionAssumption

\* A count of shares is a natural number.
LEMMA SharesType ==
    ASSUME NEW v \in Nat, NEW px \in Nat, px > 0
    PROVE  Shares(v, px) \in Nat
<1>1. 2 * v + px \in Nat /\ 2 * px \in Nat /\ 2 * px > 0
  OBVIOUS
<1>2. \A a, b \in Nat : b > 0 => a \div b \in Nat
  OBVIOUS
<1>3. QED
  BY <1>1, <1>2 DEF Shares

\* Replacing one element of a sequence keeps its elements' type and its length.
LEMMA UpdateType ==
    ASSUME NEW S, NEW s \in Seq(S), NEW n \in DOMAIN s, NEW x \in S
    PROVE  /\ [s EXCEPT ![n] = x] \in Seq(S)
           /\ DOMAIN [s EXCEPT ![n] = x] = DOMAIN s
  OBVIOUS

\* The delta of a ticker is a whole amount of money.
LEMMA DeltaType ==
    ASSUME NEW j \in Job, NEW px \in [Tickers -> Quotes], NEW t \in Tickers
    PROVE  Delta(j, px, t) \in Int
<1>1. j.target \in Targets /\ j.nav \in NavReadings \cup {0} /\ j.held \in [Tickers -> Int]
  BY DEF Job
<1>2. /\ j.target.weight[t] \in Int /\ AccountValue(j) \in Int
      /\ j.held[t] \in Int /\ px[t] \in Int
  <2>1. j.target.weight \in [Tickers -> Int]
    BY <1>1, ExecutionAssumption
  <2>2. AccountValue(j) \in Int
    BY <1>1, ConfigType DEF AccountValue
  <2>3. px[t] \in Int
    BY ConfigType
  <2>4. QED
    BY <1>1, <2>1, <2>2, <2>3
<1>3. \A a, b \in Int : a * b \in Int /\ a \div 100 \in Int /\ a - b \in Int
  OBVIOUS
<1>4. QED
  BY <1>1, <1>2, <1>3 DEF Delta

\* The delta builder makes well-formed intents, one per ticker.
LEMMA BuildType ==
    ASSUME NEW j \in Job, NEW px \in [Tickers -> Quotes]
    PROVE  /\ BuildDeltaIntents(j, px) \subseteq Intent
           /\ \A a, b \in BuildDeltaIntents(j, px) : a.key.ticker = b.key.ticker => a = b
<1>1. ASSUME NEW t \in Traded(j, px)
      PROVE  IntentFor(j, px, t) \in Intent /\ IntentFor(j, px, t).key.ticker = t
  <2>1. t \in Tickers /\ px[t] \in Nat /\ px[t] > 0
    BY ConfigType DEF Traded
  <2>2. Delta(j, px, t) \in Int
    BY <2>1, DeltaType
  <2>3. Abs(Delta(j, px, t)) \in Nat
    BY <2>2 DEF Abs
  <2>4. Shares(Abs(Delta(j, px, t)), px[t]) \in Nat
    BY <2>1, <2>3, SharesType
  <2>5. j.target.asOf \in Dates
    BY ExecutionAssumption DEF Job
  <2>6. QED
    BY <2>1, <2>3, <2>4, <2>5 DEF IntentFor, NotionalEstimate, Intent, Key, Sides
<1>2. QED
  BY <1>1 DEF BuildDeltaIntents

-----------------------------------------------------------------------------
(* Types *)

\* The order a process has in flight exists, has no record yet and is its own.
CursorOK ==
    \A p \in Procs :
        /\ cur[p] # 0 => /\ pc[p] \in {"monitor", "record"}
                         /\ cur[p] \in DOMAIN orders
                         /\ orders[cur[p]].record = "inflight"
        /\ pc[p] = "monitor" => cur[p] # 0
        /\ \A q \in Procs : cur[p] # 0 /\ cur[p] = cur[q] => p = q

TypeInv == TypeOK /\ CursorOK

LEMMA JobType == NoJob \in Job /\ NoUse \in Use
  BY ExecutionAssumption DEF NoJob, NoUse, Job, Use

\* Recording or dropping the order in flight keeps the orders well-formed.
LEMMA SettleType ==
    ASSUME TypeInv, NEW p \in Procs, NEW state \in RecordState
    PROVE  Settle(p, state) \in Seq(Order) /\ DOMAIN Settle(p, state) = DOMAIN orders
<1>1. CASE cur[p] = 0
  BY <1>1 DEF TypeInv, TypeOK, Settle
<1>2. CASE cur[p] # 0
  <2>1. cur[p] \in DOMAIN orders /\ orders \in Seq(Order)
    BY <1>2 DEF TypeInv, TypeOK, CursorOK
  <2>2. orders[cur[p]] \in Order
    BY <2>1
  <2>3. [orders[cur[p]] EXCEPT !.record = state] \in Order
    BY <2>2 DEF Order
  <2>4. QED
    BY <1>2, <2>1, <2>3, UpdateType DEF Settle
<1>3. QED
  BY <1>1, <1>2

\* A process that is gone has no order in flight; the others keep theirs.
LEMMA ExitType ==
    ASSUME TypeInv, NEW p \in Procs, Exit(p)
    PROVE  /\ pc' \in [Procs -> Stage]
           /\ job' \in [Procs -> Job] /\ intents' \in [Procs -> SUBSET Intent]
           /\ seen' \in [Procs -> SUBSET Key] /\ used' \in [Procs -> Use]
           /\ cur' \in [Procs -> Nat] /\ link' \in [Procs -> LinkState]
           /\ cur'[p] = 0 /\ pc'[p] = "idle" /\ link'[p] = "down"
           /\ \A q \in Procs \ {p} :
                 cur'[q] = cur[q] /\ pc'[q] = pc[q] /\ link'[q] = link[q]
<1>1. "idle" \in Stage /\ "down" \in LinkState
  BY DEF Stage, LinkState
<1>2. QED
  BY <1>1, JobType DEF TypeInv, TypeOK, Exit

LEMMA TypeInit == Init => TypeInv
<1> SUFFICES ASSUME Init PROVE TypeInv
  OBVIOUS
<1>1. TypeOK
  <2>1. job \in [Procs -> Job] /\ used \in [Procs -> Use]
    BY JobType DEF Init
  <2>2. orders \in Seq(Order) /\ held \in [Tickers -> Int]
    BY ConfigType DEF Init
  <2>3. "idle" \in Stage /\ "down" \in LinkState
    BY DEF Stage, LinkState
  <2>4. QED
    BY <2>1, <2>2, <2>3 DEF Init, TypeOK
<1>2. CursorOK
  BY DEF Init, CursorOK
<1>3. QED
  BY <1>1, <1>2 DEF TypeInv

\* Steps that end a process without touching anything it shares.
LEMMA TypeQuietExit ==
    ASSUME TypeInv, NEW p \in Procs, Exit(p),
           UNCHANGED <<brokerVars, fileVars, switchVars, counters>>
    PROVE  TypeInv'
<1>1. UNCHANGED <<orders, held, ledger, torn, engaged, slips, switches, runs, crashes, drops>>
  BY DEF brokerVars, fileVars, switchVars, counters
<1>2. TypeOK'
  BY <1>1, ExitType DEF TypeInv, TypeOK
<1>3. CursorOK'
  BY <1>1, ExitType DEF TypeInv, CursorOK
<1>4. QED
  BY <1>2, <1>3 DEF TypeInv

\* A process that moves to another stage keeps its order in flight, if it has one
\* and the new stage is one for it.
LEMMA CursorMoves ==
    ASSUME CursorOK, UNCHANGED <<cur, orders>>, pc \in [Procs -> Stage],
           NEW p \in Procs, NEW w \in Stage, At(p, w), cur[p] = 0, w # "monitor"
    PROVE  CursorOK'
  BY DEF CursorOK, At

LEMMA TypeConnect == ASSUME TypeInv, NEW p \in Procs, Connect(p) PROVE TypeInv'
<1> USE DEF TypeInv
<1>1. UNCHANGED <<intents, seen, used, cur, orders, held, ledger, torn, engaged,
                  slips, switches, crashes, drops>>
  BY DEF Connect, brokerVars, fileVars, switchVars
<1>2. /\ runs' = runs + 1 /\ At(p, "connecting") /\ pc[p] = "idle"
      /\ link' = [link EXCEPT ![p] = "first"]
      /\ job' = [job EXCEPT ![p].run = runs + 1]
  BY DEF Connect
<1>3. job' \in [Procs -> Job]
  <2>1. runs + 1 \in Nat /\ job[p] \in Job
    BY DEF TypeOK
  <2>2. [job[p] EXCEPT !.run = runs + 1] \in Job
    BY <2>1 DEF Job
  <2>3. QED
    BY <1>2, <2>2 DEF TypeOK
<1>4. TypeOK'
  <2>1. "connecting" \in Stage /\ "first" \in LinkState
    BY DEF Stage, LinkState
  <2>2. pc' \in [Procs -> Stage] /\ link' \in [Procs -> LinkState] /\ runs' \in Nat
    BY <1>2, <2>1 DEF TypeOK, At
  <2>3. QED
    BY <1>1, <1>3, <2>2 DEF TypeOK
<1>5. CursorOK'
  <2>1. cur[p] = 0
    BY <1>2 DEF CursorOK
  <2>2. QED
    BY <1>1, <1>2, <2>1, CursorMoves DEF TypeOK, Stage
<1>6. QED
  BY <1>4, <1>5

LEMMA TypeReadAccount == ASSUME TypeInv, NEW p \in Procs, ReadAccount(p) PROVE TypeInv'
<1> USE DEF TypeInv
<1>1. UNCHANGED <<intents, seen, used, cur, link, orders, held, ledger, torn, engaged,
                  slips, switches, runs, crashes, drops>>
  BY DEF ReadAccount, brokerVars, fileVars, switchVars, counters
<1>2. PICK tgt \in Targets, nav \in NavReadings, pnl \in PnlReadings, dry \in DryRun :
        job' = [job EXCEPT ![p] =
                  [target |-> tgt, nav |-> nav, pnl |-> pnl,
                   dry |-> dry, held |-> held, run |-> job[p].run,
                   settled |-> \A n \in DOMAIN orders : ~IsLive(n)]]
  BY DEF ReadAccount
<1>3. At(p, "connected") /\ pc[p] = "connecting" /\ "connected" \in Stage
  BY DEF ReadAccount, Stage
<1>4. job' \in [Procs -> Job]
  <2>1. dry \in BOOLEAN /\ job[p].run \in Nat /\ held \in [Tickers -> Int]
    BY ConfigType DEF TypeOK, Job
  <2>2. (\A n \in DOMAIN orders : ~IsLive(n)) \in BOOLEAN
    OBVIOUS
  <2>3. [target |-> tgt, nav |-> nav, pnl |-> pnl,
         dry |-> dry, held |-> held, run |-> job[p].run,
         settled |-> \A n \in DOMAIN orders : ~IsLive(n)] \in Job
    BY <2>1, <2>2 DEF Job
  <2>4. QED
    BY <1>2, <2>3 DEF TypeOK
<1>5. TypeOK'
  BY <1>1, <1>3, <1>4 DEF TypeOK, At
<1>6. CursorOK'
  <2>1. cur[p] = 0
    BY <1>3 DEF CursorOK
  <2>2. QED
    BY <1>1, <1>3, <2>1, CursorMoves DEF TypeOK
<1>7. QED
  BY <1>5, <1>6

\* Losing the connection marks the order in flight, and no other.
LEMMA DropKeeps ==
    ASSUME TypeInv, NEW p \in Procs, Drop(p)
    PROVE  /\ orders' \in Seq(Order) /\ DOMAIN orders' = DOMAIN orders
           /\ \A n \in DOMAIN orders :
                 /\ orders'[n].key = orders[n].key
                 /\ orders'[n].notional = orders[n].notional
                 /\ orders'[n].run = orders[n].run
                 /\ orders'[n].filled = orders[n].filled
                 /\ orders'[n].status = orders[n].status
                 /\ orders'[n].outcome = orders[n].outcome
                 /\ orders'[n].record = orders[n].record
                 /\ orders'[n].raised = orders[n].raised
                 /\ orders'[n].settled = orders[n].settled
                 /\ orders'[n].again = orders[n].again
                 /\ n = cur[p] => orders'[n].cut
                 /\ n # cur[p] => orders'[n].cut = orders[n].cut
<1>1. orders \in Seq(Order) /\ \A n \in DOMAIN orders : orders[n] \in Order
  BY DEF TypeInv, TypeOK
<1>2. CASE cur[p] = 0
  <2>1. orders' = orders /\ 0 \notin DOMAIN orders
    BY <1>1, <1>2 DEF Drop
  <2>2. QED
    BY <1>1, <1>2, <2>1
<1>3. CASE cur[p] # 0
  <2>1. cur[p] \in DOMAIN orders
    BY <1>3 DEF TypeInv, CursorOK
  <2>2. orders' = [orders EXCEPT ![cur[p]] = [orders[cur[p]] EXCEPT !.cut = TRUE]]
    BY <1>3, <2>1 DEF Drop
  <2>3. [orders[cur[p]] EXCEPT !.cut = TRUE] \in Order
    BY <1>1, <2>1 DEF Order
  <2>4. orders' \in Seq(Order) /\ DOMAIN orders' = DOMAIN orders
    BY <1>1, <2>1, <2>2, <2>3, UpdateType
  <2>5. \A n \in DOMAIN orders : n # cur[p] => orders'[n] = orders[n]
    BY <1>1, <2>2
  <2>6. orders'[cur[p]] = [orders[cur[p]] EXCEPT !.cut = TRUE]
    BY <1>1, <2>1, <2>2
  <2>7. orders[cur[p]] \in Order
    BY <1>1, <2>1
  <2> DEFINE o == orders[cur[p]]
             x == [o EXCEPT !.cut = TRUE]
  <2>8. /\ x.key = o.key /\ x.notional = o.notional /\ x.run = o.run
        /\ x.filled = o.filled /\ x.status = o.status /\ x.outcome = o.outcome
        /\ x.record = o.record /\ x.raised = o.raised /\ x.settled = o.settled
        /\ x.again = o.again /\ x.cut = TRUE
    <3>1. o \in Order
      BY <2>7
    <3> HIDE DEF o
    <3>2. QED
      BY <3>1 DEF Order
  <2>9. orders'[cur[p]] = x
    BY <2>6
  <2> HIDE DEF x
  <2>10. QED
    BY <2>1, <2>4, <2>5, <2>8, <2>9
<1>4. QED
  BY <1>2, <1>3

LEMMA TypeDrop == ASSUME TypeInv, NEW p \in Procs, Drop(p) PROVE TypeInv'
<1> USE DEF TypeInv
<1>1. /\ UNCHANGED <<pc, job, intents, seen, used, cur, held, ledger, torn, engaged,
                     slips, switches, runs, crashes>>
      /\ link' = [link EXCEPT ![p] = "down"] /\ drops' = drops + 1
  BY DEF Drop, fileVars, switchVars
<1>2. /\ orders' \in Seq(Order) /\ DOMAIN orders' = DOMAIN orders
      /\ \A n \in DOMAIN orders : orders'[n].record = orders[n].record
  BY DropKeeps
<1>3. TypeOK'
  <2>1. link' \in [Procs -> LinkState] /\ drops' \in Nat
    BY <1>1 DEF TypeOK, LinkState
  <2>2. QED
    BY <1>1, <1>2, <2>1 DEF TypeOK
<1>4. CursorOK'
  BY <1>1, <1>2 DEF CursorOK
<1>5. QED
  BY <1>3, <1>4

LEMMA TypePrepare == ASSUME TypeInv, NEW p \in Procs, Prepare(p) PROVE TypeInv'
<1> USE DEF TypeInv
<1>1. /\ UNCHANGED <<job, cur, link, orders, held, ledger, torn, engaged, slips, switches,
                     runs, crashes, drops>>
      /\ pc[p] = "connected" /\ pc' = [pc EXCEPT ![p] = "check"] /\ "check" \in Stage
      /\ seen' = [seen EXCEPT ![p] = IF job[p].dry THEN {} ELSE ledger]
  BY DEF Prepare, KnownKeys, brokerVars, fileVars, switchVars, counters, At, Stage
<1>2. PICK px \in [Tickers -> Quotes] :
        /\ intents' = [intents EXCEPT ![p] = BuildDeltaIntents(job[p], px)]
        /\ used' = [used EXCEPT ![p] =
                      [turnover |-> 0, open |-> 0,
                       value |-> [t \in Tickers |-> job[p].held[t] * px[t]]]]
  BY DEF Prepare
<1>3. job[p] \in Job
  BY DEF TypeOK
<1>4. intents' \in [Procs -> SUBSET Intent]
  BY <1>2, <1>3, BuildType DEF TypeOK
<1>5. used' \in [Procs -> Use]
  <2>1. \A t \in Tickers : job[p].held[t] * px[t] \in Int
    BY <1>3, ConfigType DEF Job
  <2>2. [t \in Tickers |-> job[p].held[t] * px[t]] \in [Tickers -> Int]
    BY <2>1
  <2>3. [turnover |-> 0, open |-> 0,
         value |-> [t \in Tickers |-> job[p].held[t] * px[t]]] \in Use
    BY <2>2 DEF Use
  <2>4. QED
    BY <1>2, <2>3 DEF TypeOK
<1>6. seen' \in [Procs -> SUBSET Key]
  BY <1>1 DEF TypeOK
<1>7. TypeOK'
  BY <1>1, <1>4, <1>5, <1>6 DEF TypeOK
<1>8. CursorOK'
  BY <1>1 DEF TypeOK, CursorOK
<1>9. QED
  BY <1>7, <1>8

LEMMA TypeRejected ==
    ASSUME TypeInv, NEW p \in Procs, NEW i \in intents[p], Rejected(p, i) PROVE TypeInv'
<1>1. /\ UNCHANGED <<pc, job, seen, used, cur, link, orders, held, ledger, torn, engaged,
                     slips, switches, runs, crashes, drops>>
      /\ intents' = [intents EXCEPT ![p] = @ \ {i}]
  BY DEF Rejected, brokerVars, fileVars, switchVars, counters
<1>2. QED
  BY <1>1 DEF TypeInv, TypeOK, CursorOK

LEMMA TypeApproved ==
    ASSUME TypeInv, NEW p \in Procs, NEW i \in intents[p], Approved(p, i) PROVE TypeInv'
<1> USE DEF TypeInv
<1>1. /\ UNCHANGED <<job, cur, link, orders, held, ledger, torn, engaged, slips, switches,
                     runs, crashes, drops>>
      /\ pc[p] = "check" /\ "submit" \in Stage
      /\ pc' = pc \/ pc' = [pc EXCEPT ![p] = "submit"]
      /\ intents' = intents \/ intents' = [intents EXCEPT ![p] = @ \ {i}]
      /\ seen' = [seen EXCEPT ![p] = @ \cup {i.key}]
      /\ used' = [used EXCEPT ![p] = Booked(p, i)]
  BY DEF Approved, brokerVars, fileVars, switchVars, counters, At, Stage
<1>2. i.key \in Key /\ i.notional \in Nat /\ i.key.ticker \in Tickers
  BY DEF TypeOK, Intent, Key
<1>3. used[p].turnover \in Nat /\ used[p].value \in [Tickers -> Int] /\ used[p] \in Use
  BY DEF TypeOK, Use
<1>4. ValueAfter(p, i) \in [Tickers -> Int]
  <2>1. SignedNotional(i) \in Int
    BY <1>2 DEF SignedNotional
  <2>2. used[p].value[i.key.ticker] + SignedNotional(i) \in Int
    BY <1>2, <1>3, <2>1
  <2>3. QED
    BY <1>3, <2>2 DEF ValueAfter
<1>5. used' \in [Procs -> Use]
  <2>1. used[p].turnover + i.notional \in Nat
    BY <1>2, <1>3
  <2>2. [used[p] EXCEPT !.turnover = used[p].turnover + i.notional,
                        !.value = ValueAfter(p, i)] \in Use
    BY <1>3, <1>4, <2>1 DEF Use
  <2>3. used' = [used EXCEPT ![p] = [used[p] EXCEPT
                    !.turnover = used[p].turnover + i.notional, !.value = ValueAfter(p, i)]]
    BY <1>1 DEF Booked
  <2>4. QED
    BY <2>2, <2>3 DEF TypeOK
<1>6. TypeOK'
  BY <1>1, <1>2, <1>5 DEF TypeOK
<1>7. CursorOK'
  BY <1>1 DEF TypeOK, CursorOK
<1>8. QED
  BY <1>6, <1>7

LEMMA TypePlace ==
    ASSUME TypeInv, NEW p \in Procs, NEW i \in intents[p], Place(p, i) PROVE TypeInv'
<1> USE DEF TypeInv
<1> DEFINE o == [key |-> i.key, notional |-> i.notional, run |-> job[p].run,
                 filled |-> 0, status |-> "Working", outcome |-> "none",
                 record |-> "inflight", raised |-> FALSE, settled |-> job[p].settled,
                 again |-> link[p] = "again", cut |-> FALSE]
<1>1. /\ UNCHANGED <<job, intents, seen, used, link, held, ledger, torn, engaged, switches,
                     runs, crashes, drops>>
      /\ pc[p] = "qualify" /\ pc' = [pc EXCEPT ![p] = "monitor"] /\ "monitor" \in Stage
      /\ orders' = Append(orders, o)
      /\ cur' = [cur EXCEPT ![p] = Len(orders) + 1]
      /\ slips' = IF engaged THEN [slips EXCEPT ![p] = @ + 1] ELSE slips
  BY DEF Place, fileVars, counters, At, Stage
<1>2. o \in Order
  <2>1. i.key \in Key /\ i.notional \in Nat
    BY DEF TypeOK, Intent
  <2>2. job[p] \in Job
    BY DEF TypeOK
  <2>3. /\ job[p].run \in Nat /\ job[p].settled \in BOOLEAN
        /\ (link[p] = "again") \in BOOLEAN
    BY <2>2 DEF Job
  <2>4. QED
    BY <2>1, <2>3 DEF Order, BrokerStatus, RecordState
<1>3. /\ orders' \in Seq(Order)
      /\ DOMAIN orders' = DOMAIN orders \cup {Len(orders) + 1}
      /\ \A n \in DOMAIN orders : orders'[n] = orders[n]
      /\ orders'[Len(orders) + 1] = o
      /\ Len(orders) \in Nat
  <2> HIDE DEF o
  <2>1. orders \in Seq(Order)
    BY DEF TypeOK
  <2>2. QED
    BY <1>1, <1>2, <2>1
<1>4. TypeOK'
  <2>1. slips' \in [Procs -> Nat]
    BY <1>1 DEF TypeOK
  <2>2. cur' \in [Procs -> Nat]
    BY <1>1, <1>3 DEF TypeOK
  <2>3. pc' \in [Procs -> Stage]
    BY <1>1 DEF TypeOK
  <2>4. QED
    BY <1>1, <1>3, <2>1, <2>2, <2>3 DEF TypeOK
<1>5. CursorOK'
  <2>1. cur'[p] = Len(orders) + 1 /\ pc'[p] = "monitor" /\ cur'[p] # 0
    BY <1>1, <1>3 DEF TypeOK
  <2>2. orders'[cur'[p]].record = "inflight"
    BY <1>3, <2>1
  <2>3. \A q \in Procs \ {p} : cur'[q] = cur[q] /\ pc'[q] = pc[q]
    BY <1>1 DEF TypeOK
  <2>4. \A q \in Procs : cur[q] # 0 => cur[q] # Len(orders) + 1
    <3>1. Len(orders) + 1 \notin DOMAIN orders
      BY <1>3 DEF TypeOK
    <3>2. QED
      BY <3>1 DEF CursorOK
  <2>5. QED
    BY <1>3, <2>1, <2>2, <2>3, <2>4 DEF CursorOK
<1>6. QED
  BY <1>4, <1>5

\* A broker status comes back as one of the pipeline's statuses.
LEMMA ReportedType ==
    ASSUME NEW view, view.status \in BrokerStatus, view.filled \in Nat
    PROVE  ReportedStatus(view) \in OrderStatus
  BY DEF ReportedStatus, BrokerStatus, OrderStatus

LEMMA TypeReport == ASSUME TypeInv, NEW p \in Procs, Report(p) PROVE TypeInv'
<1> USE DEF TypeInv
<1> DEFINE c == cur[p]
<1>1. /\ UNCHANGED <<job, intents, seen, cur, link, held, ledger, torn, engaged, slips,
                     switches, runs, crashes, drops>>
      /\ pc[p] = "monitor" /\ pc' = [pc EXCEPT ![p] = "record"] /\ "record" \in Stage
  BY DEF Report, fileVars, switchVars, counters, At, Stage
<1>2. PICK view \in Views(orders[c]) :
        /\ orders' = [orders EXCEPT ![c].outcome = ReportedStatus(view)]
        /\ used' = [used EXCEPT ![p].open =
                      IF CountsAsOpen(ReportedStatus(view)) THEN @ + 1 ELSE @]
  BY DEF Report
<1>3. c \in DOMAIN orders /\ orders[c] \in Order /\ orders \in Seq(Order)
  BY <1>1 DEF TypeOK, CursorOK
<1>4. ReportedStatus(view) \in OrderStatus
  <2>1. view.status \in BrokerStatus /\ view.filled \in Nat
    BY <1>3 DEF Views, Order, BrokerStatus
  <2>2. QED
    BY <2>1, ReportedType
<1>5. [orders[c] EXCEPT !.outcome = ReportedStatus(view)] \in Order
  BY <1>3, <1>4 DEF Order
<1>6. /\ orders' \in Seq(Order) /\ DOMAIN orders' = DOMAIN orders
      /\ \A n \in DOMAIN orders : orders'[n].record = orders[n].record
  <2>1. orders' = [orders EXCEPT ![c] = [orders[c] EXCEPT !.outcome = ReportedStatus(view)]]
    BY <1>2, <1>3
  <2>2. orders' \in Seq(Order) /\ DOMAIN orders' = DOMAIN orders
    BY <1>3, <1>5, <2>1, UpdateType
  <2>3. \A n \in DOMAIN orders : orders'[n].record = orders[n].record
    BY <1>3, <2>1 DEF Order
  <2>4. QED
    BY <2>2, <2>3
<1>7. used' \in [Procs -> Use]
  <2>1. used[p] \in Use /\ used[p].open \in Nat
    BY DEF TypeOK, Use
  <2> DEFINE m == IF CountsAsOpen(ReportedStatus(view)) THEN used[p].open + 1
                  ELSE used[p].open
  <2>2. m \in Nat /\ used' = [used EXCEPT ![p].open = m]
    BY <1>2, <2>1
  <2> HIDE DEF m
  <2>3. [used[p] EXCEPT !.open = m] \in Use
    BY <2>1, <2>2 DEF Use
  <2>4. used' = [used EXCEPT ![p] = [used[p] EXCEPT !.open = m]]
    BY <2>2 DEF TypeOK
  <2>5. QED
    BY <2>3, <2>4 DEF TypeOK
<1>8. TypeOK'
  BY <1>1, <1>6, <1>7 DEF TypeOK
<1>9. CursorOK'
  BY <1>1, <1>6 DEF TypeOK, CursorOK
<1>10. QED
  BY <1>8, <1>9

\* An exception after placeOrder rewrites what the run made of the order.
LEMMA RaisedKeeps ==
    ASSUME TypeInv, NEW p \in Procs, MonitorRaises(p)
    PROVE  /\ orders' \in Seq(Order) /\ DOMAIN orders' = DOMAIN orders
           /\ cur[p] \in DOMAIN orders
           /\ \A n \in DOMAIN orders : n # cur[p] => orders'[n] = orders[n]
           /\ orders'[cur[p]] = [orders[cur[p]] EXCEPT !.outcome = "REJECTED", !.raised = TRUE]
           /\ \A n \in DOMAIN orders :
                 /\ orders'[n].key = orders[n].key
                 /\ orders'[n].notional = orders[n].notional
                 /\ orders'[n].run = orders[n].run
                 /\ orders'[n].filled = orders[n].filled
                 /\ orders'[n].status = orders[n].status
                 /\ orders'[n].record = orders[n].record
                 /\ orders'[n].settled = orders[n].settled
                 /\ orders'[n].again = orders[n].again
                 /\ orders'[n].cut = orders[n].cut
<1>1. /\ orders \in Seq(Order) /\ cur[p] \in DOMAIN orders /\ orders[cur[p]] \in Order
  BY DEF TypeInv, TypeOK, CursorOK, MonitorRaises
<1> DEFINE o == [orders[cur[p]] EXCEPT !.outcome = "REJECTED", !.raised = TRUE]
<1>2. orders' = [orders EXCEPT ![cur[p]] = o]
  BY <1>1 DEF MonitorRaises
<1>3. o \in Order
  BY <1>1 DEF Order, OrderStatus
<1>4. /\ o.key = orders[cur[p]].key /\ o.notional = orders[cur[p]].notional
      /\ o.run = orders[cur[p]].run /\ o.filled = orders[cur[p]].filled
      /\ o.status = orders[cur[p]].status /\ o.record = orders[cur[p]].record
      /\ o.settled = orders[cur[p]].settled /\ o.again = orders[cur[p]].again
      /\ o.cut = orders[cur[p]].cut
  BY <1>1 DEF Order
<1>5. orders' \in Seq(Order) /\ DOMAIN orders' = DOMAIN orders
  <2> HIDE DEF o
  <2>1. QED
    BY <1>1, <1>2, <1>3, UpdateType
<1>6. orders'[cur[p]] = o /\ \A n \in DOMAIN orders : n # cur[p] => orders'[n] = orders[n]
  <2> HIDE DEF o
  <2>1. QED
    BY <1>1, <1>2
<1>7. QED
  <2>1. orders'[cur[p]] = [orders[cur[p]] EXCEPT !.outcome = "REJECTED", !.raised = TRUE]
    BY <1>6
  <2> HIDE DEF o
  <2>2. QED
    BY <1>1, <1>4, <1>5, <1>6, <2>1

LEMMA TypeMonitorRaises ==
    ASSUME TypeInv, NEW p \in Procs, MonitorRaises(p) PROVE TypeInv'
<1> USE DEF TypeInv
<1>1. /\ UNCHANGED <<job, intents, seen, used, cur, link, held, ledger, torn,
                     engaged, slips, switches, runs, crashes, drops>>
      /\ pc[p] = "monitor" /\ pc' = [pc EXCEPT ![p] = "record"] /\ "record" \in Stage
  BY DEF MonitorRaises, fileVars, switchVars, counters, At, Stage
<1>2. /\ orders' \in Seq(Order) /\ DOMAIN orders' = DOMAIN orders
      /\ \A n \in DOMAIN orders : orders'[n].record = orders[n].record
  BY RaisedKeeps
<1>3. TypeOK'
  BY <1>1, <1>2 DEF TypeOK
<1>4. CursorOK'
  BY <1>1, <1>2 DEF TypeOK, CursorOK
<1>5. QED
  BY <1>3, <1>4

LEMMA TypeEnsureConnected ==
    ASSUME TypeInv, NEW p \in Procs, EnsureConnected(p) PROVE TypeInv'
<1>1. /\ UNCHANGED <<job, intents, seen, used, cur, orders, held, ledger, torn,
                     engaged, slips, switches, runs, crashes, drops>>
      /\ pc[p] = "submit" /\ At(p, "qualify") /\ "qualify" \in Stage
      /\ link' = link \/ link' = [link EXCEPT ![p] = "again"]
  BY DEF EnsureConnected, brokerVars, fileVars, switchVars, counters, Stage
<1>2. TypeOK'
  BY <1>1 DEF TypeInv, TypeOK, At, LinkState
<1>3. CursorOK'
  <2>1. cur[p] = 0
    BY <1>1 DEF TypeInv, CursorOK
  <2>2. QED
    BY <1>1, <2>1, CursorMoves DEF TypeInv, TypeOK
<1>4. QED
  BY <1>2, <1>3 DEF TypeInv

LEMMA TypeSubmitRaises ==
    ASSUME TypeInv, NEW p \in Procs, SubmitRaises(p) PROVE TypeInv'
<1>1. /\ UNCHANGED <<job, intents, seen, used, cur, link, orders, held, ledger, torn,
                     engaged, slips, switches, runs, crashes, drops>>
      /\ pc[p] \in {"submit", "qualify"} /\ At(p, "record") /\ "record" \in Stage
  BY DEF SubmitRaises, brokerVars, fileVars, switchVars, counters, Stage
<1>2. TypeOK'
  BY <1>1 DEF TypeInv, TypeOK, At
<1>3. CursorOK'
  <2>1. cur[p] = 0
    BY <1>1 DEF TypeInv, CursorOK
  <2>2. QED
    BY <1>1, <2>1, CursorMoves DEF TypeInv, TypeOK
<1>4. QED
  BY <1>2, <1>3 DEF TypeInv

\* Settling p's order leaves every other process's order as it was.
LEMMA SettleCursor ==
    ASSUME TypeInv, NEW p \in Procs, NEW state,
           orders' = Settle(p, state), DOMAIN orders' = DOMAIN orders,
           cur'[p] = 0, pc'[p] # "monitor",
           \A q \in Procs \ {p} : cur'[q] = cur[q] /\ pc'[q] = pc[q]
    PROVE  CursorOK'
<1> USE DEF TypeInv
<1>1. \A n \in DOMAIN orders : n # cur[p] => orders'[n] = orders[n]
  BY DEF Settle
<1>2. QED
  BY <1>1 DEF CursorOK

LEMMA TypeRecord ==
    ASSUME TypeInv, NEW p \in Procs, NEW i \in intents[p], Record(p, i) PROVE TypeInv'
<1> USE DEF TypeInv
<1>1. /\ UNCHANGED <<job, seen, used, link, held, engaged, slips, switches, runs, crashes,
                     drops>>
      /\ pc[p] = "record" /\ pc' = [pc EXCEPT ![p] = "check"] /\ "check" \in Stage
      /\ cur' = [cur EXCEPT ![p] = 0]
      /\ intents' = [intents EXCEPT ![p] = @ \ {i}]
      /\ ledger' = (IF torn THEN ledger ELSE ledger \cup {i.key})
      /\ torn' = FALSE
      /\ orders' = Settle(p, IF torn THEN "fused" ELSE "recorded")
  BY DEF Record, switchVars, counters, At, Stage
<1>2. orders' \in Seq(Order) /\ DOMAIN orders' = DOMAIN orders
  <2>1. (IF torn THEN "fused" ELSE "recorded") \in RecordState
    BY DEF RecordState, Lost
  <2>2. QED
    BY <1>1, <2>1, SettleType
<1>3. TypeOK'
  <2>1. ledger' \subseteq Key
    BY <1>1 DEF TypeOK, Intent
  <2>2. QED
    BY <1>1, <1>2, <2>1 DEF TypeOK
<1>4. CursorOK'
  <2>1. cur'[p] = 0 /\ pc'[p] # "monitor"
    BY <1>1 DEF TypeOK
  <2>2. \A q \in Procs \ {p} : cur'[q] = cur[q] /\ pc'[q] = pc[q]
    BY <1>1 DEF TypeOK
  <2>3. QED
    BY <1>1, <1>2, <2>1, <2>2, SettleCursor
<1>5. QED
  BY <1>3, <1>4

LEMMA TypeCrash == ASSUME TypeInv, NEW p \in Procs, Crash(p) PROVE TypeInv'
<1> USE DEF TypeInv
<1>1. /\ UNCHANGED <<held, ledger, engaged, slips, switches, runs, drops>>
      /\ Exit(p) /\ torn' \in {torn, TRUE} /\ crashes' = crashes + 1
      /\ orders' = Settle(p, "dropped")
  BY DEF Crash, switchVars
<1>2. orders' \in Seq(Order) /\ DOMAIN orders' = DOMAIN orders
  BY <1>1, SettleType DEF RecordState, Lost
<1>3. TypeOK'
  <2>1. crashes' \in Nat
    BY <1>1 DEF TypeOK
  <2>2. torn' \in BOOLEAN
    <3>1. torn \in BOOLEAN
      BY DEF TypeOK
    <3>2. QED
      BY <1>1, <3>1
  <2>3. QED
    BY <1>1, <1>2, <2>1, <2>2, ExitType DEF TypeOK
<1>4. CursorOK'
  <2>1. /\ cur'[p] = 0 /\ pc'[p] # "monitor"
        /\ \A q \in Procs \ {p} : cur'[q] = cur[q] /\ pc'[q] = pc[q]
    BY <1>1, ExitType
  <2>2. QED
    BY <1>1, <1>2, <2>1, SettleCursor
<1>5. QED
  BY <1>3, <1>4

\* A broker step rewrites status and filled quantity of one order, no more.
LEMMA BrokerStep ==
    ASSUME TypeInv, NEW n \in DOMAIN orders,
           Fill(n) \/ RequestCancel(n) \/ Cancelled(n) \/ BrokerRejects(n)
    PROVE  /\ UNCHANGED <<pc, job, intents, seen, used, cur, link, ledger, torn, engaged,
                          slips, switches, runs, crashes, drops>>
           /\ held' \in [Tickers -> Int]
           /\ \E f \in Nat, st \in BrokerStatus :
                 orders' = [orders EXCEPT ![n] = [orders[n] EXCEPT !.filled = f, !.status = st]]
<1> USE DEF TypeInv
<1>1. orders[n] \in Order /\ orders \in Seq(Order)
  BY DEF TypeOK
<1>2. /\ orders[n].filled \in Nat /\ orders[n].status \in BrokerStatus
      /\ orders[n].key \in Key /\ orders[n].key.ticker \in Tickers
  BY <1>1 DEF Order, Key
<1>3. UNCHANGED <<pc, job, intents, seen, used, cur, link, ledger, torn, engaged, slips,
                  switches, runs, crashes, drops>>
  BY DEF Fill, RequestCancel, Cancelled, BrokerRejects, procVars, fileVars, switchVars,
         counters
<1>4. CASE Fill(n)
  <2>1. PICK m \in 1 .. orders[n].key.qty - orders[n].filled :
          /\ orders' = [orders EXCEPT
                ![n].filled = orders[n].filled + m,
                ![n].status = IF orders[n].filled + m = orders[n].key.qty THEN "Filled" ELSE @]
          /\ held' = [held EXCEPT ![orders[n].key.ticker] = @ + Signed(orders[n], m)]
    BY <1>4 DEF Fill
  <2>2. m \in Nat /\ orders[n].filled + m \in Nat
    BY <1>2, <2>1 DEF Key
  <2>3. held' \in [Tickers -> Int]
    <3>1. Signed(orders[n], m) \in Int
      BY <2>2 DEF Signed
    <3>2. held \in [Tickers -> Int]
      BY DEF TypeOK
    <3>3. QED
      BY <1>2, <2>1, <3>1, <3>2
  <2>4. PICK st \in BrokerStatus :
          st = IF orders[n].filled + m = orders[n].key.qty THEN "Filled" ELSE orders[n].status
    BY <1>2 DEF BrokerStatus
  <2>5. orders' = [orders EXCEPT ![n] =
                     [orders[n] EXCEPT !.filled = orders[n].filled + m, !.status = st]]
    BY <1>1, <2>1, <2>4
  <2>6. QED
    BY <1>3, <2>2, <2>3, <2>5
<1>5. ASSUME NEW st \in BrokerStatus, orders' = [orders EXCEPT ![n].status = st], held' = held
      PROVE  /\ held' \in [Tickers -> Int]
             /\ orders' = [orders EXCEPT ![n] =
                  [orders[n] EXCEPT !.filled = orders[n].filled, !.status = st]]
  <2>1. [orders[n] EXCEPT !.status = st] =
          [orders[n] EXCEPT !.filled = orders[n].filled, !.status = st]
    BY <1>1 DEF Order
  <2>2. QED
    BY <1>1, <1>5, <2>1 DEF TypeOK
<1>6. CASE RequestCancel(n)
  BY <1>2, <1>3, <1>5, <1>6 DEF RequestCancel, BrokerStatus
<1>7. CASE Cancelled(n)
  BY <1>2, <1>3, <1>5, <1>7 DEF Cancelled, BrokerStatus
<1>8. CASE BrokerRejects(n)
  BY <1>2, <1>3, <1>5, <1>8 DEF BrokerRejects, BrokerStatus
<1>9. QED
  BY <1>4, <1>6, <1>7, <1>8

LEMMA TypeBroker == ASSUME TypeInv, Broker PROVE TypeInv'
<1> USE DEF TypeInv
<1>1. PICK n \in DOMAIN orders :
        Fill(n) \/ RequestCancel(n) \/ Cancelled(n) \/ BrokerRejects(n)
  BY DEF Broker
<1>2. PICK f \in Nat, st \in BrokerStatus :
        orders' = [orders EXCEPT ![n] = [orders[n] EXCEPT !.filled = f, !.status = st]]
  BY <1>1, BrokerStep
<1>3. orders[n] \in Order /\ orders \in Seq(Order)
  BY DEF TypeOK
<1>4. [orders[n] EXCEPT !.filled = f, !.status = st] \in Order
  BY <1>3 DEF Order
<1>5. /\ orders' \in Seq(Order) /\ DOMAIN orders' = DOMAIN orders
      /\ \A m \in DOMAIN orders : orders'[m].record = orders[m].record
  <2>1. orders' \in Seq(Order) /\ DOMAIN orders' = DOMAIN orders
    BY <1>2, <1>3, <1>4, UpdateType
  <2>2. \A m \in DOMAIN orders : orders'[m].record = orders[m].record
    BY <1>2, <1>3 DEF Order
  <2>3. QED
    BY <2>1, <2>2
<1>6. /\ UNCHANGED <<pc, job, intents, seen, used, cur, link, ledger, torn, engaged, slips,
                     switches, runs, crashes, drops>>
      /\ held' \in [Tickers -> Int]
  BY <1>1, BrokerStep
<1>7. TypeOK'
  BY <1>5, <1>6 DEF TypeOK
<1>8. CursorOK'
  BY <1>5, <1>6 DEF CursorOK
<1>9. QED
  BY <1>7, <1>8

LEMMA TypeStep == TypeInv /\ [Next]_vars => TypeInv'
<1> SUFFICES ASSUME TypeInv, [Next]_vars PROVE TypeInv'
  OBVIOUS
<1>1. ASSUME NEW p \in Procs, Process(p) PROVE TypeInv'
  <2>1. CASE AccountUnread(p) \/ BlockedByKillSwitch(p) \/ NoPrices(p) \/ Finish(p)
    BY <2>1, TypeQuietExit DEF AccountUnread, BlockedByKillSwitch, NoPrices, Finish
  <2>2. CASE Connect(p) \/ ReadAccount(p) \/ Prepare(p) \/ EnsureConnected(p)
             \/ SubmitRaises(p) \/ Report(p) \/ MonitorRaises(p) \/ Crash(p) \/ Drop(p)
    BY <2>2, TypeConnect, TypeReadAccount, TypePrepare, TypeEnsureConnected,
       TypeSubmitRaises, TypeReport, TypeMonitorRaises, TypeCrash, TypeDrop
  <2>3. CASE \E i \in intents[p] : Rejected(p, i) \/ Approved(p, i)
    BY <2>3, TypeRejected, TypeApproved
  <2>4. CASE \E i \in intents[p] : Place(p, i)
    BY <2>4, TypePlace
  <2>5. CASE \E i \in intents[p] : Record(p, i)
    BY <2>5, TypeRecord
  <2>6. QED
    BY <1>1, <2>1, <2>2, <2>3, <2>4, <2>5 DEF Process, Step
<1>2. CASE Engage \/ Disengage
  <2>1. UNCHANGED <<pc, job, intents, seen, used, cur, link, orders, held, ledger, torn,
                    runs, crashes, drops>>
    BY <1>2 DEF Engage, Disengage, procVars, brokerVars, fileVars, counters
  <2>2. engaged' \in BOOLEAN
    BY <1>2 DEF Engage, Disengage
  <2>3. switches' \in Nat
    BY <1>2 DEF Engage, Disengage, TypeInv, TypeOK
  <2>4. slips' \in [Procs -> Nat]
    BY <1>2 DEF Engage, Disengage, TypeInv, TypeOK
  <2>5. QED
    BY <2>1, <2>2, <2>3, <2>4 DEF TypeInv, TypeOK, CursorOK
<1>3. CASE UNCHANGED vars
  BY <1>3 DEF vars, procVars, brokerVars, fileVars, switchVars, counters, TypeInv, TypeOK,
              CursorOK
<1>4. QED
  BY <1>1, <1>2, <1>3, TypeBroker DEF Next

LEMMA TypeInvariant == Spec => []TypeInv
  BY TypeInit, TypeStep, PTL DEF Spec

\* Every variable keeps its kind, for all processes, targets and limits.
THEOREM TypeCorrect == Spec => []TypeOK
<1>1. TypeInv => TypeOK
  BY DEF TypeInv
<1>2. QED
  BY <1>1, TypeInvariant, PTL

-----------------------------------------------------------------------------
(* The kill switch *)

\* A process that already placed an order since the file was created is past
\* its submission, and its next check meets the file.
SlipInv ==
    /\ \A p \in Procs : slips[p] <= 1
    /\ \A p \in Procs : slips[p] # 0 => engaged /\ pc[p] \notin {"submit", "qualify"}

\* No step but Place raises a process's count, and only an approval while the
\* file is missing brings a process towards a submission.
LEMMA SlipStep == TypeInv /\ SlipInv /\ [Next]_vars => SlipInv'
<1> SUFFICES ASSUME TypeInv, SlipInv, [Next]_vars PROVE SlipInv'
  OBVIOUS
<1> USE DEF TypeInv
<1>1. ASSUME NEW p \in Procs, Process(p) PROVE SlipInv'
  <2>1. ASSUME NEW i \in intents[p], Place(p, i) PROVE SlipInv'
    <3>1. /\ pc[p] = "qualify" /\ pc' = [pc EXCEPT ![p] = "monitor"] /\ engaged' = engaged
          /\ slips' = IF engaged THEN [slips EXCEPT ![p] = @ + 1] ELSE slips
      BY <2>1 DEF Place, At
    <3>2. slips[p] = 0
      BY <3>1 DEF SlipInv, TypeOK
    <3>3. QED
      BY <3>1, <3>2 DEF SlipInv, TypeOK
  <2>2. ASSUME NEW i \in intents[p], Approved(p, i) PROVE SlipInv'
    <3>1. /\ ~engaged /\ engaged' = engaged /\ slips' = slips
          /\ pc' = pc \/ pc' = [pc EXCEPT ![p] = "submit"]
      BY <2>2 DEF Approved, PreTradeCheck, NotHalted, switchVars, At
    <3>2. QED
      BY <3>1 DEF SlipInv, TypeOK
  <2>3. ASSUME UNCHANGED switchVars, pc'[p] \notin {"submit", "qualify"} \/ pc'[p] = pc[p],
               \A q \in Procs \ {p} : pc'[q] = pc[q]
        PROVE  SlipInv'
    BY <2>3 DEF SlipInv, switchVars
  <2>4. CASE AccountUnread(p) \/ BlockedByKillSwitch(p) \/ NoPrices(p) \/ Finish(p) \/ Crash(p)
    <3>1. Exit(p) /\ UNCHANGED switchVars
      BY <2>4 DEF AccountUnread, BlockedByKillSwitch, NoPrices, Finish, Crash
    <3>2. QED
      BY <2>3, <3>1, ExitType
  <2>5. CASE Connect(p) \/ ReadAccount(p) \/ Prepare(p) \/ SubmitRaises(p)
             \/ Report(p) \/ MonitorRaises(p) \/ Drop(p)
    <3>1. /\ UNCHANGED switchVars
          /\ \/ pc' = pc
             \/ \E w \in {"connecting", "connected", "check", "record"} :
                   pc' = [pc EXCEPT ![p] = w]
      BY <2>5 DEF Connect, ReadAccount, Prepare, SubmitRaises, Report, MonitorRaises, Drop, At
    <3>2. QED
      BY <2>3, <3>1 DEF TypeOK
  <2>6. ASSUME NEW i \in intents[p], Rejected(p, i) \/ Record(p, i) PROVE SlipInv'
    <3>1. /\ UNCHANGED switchVars
          /\ pc' = pc \/ pc' = [pc EXCEPT ![p] = "check"]
      BY <2>6 DEF Rejected, Record, At
    <3>2. QED
      BY <2>3, <3>1 DEF TypeOK
  <2>7. CASE EnsureConnected(p)
    <3>1. /\ UNCHANGED switchVars
          /\ pc[p] = "submit" /\ pc' = [pc EXCEPT ![p] = "qualify"]
      BY <2>7 DEF EnsureConnected, At
    <3>2. QED
      BY <3>1 DEF SlipInv, TypeOK, switchVars
  <2>8. QED
    BY <1>1, <2>1, <2>2, <2>4, <2>5, <2>6, <2>7 DEF Process, Step
<1>2. CASE Broker
  <2>1. PICK n \in DOMAIN orders :
          Fill(n) \/ RequestCancel(n) \/ Cancelled(n) \/ BrokerRejects(n)
    BY <1>2 DEF Broker
  <2>2. UNCHANGED <<pc, engaged, slips>>
    BY <2>1, BrokerStep
  <2>3. QED
    BY <2>2 DEF SlipInv
<1>3. CASE Engage \/ Disengage
  <2>1. pc' = pc
    BY <1>3 DEF Engage, Disengage, procVars
  <2>2. CASE Engage
    BY <2>1, <2>2 DEF Engage, SlipInv
  <2>3. CASE Disengage
    <3>1. \A p \in Procs : slips'[p] = 0
      BY <2>3 DEF Disengage
    <3>2. QED
      BY <3>1 DEF SlipInv
  <2>4. QED
    BY <1>3, <2>2, <2>3
<1>4. CASE UNCHANGED vars
  BY <1>4 DEF vars, procVars, switchVars, SlipInv
<1>5. QED
  BY <1>1, <1>2, <1>3, <1>4 DEF Next

\* While the kill-switch file exists no process places a second order, for any
\* number of processes and client ids.
THEOREM KillSwitchHalts == Spec => []KillSwitchSlip
<1>1. Init => SlipInv
  BY DEF Init, SlipInv
<1>2. SlipInv => KillSwitchSlip
  BY DEF SlipInv, KillSwitchSlip
<1>3. QED
  BY <1>1, <1>2, TypeInvariant, SlipStep, PTL DEF Spec

-----------------------------------------------------------------------------
(* Idempotent submission *)

\* All processes connect with one client id, as one configuration gives them.
SharedClient == \A p, q \in Procs : ClientOf[p] = ClientOf[q]

Submitting == {"submit", "qualify", "monitor", "record"}

\* One process is connected at a time, and none that is not running.
LinksInv ==
    /\ \A p, q \in Procs : link[p] # "down" /\ link[q] # "down" => p = q
    /\ \A p \in Procs : pc[p] = "idle" => link[p] = "down"

\* What a process knows of the orders sent before it, as long as it has the
\* connection its run began with: it has seen the key of every order recorded
\* whose connection held, and until it places its intent, no order with that
\* intent's key is one the ledger promises to remember.
SessionOK(p) ==
    /\ \A a, b \in intents[p] : a.key.ticker = b.key.ticker => a = b
    /\ cur[p] # 0 =>
          /\ link[p] = "down" => orders[cur[p]].cut
          /\ \A i \in intents[p] : Foremost(i, p) => orders[cur[p]].key = i.key
    /\ pc[p] \in Submitting =>
          /\ ~job[p].dry
          /\ \A i \in intents[p] : Foremost(i, p) => i.key \in seen[p]
    /\ pc[p] \in {"check"} \cup Submitting /\ ~job[p].dry /\ link[p] = "first" =>
          \A n \in DOMAIN orders :
              orders[n].record = "recorded" /\ ~orders[n].cut => orders[n].key \in seen[p]
    /\ pc[p] \in {"submit", "qualify"} /\ link[p] = "first" =>
          \A i \in intents[p] : Foremost(i, p) =>
              \A n \in DOMAIN orders :
                  orders[n].key = i.key => orders[n].record \in Lost \/ orders[n].cut

SessionInv == LinksInv /\ \A p \in Procs : SessionOK(p)

\* What became of the record of each order.
RecordsInv ==
    /\ \A n \in DOMAIN orders :
          /\ orders[n].record = "inflight" => \E p \in Procs : cur[p] = n
          /\ orders[n].record = "recorded" => orders[n].key \in ledger
    /\ DuplicateOnlyAfterLoss

LedgerInv == TypeInv /\ SessionInv /\ RecordsInv

LEMMA LedgerInit == Init => SessionInv /\ RecordsInv
<1> SUFFICES ASSUME Init PROVE SessionInv /\ RecordsInv
  OBVIOUS
<1>1. /\ pc = [p \in Procs |-> "idle"] /\ intents = [p \in Procs |-> {}]
      /\ cur = [p \in Procs |-> 0] /\ link = [p \in Procs |-> "down"]
      /\ orders = <<>> /\ DOMAIN orders = {}
  BY DEF Init
<1>2. SessionInv
  BY <1>1 DEF SessionInv, LinksInv, SessionOK, Submitting
<1>3. RecordsInv
  BY <1>1 DEF RecordsInv, DuplicateOnlyAfterLoss
<1>4. QED
  BY <1>2, <1>3

\* A step of p that touches no other process and, of the orders, adds one only
\* over p's connection and changes the record only of the one p has in flight.
OthersUntouched(p) ==
    /\ \A q \in Procs \ {p} :
          /\ pc'[q] = pc[q] /\ job'[q] = job[q] /\ intents'[q] = intents[q]
          /\ seen'[q] = seen[q] /\ cur'[q] = cur[q] /\ link'[q] = link[q]
    /\ \A n \in DOMAIN orders :
          /\ n \in DOMAIN orders' /\ orders'[n].key = orders[n].key
          /\ orders[n].cut => orders'[n].cut
          /\ n # cur[p] => orders'[n].record = orders[n].record
                           /\ orders'[n].cut = orders[n].cut
          /\ orders[n].record \in Lost => orders'[n].record \in Lost
    /\ DOMAIN orders' # DOMAIN orders => link[p] # "down"

\* Such a step leaves what the other processes know as it was: one that has its
\* first connection is alone in being connected, so p added no order, and the
\* one it may have recorded lost its connection before.
LEMMA SessionFrame ==
    ASSUME LedgerInv, NEW p \in Procs, OthersUntouched(p), NEW q \in Procs \ {p}
    PROVE  SessionOK(q)'
<1> USE DEF LedgerInv, SessionInv
<1>1. \A i : Foremost(i, q)' <=> Foremost(i, q)
  BY DEF Foremost, OthersUntouched
<1>2. cur[q] # 0 => cur[q] \in DOMAIN orders
  BY DEF TypeInv, CursorOK
<1>3. SessionOK(q) /\ (cur[p] # 0 /\ link[p] = "down" => orders[cur[p]].cut)
  BY DEF SessionOK
<1>4. ASSUME link[q] = "first"
      PROVE  /\ DOMAIN orders' = DOMAIN orders
             /\ \A n \in DOMAIN orders :
                   ~orders'[n].cut => orders'[n].record = orders[n].record /\ ~orders[n].cut
  <2>1. link[p] = "down"
    BY <1>4 DEF LinksInv
  <2>2. 0 \notin DOMAIN orders
    BY DEF TypeInv, TypeOK
  <2>3. QED
    BY <1>3, <2>1, <2>2 DEF OthersUntouched
<1>5. \A a, b \in intents'[q] : a.key.ticker = b.key.ticker => a = b
  BY <1>3 DEF SessionOK, OthersUntouched
<1>6. cur'[q] # 0 =>
          /\ link'[q] = "down" => orders'[cur'[q]].cut
          /\ \A i \in intents'[q] : Foremost(i, q)' => orders'[cur'[q]].key = i.key
  BY <1>1, <1>2, <1>3 DEF SessionOK, OthersUntouched
<1>7. pc'[q] \in Submitting =>
          /\ ~job'[q].dry
          /\ \A i \in intents'[q] : Foremost(i, q)' => i.key \in seen'[q]
  BY <1>1, <1>3 DEF SessionOK, OthersUntouched
<1>8. ASSUME pc'[q] \in {"check"} \cup Submitting, ~job'[q].dry, link'[q] = "first",
             NEW n \in DOMAIN orders', orders'[n].record = "recorded", ~orders'[n].cut
      PROVE  orders'[n].key \in seen'[q]
  <2>1. link[q] = "first" /\ pc[q] = pc'[q] /\ ~job[q].dry /\ seen'[q] = seen[q]
    BY <1>8 DEF OthersUntouched
  <2>2. n \in DOMAIN orders /\ orders[n].record = "recorded" /\ ~orders[n].cut
    BY <1>4, <1>8, <2>1
  <2>3. orders[n].key \in seen[q]
    BY <1>3, <1>8, <2>1, <2>2 DEF SessionOK
  <2>4. QED
    BY <2>1, <2>2, <2>3 DEF OthersUntouched
<1>9. ASSUME pc'[q] \in {"submit", "qualify"}, link'[q] = "first",
             NEW i \in intents'[q], Foremost(i, q)',
             NEW n \in DOMAIN orders', orders'[n].key = i.key
      PROVE  orders'[n].record \in Lost \/ orders'[n].cut
  <2>1. link[q] = "first" /\ pc[q] = pc'[q] /\ i \in intents[q] /\ Foremost(i, q)
    BY <1>1, <1>9 DEF OthersUntouched
  <2>2. n \in DOMAIN orders /\ orders[n].key = i.key
    BY <1>4, <1>9, <2>1 DEF OthersUntouched
  <2>3. orders[n].record \in Lost \/ orders[n].cut
    BY <1>3, <1>9, <2>1, <2>2 DEF SessionOK
  <2>4. QED
    BY <2>2, <2>3 DEF OthersUntouched
<1>10. QED
  BY <1>5, <1>6, <1>7, <1>8, <1>9 DEF SessionOK

\* Steps that leave the connections and the set of running processes alone.
LEMMA LinksKeep ==
    ASSUME LinksInv, link' = link, \A q \in Procs : pc'[q] = "idle" => pc[q] = "idle"
    PROVE  LinksInv'
  BY DEF LinksInv

\* Steps that keep what the records say of every order, and the ledger.
SameRecords ==
    /\ DOMAIN orders' = DOMAIN orders
    /\ \A n \in DOMAIN orders :
          /\ orders'[n].key = orders[n].key /\ orders'[n].record = orders[n].record
          /\ orders'[n].again = orders[n].again /\ orders'[n].cut = orders[n].cut

LEMMA RecordsSame ==
    ASSUME RecordsInv, SameRecords, UNCHANGED <<cur, ledger>> PROVE RecordsInv'
  BY DEF RecordsInv, SameRecords, DuplicateOnlyAfterLoss

LEMMA LedgerSameRecords ==
    ASSUME LedgerInv, SameRecords, UNCHANGED <<pc, job, intents, seen, cur, link, ledger>>
    PROVE  SessionInv' /\ RecordsInv'
<1> USE DEF LedgerInv
<1>1. RecordsInv'
  BY RecordsSame
<1>2. LinksInv'
  BY LinksKeep DEF SessionInv
<1>3. \A p \in Procs : cur[p] # 0 => cur[p] \in DOMAIN orders
  BY DEF TypeInv, CursorOK
<1>4. \A p \in Procs : \A i \in intents[p] : Foremost(i, p)' <=> Foremost(i, p)
  BY DEF Foremost
<1>5. \A p \in Procs : SessionOK(p)'
  BY <1>3, <1>4 DEF SessionInv, SessionOK, SameRecords
<1>6. QED
  BY <1>1, <1>2, <1>5 DEF SessionInv

\* A process that ends without an order in flight disturbs nothing.
LEMMA LedgerQuietExit ==
    ASSUME LedgerInv, NEW p \in Procs, Exit(p), pc[p] \in {"connecting", "connected", "check"},
           UNCHANGED <<brokerVars, fileVars, switchVars, counters>>
    PROVE  SessionInv' /\ RecordsInv'
<1> USE DEF LedgerInv
<1>1. UNCHANGED <<orders, ledger>> /\ cur[p] = 0
  BY DEF brokerVars, fileVars, TypeInv, CursorOK
<1>2. /\ pc'[p] = "idle" /\ cur'[p] = 0 /\ intents'[p] = {} /\ link'[p] = "down"
      /\ cur' = cur
      /\ \A q \in Procs \ {p} :
            /\ pc'[q] = pc[q] /\ job'[q] = job[q] /\ intents'[q] = intents[q]
            /\ seen'[q] = seen[q] /\ cur'[q] = cur[q] /\ link'[q] = link[q]
  BY <1>1 DEF Exit, TypeInv, TypeOK
<1>3. OthersUntouched(p)
  BY <1>1, <1>2 DEF OthersUntouched
<1>4. LinksInv'
  BY <1>2 DEF SessionInv, LinksInv
<1>5. SessionOK(p)'
  BY <1>2 DEF SessionOK, Submitting
<1>6. SessionInv'
  BY <1>3, <1>4, <1>5, SessionFrame DEF SessionInv
<1>7. SameRecords
  BY <1>1 DEF SameRecords
<1>8. QED
  BY <1>1, <1>2, <1>6, <1>7, RecordsSame

\* The client id is free, so no other process is connected.
LEMMA LedgerConnect ==
    ASSUME SharedClient, LedgerInv, NEW p \in Procs, Connect(p)
    PROVE  SessionInv' /\ RecordsInv'
<1> USE DEF LedgerInv
<1>1. /\ UNCHANGED <<intents, seen, cur, orders, ledger>>
      /\ pc[p] = "idle" /\ pc' = [pc EXCEPT ![p] = "connecting"]
      /\ link' = [link EXCEPT ![p] = "first"]
      /\ job' = [job EXCEPT ![p].run = runs + 1]
      /\ \A q \in Procs : link[q] = "down"
  BY DEF Connect, At, ClientFree, SharedClient, brokerVars, fileVars
<1>2. /\ pc'[p] = "connecting" /\ link'[p] = "first" /\ cur[p] = 0
      /\ \A q \in Procs \ {p} :
            pc'[q] = pc[q] /\ link'[q] = "down" /\ link[q] = "down" /\ job'[q] = job[q]
  BY <1>1 DEF TypeInv, TypeOK, CursorOK
<1>3. OthersUntouched(p)
  BY <1>1, <1>2 DEF OthersUntouched
<1>4. LinksInv'
  BY <1>2 DEF SessionInv, LinksInv
<1>5. SessionOK(p)'
  BY <1>1, <1>2 DEF SessionInv, SessionOK, Submitting
<1>6. SessionInv'
  BY <1>3, <1>4, <1>5, SessionFrame DEF SessionInv
<1>7. SameRecords
  BY <1>1 DEF SameRecords
<1>8. QED
  BY <1>1, <1>6, <1>7, RecordsSame

LEMMA LedgerReadAccount ==
    ASSUME LedgerInv, NEW p \in Procs, ReadAccount(p) PROVE SessionInv' /\ RecordsInv'
<1> USE DEF LedgerInv
<1>1. /\ UNCHANGED <<intents, seen, cur, link, orders, ledger>>
      /\ pc[p] = "connecting" /\ pc' = [pc EXCEPT ![p] = "connected"]
      /\ \E j : job' = [job EXCEPT ![p] = j]
  BY DEF ReadAccount, At, brokerVars, fileVars
<1>2. /\ pc'[p] = "connected" /\ cur[p] = 0
      /\ \A q \in Procs \ {p} : pc'[q] = pc[q] /\ job'[q] = job[q]
  BY <1>1 DEF TypeInv, TypeOK, CursorOK
<1>3. OthersUntouched(p)
  BY <1>1, <1>2 DEF OthersUntouched
<1>4. LinksInv'
  BY <1>1, <1>2, LinksKeep DEF SessionInv
<1>5. SessionOK(p)'
  BY <1>1, <1>2 DEF SessionInv, SessionOK, Submitting
<1>6. SessionInv'
  BY <1>3, <1>4, <1>5, SessionFrame DEF SessionInv
<1>7. SameRecords
  BY <1>1 DEF SameRecords
<1>8. QED
  BY <1>1, <1>6, <1>7, RecordsSame

\* The ledger is read with the connection held: every order recorded until now
\* is in it.
LEMMA LedgerPrepare ==
    ASSUME LedgerInv, NEW p \in Procs, Prepare(p) PROVE SessionInv' /\ RecordsInv'
<1> USE DEF LedgerInv
<1>1. /\ UNCHANGED <<job, cur, link, orders, ledger>>
      /\ pc[p] = "connected" /\ pc' = [pc EXCEPT ![p] = "check"]
      /\ seen' = [seen EXCEPT ![p] = IF job[p].dry THEN {} ELSE ledger]
  BY DEF Prepare, KnownKeys, At, brokerVars, fileVars
<1>2. PICK px \in [Tickers -> Quotes] :
        intents' = [intents EXCEPT ![p] = BuildDeltaIntents(job[p], px)]
  BY DEF Prepare
<1>3. /\ intents'[p] = BuildDeltaIntents(job[p], px) /\ job[p] \in Job
      /\ pc'[p] = "check" /\ seen'[p] = (IF job[p].dry THEN {} ELSE ledger) /\ cur[p] = 0
      /\ \A q \in Procs \ {p} :
            pc'[q] = pc[q] /\ intents'[q] = intents[q] /\ seen'[q] = seen[q]
  BY <1>1, <1>2 DEF TypeInv, TypeOK, CursorOK
<1>4. OthersUntouched(p)
  BY <1>1, <1>3 DEF OthersUntouched
<1>5. LinksInv'
  BY <1>1, <1>3, LinksKeep DEF SessionInv
<1>6. \A a, b \in intents'[p] : a.key.ticker = b.key.ticker => a = b
  BY <1>3, BuildType
<1>7. SessionOK(p)'
  BY <1>1, <1>3, <1>6 DEF SessionOK, Submitting, RecordsInv
<1>8. SessionInv'
  BY <1>4, <1>5, <1>7, SessionFrame DEF SessionInv
<1>9. SameRecords
  BY <1>1 DEF SameRecords
<1>10. QED
  BY <1>1, <1>8, <1>9, RecordsSame

LEMMA LedgerRejected ==
    ASSUME LedgerInv, NEW p \in Procs, NEW i \in intents[p], Rejected(p, i)
    PROVE  SessionInv' /\ RecordsInv'
<1> USE DEF LedgerInv
<1>1. /\ UNCHANGED <<pc, job, seen, cur, link, orders, ledger>> /\ pc[p] = "check"
      /\ intents' = [intents EXCEPT ![p] = @ \ {i}]
  BY DEF Rejected, brokerVars, fileVars
<1>2. /\ intents'[p] \subseteq intents[p] /\ cur[p] = 0
      /\ \A q \in Procs \ {p} : intents'[q] = intents[q]
  BY <1>1 DEF TypeInv, TypeOK, CursorOK
<1>3. OthersUntouched(p)
  BY <1>1, <1>2 DEF OthersUntouched
<1>4. LinksInv'
  BY <1>1, LinksKeep DEF SessionInv
<1>5. SessionOK(p)'
  BY <1>1, <1>2 DEF SessionInv, SessionOK, Submitting
<1>6. SessionInv'
  BY <1>3, <1>4, <1>5, SessionFrame DEF SessionInv
<1>7. SameRecords
  BY <1>1 DEF SameRecords
<1>8. QED
  BY <1>1, <1>6, <1>7, RecordsSame

\* The foremost intent is the only one: no other has its ticker.
LEMMA ForemostUnique ==
    ASSUME LedgerInv, NEW p \in Procs,
           NEW a \in intents[p], NEW b \in intents[p], Foremost(a, p), Foremost(b, p)
    PROVE  a = b
<1>1. a \in Intent /\ b \in Intent
  BY DEF LedgerInv, TypeInv, TypeOK
<1>2. a.key.ticker \in Int /\ b.key.ticker \in Int
  BY <1>1 DEF Intent, Key, Tickers
<1>3. a.key.ticker = b.key.ticker
  BY <1>2 DEF Foremost
<1>4. QED
  BY <1>3 DEF LedgerInv, SessionInv, SessionOK

\* An intent whose key a connected process has not seen is the key of no order
\* the ledger promises to remember: one recorded would be seen, and one in
\* flight belongs to a process that has lost its connection.
LEMMA LedgerApproved ==
    ASSUME LedgerInv, NEW p \in Procs, NEW i \in intents[p], Approved(p, i)
    PROVE  SessionInv' /\ RecordsInv'
<1> USE DEF LedgerInv
<1>1. /\ UNCHANGED <<job, cur, link, orders, ledger>> /\ pc[p] = "check" /\ Foremost(i, p)
      /\ i.key \notin seen[p]
      /\ seen' = [seen EXCEPT ![p] = @ \cup {i.key}]
      /\ IF job[p].dry
         THEN intents' = [intents EXCEPT ![p] = @ \ {i}] /\ pc' = pc
         ELSE pc' = [pc EXCEPT ![p] = "submit"] /\ intents' = intents
  BY DEF Approved, PreTradeCheck, NotSeen, At, brokerVars, fileVars
<1>2. /\ seen'[p] = seen[p] \cup {i.key} /\ cur[p] = 0
      /\ intents'[p] \subseteq intents[p]
      /\ pc'[p] = IF job[p].dry THEN "check" ELSE "submit"
      /\ \A q \in Procs \ {p} :
            intents'[q] = intents[q] /\ pc'[q] = pc[q] /\ seen'[q] = seen[q]
  <2>1. /\ seen'[p] = seen[p] \cup {i.key} /\ cur[p] = 0
        /\ \A q \in Procs \ {p} : seen'[q] = seen[q]
    BY <1>1 DEF TypeInv, TypeOK, CursorOK
  <2>2. CASE job[p].dry
    BY <1>1, <2>1, <2>2 DEF TypeInv, TypeOK
  <2>3. CASE ~job[p].dry
    BY <1>1, <2>1, <2>3 DEF TypeInv, TypeOK
  <2>4. QED
    BY <2>2, <2>3
<1>3. OthersUntouched(p)
  BY <1>1, <1>2 DEF OthersUntouched
<1>4. LinksInv'
  BY <1>1, <1>2, LinksKeep DEF SessionInv
<1>5. SessionOK(p)
  BY DEF SessionInv
<1>6. ASSUME job[p].dry PROVE SessionOK(p)'
  <2>1. pc'[p] = "check" /\ UNCHANGED <<job, cur, link, orders, ledger>>
    BY <1>1, <1>2, <1>6
  <2>2. QED
    BY <1>2, <1>5, <1>6, <2>1 DEF SessionOK, Submitting
<1>7. ASSUME ~job[p].dry PROVE SessionOK(p)'
  <2>1. intents' = intents /\ pc'[p] = "submit"
    BY <1>1, <1>2, <1>7
  <2>2. \A a \in intents'[p] : Foremost(a, p)' => a = i
    BY <1>1, <2>1, ForemostUnique DEF Foremost
  <2>3. ASSUME link[p] = "first", NEW n \in DOMAIN orders, orders[n].key = i.key
        PROVE  orders[n].record \in Lost \/ orders[n].cut
    <3>1. orders[n].record \in RecordState /\ n # 0
      <4>1. orders[n] \in Order /\ 0 \notin DOMAIN orders
        BY DEF TypeInv, TypeOK
      <4>2. QED
        BY <4>1 DEF Order
    <3>2. orders[n].record = "recorded" => orders[n].cut
      BY <1>1, <1>5, <1>7, <2>3 DEF SessionOK
    <3>3. ASSUME orders[n].record = "inflight" PROVE orders[n].cut
      <4>1. PICK q \in Procs : cur[q] = n
        BY <3>3 DEF RecordsInv
      <4>2. q # p /\ link[q] = "down"
        BY <1>2, <2>3, <3>1, <4>1 DEF SessionInv, LinksInv
      <4>3. QED
        BY <3>1, <4>1, <4>2 DEF SessionInv, SessionOK
    <3>4. QED
      BY <3>1, <3>2, <3>3 DEF RecordState
  <2>4. \A n \in DOMAIN orders :
            link[p] = "first" /\ orders[n].record = "recorded" /\ ~orders[n].cut =>
                orders[n].key \in seen[p]
    BY <1>1, <1>5, <1>7 DEF SessionOK
  <2>5. QED
    BY <1>1, <1>2, <1>5, <1>7, <2>1, <2>2, <2>3, <2>4 DEF SessionOK, Submitting
<1>8. SessionInv'
  BY <1>3, <1>4, <1>6, <1>7, SessionFrame DEF SessionInv
<1>9. SameRecords
  BY <1>1 DEF SameRecords
<1>10. QED
  BY <1>1, <1>8, <1>9, RecordsSame

\* A connection taken again is not the first: nothing is claimed of its keys.
LEMMA LedgerEnsureConnected ==
    ASSUME SharedClient, LedgerInv, NEW p \in Procs, EnsureConnected(p)
    PROVE  SessionInv' /\ RecordsInv'
<1> USE DEF LedgerInv
<1>1. /\ UNCHANGED <<job, intents, seen, cur, orders, ledger>>
      /\ pc[p] = "submit" /\ pc' = [pc EXCEPT ![p] = "qualify"]
      /\ \/ link[p] # "down" /\ link' = link
         \/ /\ \A q \in Procs : link[q] = "down"
            /\ link' = [link EXCEPT ![p] = "again"]
  BY DEF EnsureConnected, At, ClientFree, SharedClient, brokerVars, fileVars
<1>2. /\ pc'[p] = "qualify" /\ cur[p] = 0
      /\ link'[p] # "down" /\ (link'[p] = "first" => link[p] = "first")
      /\ \A q \in Procs \ {p} : pc'[q] = pc[q] /\ link'[q] = link[q]
  BY <1>1 DEF TypeInv, TypeOK, CursorOK
<1>3. OthersUntouched(p)
  BY <1>1, <1>2 DEF OthersUntouched
<1>4. LinksInv'
  BY <1>1, <1>2 DEF SessionInv, LinksInv, TypeInv, TypeOK
<1>5. \A a \in intents[p] : Foremost(a, p)' <=> Foremost(a, p)
  BY <1>1 DEF Foremost
<1>6. SessionOK(p)'
  BY <1>1, <1>2, <1>5 DEF SessionInv, SessionOK, Submitting
<1>7. SessionInv'
  BY <1>3, <1>4, <1>6, SessionFrame DEF SessionInv
<1>8. SameRecords
  BY <1>1 DEF SameRecords
<1>9. QED
  BY <1>1, <1>7, <1>8, RecordsSame

LEMMA LedgerSubmitRaises ==
    ASSUME LedgerInv, NEW p \in Procs, SubmitRaises(p) PROVE SessionInv' /\ RecordsInv'
<1> USE DEF LedgerInv
<1>1. /\ UNCHANGED <<job, intents, seen, cur, link, orders, ledger>>
      /\ pc[p] \in {"submit", "qualify"} /\ pc' = [pc EXCEPT ![p] = "record"]
  BY DEF SubmitRaises, At, brokerVars, fileVars
<1>2. pc'[p] = "record" /\ cur[p] = 0 /\ \A q \in Procs \ {p} : pc'[q] = pc[q]
  BY <1>1 DEF TypeInv, TypeOK, CursorOK
<1>3. OthersUntouched(p)
  BY <1>1, <1>2 DEF OthersUntouched
<1>4. LinksInv'
  BY <1>1, <1>2, LinksKeep DEF SessionInv
<1>5. \A a \in intents[p] : Foremost(a, p)' <=> Foremost(a, p)
  BY <1>1 DEF Foremost
<1>6. SessionOK(p)'
  BY <1>1, <1>2, <1>5 DEF SessionInv, SessionOK, Submitting
<1>7. SessionInv'
  BY <1>3, <1>4, <1>6, SessionFrame DEF SessionInv
<1>8. SameRecords
  BY <1>1 DEF SameRecords
<1>9. QED
  BY <1>1, <1>7, <1>8, RecordsSame

LEMMA PlaceAppends ==
    ASSUME TypeInv, NEW p \in Procs, NEW i \in intents[p], Place(p, i)
    PROVE  /\ Len(orders) \in Nat
           /\ DOMAIN orders = 1 .. Len(orders)
           /\ DOMAIN orders' = DOMAIN orders \cup {Len(orders) + 1}
           /\ \A n \in DOMAIN orders : orders'[n] = orders[n]
           /\ orders'[Len(orders) + 1].key = i.key
           /\ orders'[Len(orders) + 1].record = "inflight"
           /\ orders'[Len(orders) + 1].again = (link[p] = "again")
           /\ orders'[Len(orders) + 1].cut = FALSE
           /\ cur' = [cur EXCEPT ![p] = Len(orders) + 1]
<1>1. orders \in Seq(Order)
  BY DEF TypeInv, TypeOK
<1>2. PICK o : /\ orders' = Append(orders, o) /\ o.key = i.key /\ o.record = "inflight"
               /\ o.again = (link[p] = "again") /\ o.cut = FALSE
               /\ cur' = [cur EXCEPT ![p] = Len(orders) + 1]
  BY DEF Place
<1>3. QED
  BY <1>1, <1>2

\* Over the first connection no order the ledger promises to remember has the
\* new order's key; over a later one it is exempt.
LEMMA LedgerPlace ==
    ASSUME LedgerInv, NEW p \in Procs, NEW i \in intents[p], Place(p, i)
    PROVE  SessionInv' /\ RecordsInv'
<1> USE DEF LedgerInv
<1>1. /\ UNCHANGED <<job, intents, seen, link, ledger>> /\ Foremost(i, p)
      /\ pc[p] = "qualify" /\ pc' = [pc EXCEPT ![p] = "monitor"] /\ link[p] # "down"
  BY DEF Place, At, fileVars
<1> DEFINE new == Len(orders) + 1
<1>2. /\ Len(orders) \in Nat /\ DOMAIN orders = 1 .. Len(orders)
      /\ DOMAIN orders' = DOMAIN orders \cup {new}
      /\ \A n \in DOMAIN orders : orders'[n] = orders[n] /\ n < new /\ n # new /\ n \in Nat
      /\ orders'[new].key = i.key /\ orders'[new].record = "inflight"
      /\ orders'[new].again = (link[p] = "again") /\ orders'[new].cut = FALSE
      /\ cur'[p] = new /\ new # 0 /\ new \in Nat
      /\ \A q \in Procs \ {p} : cur'[q] = cur[q]
  <2>1. /\ Len(orders) \in Nat /\ DOMAIN orders = 1 .. Len(orders)
        /\ cur' = [cur EXCEPT ![p] = new]
    BY PlaceAppends
  <2>2. \A n \in DOMAIN orders : n < new /\ n # new /\ n \in Nat
    BY <2>1
  <2>3. cur'[p] = new /\ new # 0 /\ \A q \in Procs \ {p} : cur'[q] = cur[q]
    BY <2>1 DEF TypeInv, TypeOK
  <2>4. /\ DOMAIN orders' = DOMAIN orders \cup {new}
        /\ \A n \in DOMAIN orders : orders'[n] = orders[n]
        /\ orders'[new].key = i.key /\ orders'[new].record = "inflight"
        /\ orders'[new].again = (link[p] = "again") /\ orders'[new].cut = FALSE
    BY PlaceAppends
  <2>5. new \in Nat
    BY <2>1
  <2> HIDE DEF new
  <2>6. QED
    BY <2>1, <2>2, <2>3, <2>4, <2>5
<1>3. pc'[p] = "monitor" /\ cur[p] = 0 /\ \A q \in Procs \ {p} : pc'[q] = pc[q]
  BY <1>1 DEF TypeInv, TypeOK, CursorOK
<1> HIDE DEF new
<1>4. \A a \in intents'[p] : Foremost(a, p)' => a = i
  BY <1>1, ForemostUnique DEF Foremost
<1>5. SessionOK(p)
  BY DEF SessionInv
<1>6. SessionOK(p)'
  <2>1. \A n \in DOMAIN orders' :
            orders'[n].record = "recorded" => n \in DOMAIN orders /\ orders'[n] = orders[n]
    BY <1>2
  <2>2. \A n \in DOMAIN orders :
            link[p] = "first" /\ orders[n].record = "recorded" /\ ~orders[n].cut =>
                orders[n].key \in seen[p]
    BY <1>1, <1>5 DEF SessionOK, Submitting
  <2>3. ~job[p].dry /\ i.key \in seen[p]
    BY <1>1, <1>5 DEF SessionOK, Submitting
  <2>4. \A a, b \in intents[p] : a.key.ticker = b.key.ticker => a = b
    BY <1>5 DEF SessionOK
  <2>5. \A n \in DOMAIN orders' :
            link'[p] = "first" /\ orders'[n].record = "recorded" /\ ~orders'[n].cut =>
                orders'[n].key \in seen'[p]
    BY <1>1, <2>1, <2>2
  <2>6. orders'[cur'[p]].key = i.key /\ link'[p] # "down"
    BY <1>1, <1>2
  <2>7. QED
    BY <1>1, <1>3, <1>4, <2>3, <2>4, <2>5, <2>6 DEF SessionOK, Submitting
<1>7. OthersUntouched(p)
  BY <1>1, <1>2, <1>3 DEF OthersUntouched
<1>8. LinksInv'
  BY <1>1, <1>3, LinksKeep DEF SessionInv
<1>9. SessionInv'
  BY <1>6, <1>7, <1>8, SessionFrame DEF SessionInv
<1>10. \A n \in DOMAIN orders :
          orders[n].record = "inflight" => \E q \in Procs : cur'[q] = n
  <2> SUFFICES ASSUME NEW n \in DOMAIN orders, orders[n].record = "inflight"
               PROVE  \E q \in Procs : cur'[q] = n
    OBVIOUS
  <2>1. PICK q \in Procs : cur[q] = n
    BY DEF RecordsInv
  <2>2. n # 0
    BY <1>2
  <2>3. q # p
    BY <1>3, <2>1, <2>2
  <2>4. QED
    BY <1>2, <2>1, <2>3
<1>11. link[p] = "first" => \A n \in DOMAIN orders :
          orders[n].key = i.key => orders[n].record \in Lost \/ orders[n].cut
  BY <1>1, <1>5 DEF SessionOK
<1>12. link[p] \in {"first", "again"}
  BY <1>1 DEF TypeInv, TypeOK, LinkState
<1>13. DuplicateOnlyAfterLoss'
  <2> SUFFICES ASSUME NEW m \in DOMAIN orders', NEW n \in DOMAIN orders',
                      m < n, orders'[m].key = orders'[n].key
               PROVE  orders'[m].record \in Lost \/ orders'[m].cut \/ orders'[n].again
    BY DEF DuplicateOnlyAfterLoss
  <2>1. m \in DOMAIN orders
    <3>1. m \in Nat /\ n \in Nat
      BY <1>2
    <3>2. m # new
      BY <1>2, <3>1
    <3>3. QED
      BY <1>2, <3>2
  <2>2. CASE n = new
    <3>1. CASE link[p] = "again"
      BY <1>2, <2>2, <3>1
    <3>2. CASE link[p] = "first"
      BY <1>2, <1>11, <2>1, <2>2, <3>2
    <3>3. QED
      BY <1>12, <3>1, <3>2
  <2>3. CASE n \in DOMAIN orders
    BY <1>2, <2>1, <2>3 DEF RecordsInv, DuplicateOnlyAfterLoss
  <2>4. QED
    BY <1>2, <2>2, <2>3
<1>14. \A n \in DOMAIN orders' :
          /\ orders'[n].record = "inflight" => \E q \in Procs : cur'[q] = n
          /\ orders'[n].record = "recorded" => orders'[n].key \in ledger'
  BY <1>1, <1>2, <1>10 DEF RecordsInv
<1>15. RecordsInv'
  BY <1>13, <1>14 DEF RecordsInv
<1>16. QED
  BY <1>9, <1>15

\* What a run reports of its order is no part of the order's record.
LEMMA OutcomeSameRecords ==
    ASSUME TypeInv, NEW p \in Procs, Report(p) \/ MonitorRaises(p) PROVE SameRecords
<1>1. orders \in Seq(Order) /\ cur[p] \in DOMAIN orders
  BY DEF TypeInv, TypeOK, CursorOK, Report, MonitorRaises
<1>2. orders[cur[p]] \in Order
  BY <1>1
<1>3. CASE Report(p)
  <2>1. PICK out : orders' = [orders EXCEPT ![cur[p]].outcome = out]
    BY <1>3 DEF Report
  <2>2. QED
    BY <1>1, <1>2, <2>1 DEF SameRecords, Order
<1>4. CASE MonitorRaises(p)
  BY <1>4, RaisedKeeps DEF SameRecords
<1>5. QED
  BY <1>3, <1>4

LEMMA BrokerSameRecords ==
    ASSUME TypeInv, Broker
    PROVE  SameRecords /\ UNCHANGED <<pc, job, intents, seen, cur, link, ledger>>
<1>1. PICK n \in DOMAIN orders :
        Fill(n) \/ RequestCancel(n) \/ Cancelled(n) \/ BrokerRejects(n)
  BY DEF Broker
<1>2. PICK f \in Nat, st \in BrokerStatus :
        orders' = [orders EXCEPT ![n] = [orders[n] EXCEPT !.filled = f, !.status = st]]
  BY <1>1, BrokerStep
<1>3. orders \in Seq(Order) /\ orders[n] \in Order
  BY DEF TypeInv, TypeOK
<1>4. SameRecords
  BY <1>2, <1>3 DEF SameRecords, Order
<1>5. QED
  BY <1>1, <1>4, BrokerStep

LEMMA LedgerMonitored ==
    ASSUME LedgerInv, NEW p \in Procs, Report(p) \/ MonitorRaises(p)
    PROVE  SessionInv' /\ RecordsInv'
<1> USE DEF LedgerInv
<1>1. /\ UNCHANGED <<job, intents, seen, cur, link, ledger>>
      /\ pc[p] = "monitor" /\ pc' = [pc EXCEPT ![p] = "record"]
  BY DEF Report, MonitorRaises, At, fileVars
<1>2. SameRecords
  BY OutcomeSameRecords
<1>3. /\ pc'[p] = "record" /\ cur[p] \in DOMAIN orders
      /\ \A q \in Procs \ {p} : pc'[q] = pc[q]
  BY <1>1 DEF TypeInv, TypeOK, CursorOK
<1>4. \A i \in intents[p] : Foremost(i, p)' <=> Foremost(i, p)
  BY <1>1 DEF Foremost
<1>5. OthersUntouched(p)
  BY <1>1, <1>2, <1>3 DEF OthersUntouched, SameRecords
<1>6. SessionOK(p)'
  BY <1>1, <1>2, <1>3, <1>4 DEF SessionInv, SessionOK, SameRecords, Submitting
<1>7. LinksInv'
  BY <1>1, <1>3, LinksKeep DEF SessionInv
<1>8. SessionInv'
  BY <1>5, <1>6, <1>7, SessionFrame DEF SessionInv
<1>9. QED
  BY <1>1, <1>2, <1>8, RecordsSame

\* Settling touches the record state of p's order alone.
LEMMA SettleRecords ==
    ASSUME TypeInv, NEW p \in Procs, NEW state \in RecordState
    PROVE  /\ DOMAIN Settle(p, state) = DOMAIN orders
           /\ \A n \in DOMAIN orders :
                 /\ Settle(p, state)[n].key = orders[n].key
                 /\ Settle(p, state)[n].again = orders[n].again
                 /\ Settle(p, state)[n].cut = orders[n].cut
                 /\ n = cur[p] => Settle(p, state)[n].record = state
                 /\ n # cur[p] => Settle(p, state)[n].record = orders[n].record
<1>1. orders \in Seq(Order) /\ \A n \in DOMAIN orders : orders[n] \in Order
  BY DEF TypeInv, TypeOK
<1>2. CASE cur[p] = 0
  <2>1. 0 \notin DOMAIN orders
    BY <1>1
  <2>2. QED
    BY <1>2, <2>1 DEF Settle
<1>3. CASE cur[p] # 0
  <2>1. Settle(p, state) = [orders EXCEPT ![cur[p]].record = state]
    BY <1>3 DEF Settle
  <2>2. QED
    BY <1>1, <2>1 DEF Order
<1>4. QED
  BY <1>2, <1>3

\* The order in flight is not lost yet, and no other process has it in flight.
LEMMA InFlight ==
    ASSUME TypeInv, NEW p \in Procs
    PROVE  \A n \in DOMAIN orders :
              n = cur[p] => orders[n].record = "inflight" /\ orders[n].record \notin Lost
<1>1. 0 \notin DOMAIN orders
  BY DEF TypeInv, TypeOK
<1>2. cur[p] # 0 => orders[cur[p]].record = "inflight"
  BY DEF TypeInv, CursorOK
<1>3. QED
  BY <1>1, <1>2 DEF Lost

\* Whatever becomes of its record, settling an order adds no duplicate: the
\* order in flight was not lost, so no later order leaned on its loss.
LEMMA SettleNoDuplicate ==
    ASSUME TypeInv, DuplicateOnlyAfterLoss, NEW p \in Procs, NEW state \in RecordState,
           orders' = Settle(p, state)
    PROVE  DuplicateOnlyAfterLoss'
<1> SUFFICES ASSUME NEW m \in DOMAIN orders', NEW n \in DOMAIN orders',
                    m < n, orders'[m].key = orders'[n].key
             PROVE  orders'[m].record \in Lost \/ orders'[m].cut \/ orders'[n].again
  BY DEF DuplicateOnlyAfterLoss
<1>1. /\ m \in DOMAIN orders /\ n \in DOMAIN orders
      /\ orders[m].key = orders[n].key
      /\ orders'[m].cut = orders[m].cut /\ orders'[n].again = orders[n].again
  BY SettleRecords
<1>2. orders[m].record \in Lost \/ orders[m].cut \/ orders[n].again
  BY <1>1 DEF DuplicateOnlyAfterLoss
<1>3. orders[m].record \in Lost => orders'[m].record = orders[m].record
  BY <1>1, InFlight, SettleRecords
<1>4. QED
  BY <1>1, <1>2, <1>3

\* Every order but p's stays in flight with its process.
LEMMA SettleOwners ==
    ASSUME LedgerInv, NEW p \in Procs, NEW state \in RecordState \ {"inflight"},
           orders' = Settle(p, state), cur' = [cur EXCEPT ![p] = 0]
    PROVE  \A n \in DOMAIN orders' :
              orders'[n].record = "inflight" => \E q \in Procs : cur'[q] = n
<1> USE DEF LedgerInv
<1> SUFFICES ASSUME NEW n \in DOMAIN orders', orders'[n].record = "inflight"
             PROVE  \E q \in Procs : cur'[q] = n
  OBVIOUS
<1>1. n \in DOMAIN orders /\ n # cur[p] /\ orders[n].record = "inflight"
  BY SettleRecords
<1>2. PICK q \in Procs : cur[q] = n
  BY <1>1 DEF RecordsInv
<1>3. cur'[q] = n
  BY <1>1, <1>2 DEF TypeInv, TypeOK
<1>4. QED
  BY <1>3

\* Settling is a step that touches no other process.
LEMMA SettleUntouched ==
    ASSUME TypeInv, NEW p \in Procs, NEW state \in RecordState, orders' = Settle(p, state),
           \A q \in Procs \ {p} :
              /\ pc'[q] = pc[q] /\ job'[q] = job[q] /\ intents'[q] = intents[q]
              /\ seen'[q] = seen[q] /\ cur'[q] = cur[q] /\ link'[q] = link[q]
    PROVE  OthersUntouched(p)
<1>1. /\ DOMAIN orders' = DOMAIN orders
      /\ \A n \in DOMAIN orders :
            /\ orders'[n].key = orders[n].key /\ orders'[n].cut = orders[n].cut
            /\ n # cur[p] => orders'[n].record = orders[n].record
  BY SettleRecords
<1>2. \A n \in DOMAIN orders : orders[n].record \in Lost => orders'[n].record \in Lost
  BY <1>1, InFlight
<1>3. QED
  BY <1>1, <1>2 DEF OthersUntouched

LEMMA LedgerRecord ==
    ASSUME LedgerInv, NEW p \in Procs, NEW i \in intents[p], Record(p, i)
    PROVE  SessionInv' /\ RecordsInv'
<1> USE DEF LedgerInv
<1> DEFINE state == IF torn THEN "fused" ELSE "recorded"
<1>1. /\ UNCHANGED <<job, seen, link>> /\ Foremost(i, p)
      /\ pc[p] = "record" /\ pc' = [pc EXCEPT ![p] = "check"]
      /\ cur' = [cur EXCEPT ![p] = 0]
      /\ intents' = [intents EXCEPT ![p] = @ \ {i}]
      /\ ledger' = (IF torn THEN ledger ELSE ledger \cup {i.key})
      /\ orders' = Settle(p, state)
  BY DEF Record, At
<1>2. state \in RecordState \ {"inflight"}
  BY DEF RecordState, Lost
<1>3. /\ DOMAIN orders' = DOMAIN orders
      /\ \A n \in DOMAIN orders :
            /\ orders'[n].key = orders[n].key /\ orders'[n].cut = orders[n].cut
            /\ n = cur[p] => orders'[n].record = state
            /\ n # cur[p] => orders'[n].record = orders[n].record
  BY <1>1, <1>2, SettleRecords
<1>4. /\ pc'[p] = "check" /\ cur'[p] = 0 /\ intents'[p] \subseteq intents[p]
      /\ \A q \in Procs \ {p} :
            pc'[q] = pc[q] /\ cur'[q] = cur[q] /\ intents'[q] = intents[q]
  BY <1>1 DEF TypeInv, TypeOK
<1>5. SessionOK(p)
  BY DEF SessionInv
<1>6. /\ i.key \in seen[p] /\ ~job[p].dry
      /\ \A a, b \in intents[p] : a.key.ticker = b.key.ticker => a = b
      /\ cur[p] # 0 => orders[cur[p]].key = i.key
  BY <1>1, <1>5 DEF SessionOK, Submitting
<1>7. 0 \notin DOMAIN orders
  BY DEF TypeInv, TypeOK
<1>8. SessionOK(p)'
  <2>1. ASSUME link[p] = "first", NEW n \in DOMAIN orders,
               orders'[n].record = "recorded", ~orders'[n].cut
        PROVE  orders'[n].key \in seen[p]
    <3>1. CASE n = cur[p]
      BY <1>3, <1>6, <1>7, <3>1
    <3>2. CASE n # cur[p]
      BY <1>1, <1>3, <1>5, <1>6, <2>1, <3>2 DEF SessionOK, Submitting
    <3>3. QED
      BY <3>1, <3>2
  <2>2. QED
    BY <1>1, <1>3, <1>4, <1>6, <2>1 DEF SessionOK, Submitting
<1>9. OthersUntouched(p)
  BY <1>1, <1>2, <1>4, SettleUntouched
<1>10. LinksInv'
  BY <1>1, <1>4, LinksKeep DEF SessionInv
<1>11. SessionInv'
  BY <1>8, <1>9, <1>10, SessionFrame DEF SessionInv
<1>12. \A n \in DOMAIN orders : orders'[n].record = "recorded" => orders'[n].key \in ledger'
  <2> SUFFICES ASSUME NEW n \in DOMAIN orders, orders'[n].record = "recorded"
               PROVE  orders[n].key \in ledger'
    BY <1>3
  <2>1. CASE n = cur[p]
    <3>1. ~torn /\ cur[p] # 0
      BY <1>3, <1>7, <2>1 DEF TypeInv, TypeOK
    <3>2. QED
      BY <1>1, <1>6, <2>1, <3>1
  <2>2. CASE n # cur[p]
    <3>1. orders[n].key \in ledger
      BY <1>3, <2>2 DEF RecordsInv
    <3>2. QED
      BY <1>1, <3>1
  <2>3. QED
    BY <2>1, <2>2
<1>13. DuplicateOnlyAfterLoss'
  BY <1>1, <1>2, SettleNoDuplicate DEF RecordsInv
<1>14. RecordsInv'
  BY <1>1, <1>2, <1>3, <1>12, <1>13, SettleOwners DEF RecordsInv
<1>15. QED
  BY <1>11, <1>14

LEMMA LedgerCrash ==
    ASSUME LedgerInv, NEW p \in Procs, Crash(p) PROVE SessionInv' /\ RecordsInv'
<1> USE DEF LedgerInv
<1>1. /\ ledger' = ledger /\ cur' = [cur EXCEPT ![p] = 0]
      /\ orders' = Settle(p, "dropped") /\ "dropped" \in RecordState \ {"inflight"}
  BY DEF Crash, Exit, RecordState, Lost
<1>2. /\ pc'[p] = "idle" /\ cur'[p] = 0 /\ intents'[p] = {} /\ link'[p] = "down"
      /\ \A q \in Procs \ {p} :
            /\ pc'[q] = pc[q] /\ job'[q] = job[q] /\ intents'[q] = intents[q]
            /\ seen'[q] = seen[q] /\ cur'[q] = cur[q] /\ link'[q] = link[q]
  BY DEF Crash, Exit, TypeInv, TypeOK
<1>3. SessionOK(p)'
  BY <1>2 DEF SessionOK, Submitting
<1>4. OthersUntouched(p)
  BY <1>1, <1>2, SettleUntouched
<1>5. LinksInv'
  BY <1>2 DEF SessionInv, LinksInv
<1>6. SessionInv'
  BY <1>3, <1>4, <1>5, SessionFrame DEF SessionInv
<1>7. DuplicateOnlyAfterLoss'
  BY <1>1, SettleNoDuplicate DEF RecordsInv
<1>8. \A n \in DOMAIN orders' : orders'[n].record = "recorded" => orders'[n].key \in ledger'
  BY <1>1, SettleRecords DEF RecordsInv
<1>9. RecordsInv'
  BY <1>1, <1>7, <1>8, SettleOwners DEF RecordsInv
<1>10. QED
  BY <1>6, <1>9

\* A process that loses its connection takes its order in flight out of what
\* the ledger promises.
LEMMA LedgerDrop ==
    ASSUME LedgerInv, NEW p \in Procs, Drop(p) PROVE SessionInv' /\ RecordsInv'
<1> USE DEF LedgerInv
<1>1. /\ UNCHANGED <<pc, job, intents, seen, cur, ledger>>
      /\ link' = [link EXCEPT ![p] = "down"]
  BY DEF Drop, fileVars
<1>2. /\ DOMAIN orders' = DOMAIN orders
      /\ \A n \in DOMAIN orders :
            /\ orders'[n].key = orders[n].key /\ orders'[n].record = orders[n].record
            /\ orders'[n].again = orders[n].again
            /\ n = cur[p] => orders'[n].cut
            /\ n # cur[p] => orders'[n].cut = orders[n].cut
  BY DropKeeps
<1>3. link'[p] = "down" /\ \A q \in Procs \ {p} : link'[q] = link[q]
  BY <1>1 DEF TypeInv, TypeOK
<1>4. OthersUntouched(p)
  BY <1>1, <1>2, <1>3 DEF OthersUntouched
<1>5. LinksInv'
  BY <1>1, <1>3 DEF SessionInv, LinksInv
<1>6. \A i : Foremost(i, p)' <=> Foremost(i, p)
  BY <1>1 DEF Foremost
<1>7. cur[p] # 0 => cur[p] \in DOMAIN orders
  BY DEF TypeInv, CursorOK
<1>8. SessionOK(p)'
  BY <1>1, <1>2, <1>3, <1>6, <1>7 DEF SessionInv, SessionOK
<1>9. SessionInv'
  BY <1>4, <1>5, <1>8, SessionFrame DEF SessionInv
<1>10. RecordsInv'
  BY <1>1, <1>2 DEF RecordsInv, DuplicateOnlyAfterLoss
<1>11. QED
  BY <1>9, <1>10

LEMMA LedgerStep ==
    ASSUME SharedClient, LedgerInv, [Next]_vars PROVE SessionInv' /\ RecordsInv'
<1>1. ASSUME NEW p \in Procs, Process(p) PROVE SessionInv' /\ RecordsInv'
  <2>1. CASE AccountUnread(p) \/ BlockedByKillSwitch(p) \/ NoPrices(p) \/ Finish(p)
    BY <2>1, LedgerQuietExit DEF AccountUnread, BlockedByKillSwitch, NoPrices, Finish
  <2>2. CASE Connect(p) \/ ReadAccount(p) \/ Prepare(p) \/ EnsureConnected(p)
    BY <2>2, LedgerConnect, LedgerReadAccount, LedgerPrepare, LedgerEnsureConnected
  <2>3. CASE SubmitRaises(p) \/ Report(p) \/ MonitorRaises(p) \/ Crash(p) \/ Drop(p)
    BY <2>3, LedgerSubmitRaises, LedgerMonitored, LedgerCrash, LedgerDrop
  <2>4. CASE \E i \in intents[p] : Rejected(p, i) \/ Approved(p, i)
    BY <2>4, LedgerRejected, LedgerApproved
  <2>5. CASE \E i \in intents[p] : Place(p, i)
    BY <2>5, LedgerPlace
  <2>6. CASE \E i \in intents[p] : Record(p, i)
    BY <2>6, LedgerRecord
  <2>7. QED
    BY <1>1, <2>1, <2>2, <2>3, <2>4, <2>5, <2>6 DEF Process, Step
<1>2. ASSUME UNCHANGED <<pc, job, intents, seen, cur, link, orders, ledger>>
      PROVE  SessionInv' /\ RecordsInv'
  BY <1>2, LedgerSameRecords DEF SameRecords
<1>3. CASE Broker
  BY <1>3, BrokerSameRecords, LedgerSameRecords DEF LedgerInv
<1>4. CASE Engage \/ Disengage
  BY <1>2, <1>4 DEF Engage, Disengage, procVars, brokerVars, fileVars
<1>5. CASE UNCHANGED vars
  BY <1>2, <1>5 DEF vars, procVars, brokerVars, fileVars
<1>6. QED
  BY <1>1, <1>3, <1>4, <1>5 DEF Next

LEMMA LedgerInvariant == ASSUME SharedClient PROVE Spec => []LedgerInv
<1>1. Init => LedgerInv
  BY TypeInit, LedgerInit DEF LedgerInv
<1>2. LedgerInv /\ [Next]_vars => LedgerInv'
  BY TypeStep, LedgerStep DEF LedgerInv
<1>3. QED
  BY <1>1, <1>2, PTL DEF Spec

\* With one client id, an order is sent a second time only if the record of the
\* first was lost in a crash or in the partial line a crash left behind, or one
\* of the two met a broken connection: for any number of processes, restarts,
\* reconnections, targets, prices and broker answers.
THEOREM DuplicateNeedsLoss == ASSUME SharedClient PROVE Spec => []DuplicateOnlyAfterLoss
<1>1. LedgerInv => DuplicateOnlyAfterLoss
  BY DEF LedgerInv, RecordsInv
<1>2. QED
  BY <1>1, LedgerInvariant, PTL

-----------------------------------------------------------------------------
(* The orders keep the ledger's promise *)

\* Orders that count, in flight or recorded, have different keys.
LEMMA LiveKeysUnique ==
    ASSUME LedgerInv, NEW m \in DOMAIN orders, NEW n \in DOMAIN orders,
           orders[m].key = orders[n].key, Counted(m), Counted(n),
           orders[m].record \notin Lost, orders[n].record \notin Lost
    PROVE  m = n
<1>1. m \in Int /\ n \in Int
  BY DEF LedgerInv, TypeInv, TypeOK
<1>2. ~(m < n) /\ ~(n < m)
  BY DEF LedgerInv, RecordsInv, DuplicateOnlyAfterLoss, Counted
<1>3. QED
  BY <1>1, <1>2

LEMMA KeysOfSame ==
    ASSUME SameRecords, NEW states PROVE KeysOf(states)' = KeysOf(states)
  BY DEF SameRecords, KeysOf, Counted

\* Counted of the next state, for an order named by this one.
CountedNext(n) == ~orders'[n].again /\ ~orders'[n].cut

PromiseVars == <<KeysOf({"inflight"}), KeysOf({"recorded"})>>

\* An order that counts and is in flight is the only one of its key.
LEMMA InFlightUnique ==
    ASSUME LedgerInv, NEW c \in DOMAIN orders, orders[c].record = "inflight", Counted(c)
    PROVE  \A n \in DOMAIN orders :
              n # c /\ orders[n].key = orders[c].key /\ Counted(n) => orders[n].record \in Lost
<1>1. "inflight" \notin Lost
  BY DEF Lost
<1>2. QED
  BY <1>1, LiveKeysUnique

\* An order that leaves the orders in flight, to be remembered or not, is
\* Remember or Forget of its key if it counted, and nothing if it did not.
LEMMA LeavePromise ==
    ASSUME LedgerInv, NEW c \in DOMAIN orders, orders[c].record = "inflight",
           DOMAIN orders' = DOMAIN orders,
           \A n \in DOMAIN orders : orders'[n].key = orders[n].key,
           \A n \in DOMAIN orders \ {c} :
               (CountedNext(n) <=> Counted(n)) /\ orders'[n].record = orders[n].record,
           CountedNext(c) => Counted(c),
           CountedNext(c) => orders'[c].record # "inflight"
    PROVE  [Promise!Next]_PromiseVars
<1> DEFINE k == orders[c].key
<1>1. CASE ~Counted(c)
  <2>1. KeysOf({"inflight"})' = KeysOf({"inflight"}) /\ KeysOf({"recorded"})' = KeysOf({"recorded"})
    BY <1>1 DEF KeysOf, Counted, CountedNext
  <2>2. QED
    BY <2>1 DEF PromiseVars
<1>2. CASE Counted(c)
  <2>1. \A n \in DOMAIN orders :
            n # c /\ orders[n].key = k /\ Counted(n) => orders[n].record \in Lost
    BY <1>2, InFlightUnique
  <2>2. k \in KeysOf({"inflight"})
    BY <1>2 DEF KeysOf
  <2>3. KeysOf({"inflight"})' = KeysOf({"inflight"}) \ {k}
    <3>1. \A n \in DOMAIN orders :
            CountedNext(n) /\ orders'[n].record = "inflight" <=>
              Counted(n) /\ orders[n].record = "inflight" /\ orders[n].key # k
      BY <2>1 DEF Lost
    <3>2. QED
      BY <3>1 DEF KeysOf, Counted, CountedNext
  <2>4. \/ KeysOf({"recorded"})' = KeysOf({"recorded"})
        \/ KeysOf({"recorded"})' = KeysOf({"recorded"}) \cup {k}
    <3>1. CASE CountedNext(c) /\ orders'[c].record = "recorded"
      <4>1. \A n \in DOMAIN orders :
              CountedNext(n) /\ orders'[n].record = "recorded" <=>
                (Counted(n) /\ orders[n].record = "recorded") \/ n = c
        BY <3>1
      <4>2. QED
        BY <4>1 DEF KeysOf, Counted, CountedNext
    <3>2. CASE ~(CountedNext(c) /\ orders'[c].record = "recorded")
      <4>1. \A n \in DOMAIN orders :
              CountedNext(n) /\ orders'[n].record = "recorded" <=>
                Counted(n) /\ orders[n].record = "recorded"
        BY <3>2
      <4>2. QED
        BY <4>1 DEF KeysOf, Counted, CountedNext
    <3>3. QED
      BY <3>1, <3>2
  <2>5. Promise!Remember(k) \/ Promise!Forget(k)
    BY <2>2, <2>3, <2>4 DEF Promise!Remember, Promise!Forget
  <2>6. Promise!Next
    BY <2>2, <2>5 DEF Promise!Next
  <2>7. QED
    BY <2>6
<1>3. QED
  BY <1>1, <1>2

\* A record written or dropped takes the order in flight out of those sent.
LEMMA SettlePromise ==
    ASSUME LedgerInv, NEW p \in Procs, NEW state \in RecordState \ {"inflight"},
           orders' = Settle(p, state)
    PROVE  [Promise!Next]_PromiseVars
<1> USE DEF LedgerInv
<1>1. CASE cur[p] = 0
  <2>1. SameRecords
    BY <1>1 DEF Settle, SameRecords
  <2>2. QED
    BY <2>1, KeysOfSame DEF PromiseVars
<1>2. CASE cur[p] # 0
  <2>1. cur[p] \in DOMAIN orders /\ orders[cur[p]].record = "inflight"
    BY <1>2 DEF TypeInv, CursorOK
  <2>2. /\ DOMAIN orders' = DOMAIN orders
        /\ \A n \in DOMAIN orders :
              /\ orders'[n].key = orders[n].key
              /\ CountedNext(n) <=> Counted(n)
              /\ n = cur[p] => orders'[n].record = state
              /\ n # cur[p] => orders'[n].record = orders[n].record
    BY SettleRecords DEF Counted, CountedNext
  <2>3. QED
    BY <2>1, <2>2, LeavePromise
<1>3. QED
  BY <1>1, <1>2

\* So does the loss of the connection before the record is written.
LEMMA DropPromise ==
    ASSUME LedgerInv, NEW p \in Procs, Drop(p) PROVE [Promise!Next]_PromiseVars
<1> USE DEF LedgerInv
<1>1. CASE cur[p] = 0
  <2>1. orders' = orders
    BY <1>1 DEF Drop
  <2>2. SameRecords
    BY <2>1 DEF SameRecords
  <2>3. QED
    BY <2>2, KeysOfSame DEF PromiseVars
<1>2. CASE cur[p] # 0
  <2>1. cur[p] \in DOMAIN orders /\ orders[cur[p]].record = "inflight"
    BY <1>2 DEF TypeInv, CursorOK
  <2>2. /\ DOMAIN orders' = DOMAIN orders
        /\ \A n \in DOMAIN orders :
              /\ orders'[n].key = orders[n].key /\ orders'[n].record = orders[n].record
              /\ orders'[n].again = orders[n].again
              /\ n = cur[p] => orders'[n].cut
              /\ n # cur[p] => orders'[n].cut = orders[n].cut
    BY DropKeeps
  <2>3. ~CountedNext(cur[p]) /\ \A n \in DOMAIN orders \ {cur[p]} : CountedNext(n) <=> Counted(n)
    BY <2>1, <2>2 DEF Counted, CountedNext
  <2>4. QED
    BY <2>1, <2>2, <2>3, LeavePromise
<1>3. QED
  BY <1>1, <1>2

\* placeOrder over the first connection is Send of a key the promise does not
\* hold; over a later one it is no business of the promise.
LEMMA PlacePromise ==
    ASSUME LedgerInv, NEW p \in Procs, NEW i \in intents[p], Place(p, i)
    PROVE  [Promise!Next]_PromiseVars
<1> USE DEF LedgerInv
<1> DEFINE new == Len(orders) + 1
<1>1. /\ Len(orders) \in Nat /\ DOMAIN orders = 1 .. Len(orders)
      /\ DOMAIN orders' = DOMAIN orders \cup {new}
      /\ \A n \in DOMAIN orders : orders'[n] = orders[n]
      /\ orders'[new].key = i.key /\ orders'[new].record = "inflight"
      /\ orders'[new].again = (link[p] = "again") /\ orders'[new].cut = FALSE
  BY PlaceAppends
<1> HIDE DEF new
<1>2. \A n \in DOMAIN orders : CountedNext(n) <=> Counted(n)
  BY <1>1 DEF Counted, CountedNext
<1>3. CountedNext(new) <=> link[p] # "again"
  BY <1>1 DEF CountedNext
<1>4. KeysOf({"recorded"})' = KeysOf({"recorded"})
  BY <1>1, <1>2 DEF KeysOf, Counted, CountedNext
<1>5. CASE link[p] = "again"
  <2>1. KeysOf({"inflight"})' = KeysOf({"inflight"})
    BY <1>1, <1>2, <1>3, <1>5 DEF KeysOf, Counted, CountedNext
  <2>2. QED
    BY <1>4, <2>1 DEF PromiseVars
<1>6. CASE link[p] = "first"
  <2>1. \A n \in DOMAIN orders :
            orders[n].key = i.key => orders[n].record \in Lost \/ orders[n].cut
    BY <1>6 DEF Place, SessionInv, SessionOK
  <2>2. i.key \notin KeysOf({"inflight"}) \cup KeysOf({"recorded"})
    BY <2>1 DEF KeysOf, Counted, Lost
  <2>3. KeysOf({"inflight"})' = KeysOf({"inflight"}) \cup {i.key}
    BY <1>1, <1>2, <1>3, <1>6 DEF KeysOf, Counted, CountedNext
  <2>4. Promise!Send(i.key) /\ i.key \in KeysOf({"inflight"})'
    BY <1>4, <2>2, <2>3 DEF Promise!Send
  <2>5. QED
    BY <2>4 DEF Promise!Next
<1>7. link[p] \in {"first", "again"}
  BY DEF Place, TypeInv, TypeOK, LinkState
<1>8. QED
  BY <1>5, <1>6, <1>7

LEMMA PromiseStep ==
    ASSUME LedgerInv, [Next]_vars PROVE [Promise!Next]_PromiseVars
<1> USE DEF LedgerInv
<1>1. ASSUME SameRecords PROVE [Promise!Next]_PromiseVars
  BY <1>1, KeysOfSame DEF PromiseVars
<1>2. ASSUME orders' = orders PROVE [Promise!Next]_PromiseVars
  BY <1>1, <1>2 DEF SameRecords
<1>3. ASSUME NEW p \in Procs, Process(p) PROVE [Promise!Next]_PromiseVars
  <2>1. CASE \/ AccountUnread(p) \/ BlockedByKillSwitch(p) \/ NoPrices(p) \/ Finish(p)
             \/ Connect(p) \/ ReadAccount(p) \/ Prepare(p) \/ EnsureConnected(p)
             \/ SubmitRaises(p)
    BY <1>2, <2>1 DEF AccountUnread, BlockedByKillSwitch, NoPrices, Finish, Connect,
                      ReadAccount, Prepare, EnsureConnected, SubmitRaises, brokerVars
  <2>2. CASE \E i \in intents[p] : Rejected(p, i) \/ Approved(p, i)
    BY <1>2, <2>2 DEF Rejected, Approved, brokerVars
  <2>3. CASE \E i \in intents[p] : Place(p, i)
    BY <2>3, PlacePromise
  <2>4. CASE Report(p) \/ MonitorRaises(p)
    BY <1>1, <2>4, OutcomeSameRecords
  <2>5. CASE Crash(p) \/ \E i \in intents[p] : Record(p, i)
    <3>1. PICK state \in RecordState \ {"inflight"} : orders' = Settle(p, state)
      BY <2>5 DEF Crash, Record, RecordState, Lost
    <3>2. QED
      BY <3>1, SettlePromise
  <2>6. CASE Drop(p)
    BY <2>6, DropPromise
  <2>7. QED
    BY <1>3, <2>1, <2>2, <2>3, <2>4, <2>5, <2>6 DEF Process, Step
<1>4. CASE Broker
  BY <1>1, <1>4, BrokerSameRecords
<1>5. CASE Engage \/ Disengage
  BY <1>2, <1>5 DEF Engage, Disengage, brokerVars
<1>6. CASE UNCHANGED vars
  BY <1>2, <1>6 DEF vars, brokerVars
<1>7. QED
  BY <1>3, <1>4, <1>5, <1>6 DEF Next

\* With one client id the execution system implements OrderPromise for the
\* orders whose connection held.
THEOREM ImplementsPromise == ASSUME SharedClient PROVE Spec => LedgerKeepsPromise
<1>1. Init => Promise!Init
  <2>1. ASSUME Init PROVE DOMAIN orders = {}
    BY <2>1 DEF Init
  <2>2. QED
    BY <2>1 DEF Promise!Init, KeysOf
<1>2. LedgerInv /\ [Next]_vars => [Promise!Next]_PromiseVars
  BY PromiseStep
<1>3. QED
  BY <1>1, <1>2, LedgerInvariant, PTL DEF Spec, LedgerKeepsPromise, Promise!Spec, PromiseVars

-----------------------------------------------------------------------------
(* Reported outcomes *)

\* What the broker's word on an order means, and what the run made of it.
OutcomeOK(o) ==
    /\ o.filled <= o.key.qty
    /\ o.status = "Filled" => o.filled = o.key.qty
    /\ o.status = "Rejected" => o.filled = 0
    /\ o.outcome = "FILLED" => o.status = "Filled"
    /\ o.outcome = "REJECTED" /\ ~o.raised => o.status = "Rejected"

OutcomeInv == \A n \in DOMAIN orders : OutcomeOK(orders[n])

\* Settling a record leaves the outcome alone.
LEMMA SettleOutcome ==
    ASSUME TypeInv, OutcomeInv, NEW p \in Procs, NEW state, orders' = Settle(p, state)
    PROVE  OutcomeInv'
<1>1. orders \in Seq(Order) /\ \A n \in DOMAIN orders : orders[n] \in Order
  BY DEF TypeInv, TypeOK
<1>2. CASE cur[p] = 0
  BY <1>2 DEF Settle, OutcomeInv
<1>3. CASE cur[p] # 0
  <2>1. orders' = [orders EXCEPT ![cur[p]].record = state]
    BY <1>3 DEF Settle
  <2>2. \A n \in DOMAIN orders' : n \in DOMAIN orders /\ OutcomeOK(orders'[n])
    BY <1>1, <2>1 DEF OutcomeInv, OutcomeOK, Order
  <2>3. QED
    BY <2>2 DEF OutcomeInv
<1>4. QED
  BY <1>2, <1>3

LEMMA PlaceOutcome ==
    ASSUME TypeInv, OutcomeInv, NEW p \in Procs, NEW i \in intents[p], Place(p, i)
    PROVE  OutcomeInv'
<1>1. orders \in Seq(Order) /\ i.key.qty \in Nat
  BY DEF TypeInv, TypeOK, Intent, Key
<1>2. PICK o : /\ orders' = Append(orders, o)
               /\ o.key = i.key /\ o.filled = 0 /\ o.status = "Working" /\ o.outcome = "none"
  BY DEF Place
<1>3. OutcomeOK(o)
  BY <1>1, <1>2 DEF OutcomeOK
<1>4. \A n \in DOMAIN orders' : orders'[n] = o \/ (n \in DOMAIN orders /\ orders'[n] = orders[n])
  BY <1>1, <1>2
<1>5. QED
  BY <1>3, <1>4 DEF OutcomeInv

\* The client calls an order FILLED or REJECTED only on the broker's last word.
LEMMA ReportOutcome ==
    ASSUME TypeInv, OutcomeInv, NEW p \in Procs, Report(p) PROVE OutcomeInv'
<1> DEFINE c == cur[p]
<1>1. orders \in Seq(Order) /\ c \in DOMAIN orders /\ orders[c] \in Order
  BY DEF TypeInv, TypeOK, CursorOK, Report
<1>2. PICK view \in Views(orders[c]) :
        orders' = [orders EXCEPT ![c].outcome = ReportedStatus(view)]
  BY DEF Report
<1>3. /\ ReportedStatus(view) = "FILLED" => orders[c].status = "Filled"
      /\ ReportedStatus(view) = "REJECTED" => orders[c].status = "Rejected"
  <2>1. view.status \in {orders[c].status, "Working"}
    BY DEF Views
  <2>2. orders[c].status \in BrokerStatus
    BY <1>1 DEF Order
  <2>3. /\ ReportedStatus(view) = "FILLED" => view.status = "Filled"
        /\ ReportedStatus(view) = "REJECTED" => view.status = "Rejected"
    BY <2>1, <2>2 DEF ReportedStatus, BrokerStatus
  <2>4. QED
    BY <2>1, <2>3
<1>4. \A n \in DOMAIN orders' : n \in DOMAIN orders /\ (n # c => orders'[n] = orders[n])
  BY <1>1, <1>2
<1>5. OutcomeOK(orders'[c])
  BY <1>1, <1>2, <1>3 DEF OutcomeInv, OutcomeOK, Order
<1>6. QED
  BY <1>4, <1>5 DEF OutcomeInv

\* An exception says REJECTED of an order it marks, and nothing of the others.
LEMMA RaisedOutcome ==
    ASSUME TypeInv, OutcomeInv, NEW p \in Procs, MonitorRaises(p) PROVE OutcomeInv'
<1> DEFINE o == orders[cur[p]]
           x == [o EXCEPT !.outcome = "REJECTED", !.raised = TRUE]
<1>1. /\ DOMAIN orders' = DOMAIN orders /\ cur[p] \in DOMAIN orders
      /\ \A n \in DOMAIN orders : n # cur[p] => orders'[n] = orders[n]
      /\ orders'[cur[p]] = x
  BY RaisedKeeps
<1>2. o \in Order /\ OutcomeOK(o)
  BY <1>1 DEF TypeInv, TypeOK, OutcomeInv
<1> HIDE DEF o
<1>3. OutcomeOK(x)
  BY <1>2 DEF OutcomeOK, Order
<1> HIDE DEF x
<1>4. QED
  BY <1>1, <1>3 DEF OutcomeInv

\* Nor does a lost connection change what is known of an order.
LEMMA DropOutcome ==
    ASSUME TypeInv, OutcomeInv, NEW p \in Procs, Drop(p) PROVE OutcomeInv'
  BY DropKeeps DEF OutcomeInv, OutcomeOK

LEMMA BrokerOutcome == ASSUME TypeInv, OutcomeInv, Broker PROVE OutcomeInv'
<1>1. PICK n \in DOMAIN orders :
        Fill(n) \/ RequestCancel(n) \/ Cancelled(n) \/ BrokerRejects(n)
  BY DEF Broker
<1>2. orders \in Seq(Order) /\ orders[n] \in Order /\ OutcomeOK(orders[n])
  BY DEF TypeInv, TypeOK, OutcomeInv
<1>3. orders[n].filled \in Nat /\ orders[n].key.qty \in Nat
  BY <1>2 DEF Order, Key
<1>4. CASE Fill(n)
  <2>1. PICK m \in 1 .. orders[n].key.qty - orders[n].filled :
          orders' = [orders EXCEPT
            ![n].filled = orders[n].filled + m,
            ![n].status = IF orders[n].filled + m = orders[n].key.qty THEN "Filled" ELSE @]
    BY <1>4 DEF Fill
  <2>2. /\ orders[n].filled + m <= orders[n].key.qty
        /\ orders[n].status \in {"Working", "PendingCancel"}
    BY <1>3, <1>4, <2>1 DEF Fill, IsLive, Live
  <2>3. /\ DOMAIN orders' = DOMAIN orders
        /\ \A k \in DOMAIN orders : k # n => orders'[k] = orders[k]
    BY <1>2, <2>1
  <2>4. OutcomeOK(orders'[n])
    BY <1>2, <2>1, <2>2 DEF OutcomeOK, Order
  <2>5. QED
    BY <2>3, <2>4 DEF OutcomeInv
<1>5. CASE RequestCancel(n) \/ Cancelled(n) \/ BrokerRejects(n)
  <2>1. /\ orders[n].status \in {"Working", "PendingCancel"}
        /\ \E st \in {"PendingCancel", "Cancelled", "Rejected"} :
              /\ orders' = [orders EXCEPT ![n].status = st]
              /\ st = "Rejected" => orders[n].filled = 0
    BY <1>5 DEF RequestCancel, Cancelled, BrokerRejects, IsLive, Live
  <2>2. /\ DOMAIN orders' = DOMAIN orders
        /\ \A k \in DOMAIN orders : k # n => orders'[k] = orders[k]
    BY <1>2, <2>1
  <2>3. OutcomeOK(orders'[n])
    BY <1>2, <2>1 DEF OutcomeOK, Order
  <2>4. QED
    BY <2>2, <2>3 DEF OutcomeInv
<1>6. QED
  BY <1>1, <1>4, <1>5

LEMMA OutcomeStep == TypeInv /\ OutcomeInv /\ [Next]_vars => OutcomeInv'
<1> SUFFICES ASSUME TypeInv, OutcomeInv, [Next]_vars PROVE OutcomeInv'
  OBVIOUS
<1>1. ASSUME orders' = orders PROVE OutcomeInv'
  BY <1>1 DEF OutcomeInv
<1>2. ASSUME NEW p \in Procs, Process(p) PROVE OutcomeInv'
  <2>1. CASE \/ AccountUnread(p) \/ BlockedByKillSwitch(p) \/ NoPrices(p) \/ Finish(p)
             \/ Connect(p) \/ ReadAccount(p) \/ Prepare(p) \/ EnsureConnected(p)
             \/ SubmitRaises(p)
    BY <1>1, <2>1 DEF AccountUnread, BlockedByKillSwitch, NoPrices, Finish, Connect,
                      ReadAccount, Prepare, EnsureConnected, SubmitRaises, brokerVars
  <2>2. CASE \E i \in intents[p] : Rejected(p, i) \/ Approved(p, i)
    BY <1>1, <2>2 DEF Rejected, Approved, brokerVars
  <2>3. CASE \E i \in intents[p] : Place(p, i)
    BY <2>3, PlaceOutcome
  <2>4. CASE Report(p) \/ MonitorRaises(p) \/ Drop(p)
    BY <2>4, ReportOutcome, RaisedOutcome, DropOutcome
  <2>5. CASE Crash(p) \/ \E i \in intents[p] : Record(p, i)
    BY <2>5, SettleOutcome DEF Crash, Record
  <2>6. QED
    BY <1>2, <2>1, <2>2, <2>3, <2>4, <2>5 DEF Process, Step
<1>3. CASE Broker
  BY <1>3, BrokerOutcome
<1>4. CASE Engage \/ Disengage
  BY <1>1, <1>4 DEF Engage, Disengage, brokerVars
<1>5. CASE UNCHANGED vars
  BY <1>1, <1>5 DEF vars, brokerVars
<1>6. QED
  BY <1>2, <1>3, <1>4, <1>5 DEF Next

\* FILLED, and REJECTED under the broker's id, are final at the broker too,
\* however stale the client's view of the order was.
THEOREM FinalOutcomes == Spec => []ReportedFinalIsFinal
<1>1. Init => OutcomeInv
  <2>1. ASSUME Init PROVE DOMAIN orders = {}
    BY <2>1 DEF Init
  <2>2. QED
    BY <2>1 DEF OutcomeInv
<1>2. OutcomeInv => ReportedFinalIsFinal
  <2> SUFFICES ASSUME OutcomeInv, NEW n \in DOMAIN orders
               PROVE  /\ orders[n].outcome = "FILLED" => orders[n].filled = orders[n].key.qty
                      /\ orders[n].outcome = "REJECTED" /\ ~orders[n].raised =>
                            orders[n].filled = 0 /\ ~IsLive(n)
    BY DEF ReportedFinalIsFinal
  <2>1. OutcomeOK(orders[n])
    BY DEF OutcomeInv
  <2>2. QED
    BY <2>1 DEF OutcomeOK, IsLive, Live
<1>3. QED
  BY <1>1, <1>2, TypeInvariant, OutcomeStep, PTL DEF Spec

-----------------------------------------------------------------------------
(* The limits of one run *)

\* What the orders s of run r come to.
NotionalOf(s, r) ==
    SumOver([n \in DOMAIN s |-> s[n].notional], {n \in DOMAIN s : s[n].run = r})

\* What one process's books say of the orders of its run: they count at least
\* what was sent, and what is approved but not yet sent besides.
BooksOK(p) ==
    /\ pc[p] \in {"idle", "connecting", "connected"} => used[p].turnover = 0
    /\ \A a, b \in intents[p] : a.key.ticker = b.key.ticker => a = b
    /\ pc[p] # "idle" =>
          /\ job[p].run \in 1 .. runs
          /\ NotionalOf(orders, job[p].run) <= used[p].turnover
          /\ used[p].turnover <= MaxDailyTurnover
    /\ pc[p] \in {"submit", "qualify"} =>
          \A i \in intents[p] : Foremost(i, p) =>
              NotionalOf(orders, job[p].run) + i.notional <= used[p].turnover

\* Every order belongs to a run that was started, and no two processes share a
\* run; no run, running or gone, is over the limit.
RunsApart ==
    /\ \A n \in DOMAIN orders : orders[n].run \in 1 .. runs
    /\ \A p, q \in Procs :
          pc[p] # "idle" /\ pc[q] # "idle" /\ job[p].run = job[q].run => p = q
WithinLimits == \A r \in Nat : NotionalOf(orders, r) <= MaxDailyTurnover
LimitsInv == RunsApart /\ WithinLimits /\ \A p \in Procs : BooksOK(p)

\* A fold of the orders of a run, and the sum it is.
NotionalFold(s, I) ==
    (CHOOSE h : h = [S \in SUBSET I |->
        IF S = {} THEN 0
        ELSE s[CHOOSE x \in S : TRUE].notional + h[S \ {CHOOSE x \in S : TRUE}]])[I]

\* The community modules' fold over the orders of a run is their sum.
LEMMA FoldIsSum ==
    ASSUME NEW s, NEW I, I \subseteq DOMAIN s
    PROVE  NotionalFold(s, I) = SumOver([n \in DOMAIN s |-> s[n].notional], I)
<1> DEFINE g == [n \in DOMAIN s |-> s[n].notional]
           F(h) == [S \in SUBSET I |->
                      IF S = {} THEN 0 ELSE s[Pick(S)].notional + h[S \ {Pick(S)}]]
<1>1. \A h : F(h) = [S \in SUBSET I |->
                       IF S = {} THEN 0 ELSE g[Pick(S)] + h[S \ {Pick(S)}]]
  <2>1. \A S \in SUBSET I : S # {} => g[Pick(S)] = s[Pick(S)].notional
    BY PickIn
  <2>2. QED
    BY <2>1
<1>2. \A h : h = F(h) <=> IsSum(h, g, I)
  BY <1>1 DEF IsSum
<1>3. (CHOOSE h : h = F(h)) = (CHOOSE h : IsSum(h, g, I))
  <2> HIDE DEF F, g
  <2>1. QED
    BY <1>2
<1>4. QED
  BY <1>3 DEF NotionalFold, SumOver, Pick

\* The turnover the runs check is that sum, before and after a step.
LEMMA TurnoverIsSum ==
    /\ \A r : RunTurnover(r) = NotionalOf(orders, r)
    /\ \A r : RunTurnover(r)' = NotionalOf(orders', r)
<1> SUFFICES ASSUME NEW r
             PROVE  /\ RunTurnover(r) = NotionalOf(orders, r)
                    /\ RunTurnover(r)' = NotionalOf(orders', r)
  OBVIOUS
<1>1. RunTurnover(r) = NotionalFold(orders, {n \in DOMAIN orders : orders[n].run = r})
  BY DEF RunTurnover, FoldFunctionOnSet, MapThenFoldSet, NotionalFold
<1>2. RunTurnover(r)' = NotionalFold(orders', {n \in DOMAIN orders' : orders'[n].run = r})
  BY DEF RunTurnover, FoldFunctionOnSet, MapThenFoldSet, NotionalFold
<1>3. \A s : {n \in DOMAIN s : s[n].run = r} \subseteq DOMAIN s
  OBVIOUS
<1>4. QED
  BY <1>1, <1>2, <1>3, FoldIsSum DEF NotionalOf

\* The orders of a run are finitely many, and come to a natural number.
LEMMA RunSumType ==
    ASSUME NEW s \in Seq(Order), NEW r
    PROVE  /\ IsFiniteSet({n \in DOMAIN s : s[n].run = r})
           /\ NotionalOf(s, r) \in Nat
<1>1. IsFiniteSet(DOMAIN s)
  <2>1. DOMAIN s = 1 .. Len(s) /\ Len(s) \in Nat
    OBVIOUS
  <2>2. QED
    BY <2>1, FS_Interval
<1>2. IsFiniteSet({n \in DOMAIN s : s[n].run = r})
  <2>1. \A T \in SUBSET DOMAIN s : IsFiniteSet(T)
    BY <1>1, FS_Subset
  <2>2. QED
    BY <2>1
<1> DEFINE I == {n \in DOMAIN s : s[n].run = r}
           g == [n \in DOMAIN s |-> s[n].notional]
<1>3. \A n \in I : g[n] \in Nat /\ g[n] \in Int
  <2>1. \A n \in DOMAIN s : s[n] \in Order
    OBVIOUS
  <2>2. QED
    BY <2>1 DEF Order
<1>4. SumOver(g, I) \in Nat
  <2> HIDE DEF g, I
  <2>1. IsFiniteSet(I)
    BY <1>2 DEF I
  <2>2. QED
    BY <1>3, <2>1, SumType
<1>5. QED
  BY <1>2, <1>4 DEF NotionalOf

\* The sum depends on which orders the run sent and for how much, no more.
LEMMA RunSumSame ==
    ASSUME NEW s \in Seq(Order), NEW t \in Seq(Order), DOMAIN t = DOMAIN s, NEW r,
           \A n \in DOMAIN s : t[n].run = s[n].run /\ t[n].notional = s[n].notional
    PROVE  NotionalOf(t, r) = NotionalOf(s, r)
<1> DEFINE I == {n \in DOMAIN s : s[n].run = r}
           g == [n \in DOMAIN s |-> s[n].notional]
           f == [n \in DOMAIN t |-> t[n].notional]
<1>1. I = {n \in DOMAIN t : t[n].run = r}
  OBVIOUS
<1>2. \A n \in I : g[n] = f[n]
  OBVIOUS
<1>3. IsFiniteSet(I)
  BY RunSumType
<1>4. SumOver(g, I) = SumOver(f, I)
  <2> HIDE DEF g, f, I
  <2>1. QED
    BY <1>2, <1>3, SumCongruent
<1>5. QED
  BY <1>1, <1>4 DEF NotionalOf

\* A new order adds its notional to its own run, and to no other.
LEMMA RunSumAppend ==
    ASSUME NEW s \in Seq(Order), NEW o \in Order, NEW r
    PROVE  NotionalOf(Append(s, o), r) =
               IF o.run = r THEN o.notional + NotionalOf(s, r) ELSE NotionalOf(s, r)
<1> DEFINE t == Append(s, o)
           new == Len(s) + 1
           I == {n \in DOMAIN s : s[n].run = r}
           J == {n \in DOMAIN t : t[n].run = r}
           g == [n \in DOMAIN s |-> s[n].notional]
           f == [n \in DOMAIN t |-> t[n].notional]
<1>1. /\ t \in Seq(Order) /\ DOMAIN t = DOMAIN s \cup {new} /\ new \notin DOMAIN s
      /\ t[new] = o /\ \A n \in DOMAIN s : t[n] = s[n]
  OBVIOUS
<1> HIDE DEF t, new
<1>2. IsFiniteSet(I) /\ IsFiniteSet(J)
  BY <1>1, RunSumType
<1>3. J = IF o.run = r THEN I \cup {new} ELSE I
  BY <1>1
<1>4. \A n \in I : g[n] = f[n]
  BY <1>1
<1>5. SumOver(g, I) = SumOver(f, I)
  <2> HIDE DEF g, f, I
  <2>1. QED
    BY <1>2, <1>4, SumCongruent
<1>6. CASE o.run = r
  <2>1. \A n \in J : f[n] \in Int
    <3>1. \A n \in DOMAIN t : t[n] \in Order
      BY <1>1
    <3>2. QED
      BY <3>1 DEF Order
  <2>2. new \in J /\ J \ {new} = I /\ f[new] = o.notional
    BY <1>1, <1>3, <1>6
  <2>3. SumOver(f, J) = f[new] + SumOver(f, J \ {new})
    <3> HIDE DEF f, J
    <3>1. QED
      BY <1>2, <2>1, <2>2, SumAdd
  <2>4. QED
    BY <1>5, <1>6, <2>2, <2>3 DEF NotionalOf, t
<1>7. CASE o.run # r
  BY <1>3, <1>5, <1>7 DEF NotionalOf, t
<1>8. QED
  BY <1>6, <1>7

\* What one step leaves alone of another process.
QuietFor(q) ==
    /\ pc'[q] = pc[q] /\ job'[q] = job[q] /\ intents'[q] = intents[q]
    /\ used'[q] = used[q]
    /\ NotionalOf(orders', job[q].run) = NotionalOf(orders, job[q].run)

\* A process that a step leaves alone keeps its books.
LEMMA BooksFrame ==
    ASSUME NEW q \in Procs, BooksOK(q), QuietFor(q), runs \in Nat, runs' \in Nat, runs <= runs'
    PROVE  BooksOK(q)'
<1>1. \A i : Foremost(i, q)' <=> Foremost(i, q)
  BY DEF Foremost, QuietFor
<1>2. pc[q] # "idle" => job[q].run \in 1 .. runs'
  BY DEF BooksOK
<1>3. QED
  BY <1>1, <1>2 DEF BooksOK, QuietFor

\* Steps that change neither which orders a run sent nor for how much: all but
\* Place.
SameSent ==
    /\ DOMAIN orders' = DOMAIN orders
    /\ \A n \in DOMAIN orders :
          orders'[n].run = orders[n].run /\ orders'[n].notional = orders[n].notional

\* Such a step leaves every sum as it was.
LEMMA SameSentSums ==
    ASSUME TypeInv, TypeInv', SameSent, LimitsInv
    PROVE  /\ \A r : NotionalOf(orders', r) = NotionalOf(orders, r)
           /\ WithinLimits'
<1>1. orders \in Seq(Order) /\ orders' \in Seq(Order)
  BY DEF TypeInv, TypeOK
<1>2. \A r : NotionalOf(orders', r) = NotionalOf(orders, r)
  BY <1>1, RunSumSame DEF SameSent
<1>3. WithinLimits'
  BY <1>2 DEF WithinLimits, LimitsInv
<1>4. QED
  BY <1>2, <1>3

\* A step of one process that sends nothing: its books are shown apart, and
\* the rest follows.
LEMMA LimitsQuietStep ==
    ASSUME TypeInv, TypeInv', LimitsInv, SameSent, UNCHANGED runs, NEW p \in Procs,
           \A q \in Procs \ {p} :
               /\ pc'[q] = pc[q] /\ job'[q] = job[q] /\ intents'[q] = intents[q]
               /\ used'[q] = used[q],
           pc'[p] # "idle" => pc[p] # "idle" /\ job'[p].run = job[p].run,
           BooksOK(p)'
    PROVE  LimitsInv'
<1>1. /\ \A r : NotionalOf(orders', r) = NotionalOf(orders, r)
      /\ WithinLimits'
  BY SameSentSums
<1>2. \A q \in Procs \ {p} : QuietFor(q)
  BY <1>1 DEF QuietFor
<1>3. runs \in Nat /\ runs' \in Nat /\ runs <= runs'
  BY DEF TypeInv, TypeOK
<1>4. \A q \in Procs : BooksOK(q)'
  BY <1>2, <1>3, BooksFrame DEF LimitsInv
<1>5. RunsApart'
  <2>1. \A n \in DOMAIN orders' : orders'[n].run \in 1 .. runs'
    BY DEF RunsApart, LimitsInv, SameSent
  <2>2. \A q \in Procs : pc'[q] # "idle" => pc[q] # "idle" /\ job'[q].run = job[q].run
    OBVIOUS
  <2>3. QED
    BY <2>1, <2>2 DEF RunsApart, LimitsInv
<1>6. QED
  BY <1>1, <1>4, <1>5 DEF LimitsInv

\* The process goes on with the books it has, towards no submission.
LEMMA LimitsGoesOn ==
    ASSUME TypeInv, TypeInv', LimitsInv, SameSent, UNCHANGED <<intents, runs>>,
           NEW p \in Procs, pc[p] # "idle", pc'[p] # "idle", job'[p].run = job[p].run,
           used'[p].turnover = used[p].turnover,
           \A q \in Procs \ {p} : pc'[q] = pc[q] /\ job'[q] = job[q] /\ used'[q] = used[q],
           pc'[p] \in {"connecting", "connected"} => pc[p] \in {"connecting", "connected"},
           pc'[p] \in {"submit", "qualify"} => pc[p] \in {"submit", "qualify"}
    PROVE  LimitsInv'
<1>1. NotionalOf(orders', job[p].run) = NotionalOf(orders, job[p].run)
  BY SameSentSums
<1>2. \A i \in intents[p] : Foremost(i, p)' <=> Foremost(i, p)
  BY DEF Foremost
<1>3. BooksOK(p)'
  BY <1>1, <1>2 DEF LimitsInv, BooksOK
<1>4. QED
  BY <1>3, LimitsQuietStep

\* A process that ends leaves its orders to their run.
LEMMA LimitsExit ==
    ASSUME TypeInv, TypeInv', LimitsInv, NEW p \in Procs, Exit(p), SameSent, UNCHANGED runs
    PROVE  LimitsInv'
<1>1. /\ pc'[p] = "idle" /\ intents'[p] = {} /\ used'[p] = NoUse
      /\ \A q \in Procs \ {p} :
            /\ pc'[q] = pc[q] /\ job'[q] = job[q] /\ intents'[q] = intents[q]
            /\ used'[q] = used[q]
  BY DEF Exit, TypeInv, TypeOK
<1>2. BooksOK(p)'
  BY <1>1 DEF BooksOK, NoUse
<1>3. QED
  BY <1>1, <1>2, LimitsQuietStep

\* Writing a ledger line changes none of what was sent.
LEMMA SettleSent ==
    ASSUME TypeInv, NEW p \in Procs, NEW state \in RecordState, orders' = Settle(p, state)
    PROVE  SameSent
<1>1. orders \in Seq(Order) /\ \A n \in DOMAIN orders : orders[n] \in Order
  BY DEF TypeInv, TypeOK
<1>2. CASE cur[p] = 0
  BY <1>2 DEF Settle, SameSent
<1>3. CASE cur[p] # 0
  <2>1. orders' = [orders EXCEPT ![cur[p]].record = state] /\ cur[p] \in DOMAIN orders
    BY <1>3 DEF Settle, TypeInv, CursorOK
  <2> DEFINE o == orders[cur[p]]
  <2>2. /\ DOMAIN orders' = DOMAIN orders
        /\ \A n \in DOMAIN orders :
              orders'[n] = IF n = cur[p] THEN [o EXCEPT !.record = state] ELSE orders[n]
    BY <1>1, <2>1
  <2>3. o \in Order
    BY <1>1, <2>1
  <2>4. /\ [o EXCEPT !.record = state].run = o.run
        /\ [o EXCEPT !.record = state].notional = o.notional
    <3> HIDE DEF o
    <3>1. QED
      BY <2>3 DEF Order
  <2>5. QED
    BY <2>2, <2>4 DEF SameSent
<1>4. QED
  BY <1>2, <1>3

\* A process that connects starts a run that has sent nothing.
LEMMA LimitsConnect ==
    ASSUME TypeInv, TypeInv', LimitsInv, NEW p \in Procs, Connect(p) PROVE LimitsInv'
<1>1. /\ UNCHANGED <<intents, used, orders>>
      /\ pc[p] = "idle" /\ pc' = [pc EXCEPT ![p] = "connecting"] /\ runs' = runs + 1
  BY DEF Connect, At, brokerVars
<1>2. /\ pc'[p] = "connecting" /\ \A q \in Procs \ {p} : pc'[q] = pc[q]
      /\ runs \in Nat /\ runs' = runs + 1 /\ runs' \in Nat /\ runs <= runs'
  BY <1>1 DEF TypeInv, TypeOK
<1>3. job'[p].run = runs + 1 /\ \A q \in Procs \ {p} : job'[q] = job[q]
  <2>1. job' = [job EXCEPT ![p] = [job[p] EXCEPT !.run = runs + 1]] /\ job[p] \in Job
    BY DEF Connect, TypeInv, TypeOK
  <2>2. QED
    BY <2>1 DEF TypeInv, TypeOK, Job
<1>4. RunsApart'
  BY <1>1, <1>2, <1>3 DEF RunsApart, LimitsInv, BooksOK
<1>5. WithinLimits'
  BY <1>1 DEF WithinLimits, LimitsInv
<1>6. \A q \in Procs \ {p} : BooksOK(q)'
  <2>1. \A q \in Procs \ {p} : QuietFor(q)
    BY <1>1, <1>2, <1>3 DEF QuietFor
  <2>2. QED
    BY <1>2, <2>1, BooksFrame DEF LimitsInv
<1>7. BooksOK(p)'
  <2>1. \A n \in DOMAIN orders : orders[n].run # runs + 1
    BY <1>2 DEF LimitsInv, RunsApart
  <2>2. {n \in DOMAIN orders : orders[n].run = runs + 1} = {}
    BY <2>1
  <2>3. NotionalOf(orders, runs + 1) = 0
    BY <2>2, SumEmpty DEF NotionalOf
  <2>4. used[p].turnover = 0
    BY <1>1 DEF LimitsInv, BooksOK
  <2>5. 0 <= MaxDailyTurnover
    BY ExecutionAssumption
  <2>6. \A a, b \in intents[p] : a.key.ticker = b.key.ticker => a = b
    BY DEF LimitsInv, BooksOK
  <2>7. job'[p].run \in 1 .. runs'
    BY <1>2, <1>3
  <2>8. QED
    BY <1>1, <1>2, <1>3, <2>3, <2>4, <2>5, <2>6, <2>7 DEF BooksOK
<1>8. QED
  BY <1>4, <1>5, <1>6, <1>7 DEF LimitsInv

\* A prepared basket has one intent per ticker, and nothing is used yet.
LEMMA LimitsPrepare ==
    ASSUME TypeInv, TypeInv', LimitsInv, NEW p \in Procs, Prepare(p) PROVE LimitsInv'
<1>1. /\ UNCHANGED <<job, orders, runs>>
      /\ pc[p] = "connected" /\ pc' = [pc EXCEPT ![p] = "check"]
  BY DEF Prepare, At, brokerVars, counters
<1>2. PICK px \in [Tickers -> Quotes] :
        /\ intents' = [intents EXCEPT ![p] = BuildDeltaIntents(job[p], px)]
        /\ used' = [used EXCEPT ![p] =
                      [turnover |-> 0, open |-> 0,
                       value |-> [t \in Tickers |-> job[p].held[t] * px[t]]]]
  BY DEF Prepare
<1>3. /\ pc'[p] = "check" /\ intents'[p] = BuildDeltaIntents(job[p], px)
      /\ used'[p].turnover = 0 /\ job[p] \in Job
      /\ \A q \in Procs \ {p} :
            pc'[q] = pc[q] /\ intents'[q] = intents[q] /\ used'[q] = used[q]
  BY <1>1, <1>2 DEF TypeInv, TypeOK
<1>4. \A a, b \in intents'[p] : a.key.ticker = b.key.ticker => a = b
  BY <1>3, BuildType
<1>5. BooksOK(p)'
  <2>1. /\ used[p].turnover = 0 /\ job[p].run \in 1 .. runs
        /\ NotionalOf(orders, job[p].run) <= used[p].turnover
        /\ used[p].turnover <= MaxDailyTurnover
    BY <1>1 DEF LimitsInv, BooksOK
  <2>2. QED
    BY <1>1, <1>3, <1>4, <2>1 DEF BooksOK
<1>6. SameSent
  BY <1>1 DEF SameSent
<1>7. QED
  BY <1>1, <1>3, <1>5, <1>6, LimitsQuietStep

\* A rejected intent is dropped, and counts for nothing.
LEMMA LimitsRejected ==
    ASSUME TypeInv, TypeInv', LimitsInv, NEW p \in Procs, NEW i \in intents[p], Rejected(p, i)
    PROVE  LimitsInv'
<1>1. /\ UNCHANGED <<pc, job, used, orders, runs>> /\ pc[p] = "check"
      /\ intents' = [intents EXCEPT ![p] = @ \ {i}]
  BY DEF Rejected, brokerVars, counters
<1>2. /\ intents'[p] \subseteq intents[p]
      /\ \A q \in Procs \ {p} : intents'[q] = intents[q]
  BY <1>1 DEF TypeInv, TypeOK
<1>3. BooksOK(p)'
  BY <1>1, <1>2 DEF LimitsInv, BooksOK
<1>4. SameSent
  BY <1>1 DEF SameSent
<1>5. QED
  BY <1>1, <1>2, <1>3, <1>4, LimitsQuietStep

\* Steps on the way to a submission or past it that send nothing.
LEMMA LimitsWithin ==
    ASSUME TypeInv, TypeInv', LimitsInv, NEW p \in Procs,
           \/ ReadAccount(p) \/ EnsureConnected(p) \/ SubmitRaises(p)
           \/ Report(p) \/ MonitorRaises(p)
    PROVE  LimitsInv'
<1>1. /\ UNCHANGED <<intents, runs>>
      /\ \/ /\ pc[p] = "connecting" /\ pc' = [pc EXCEPT ![p] = "connected"]
         \/ /\ pc[p] = "submit" /\ pc' = [pc EXCEPT ![p] = "qualify"]
         \/ /\ pc[p] \in {"submit", "qualify", "monitor"}
            /\ pc' = [pc EXCEPT ![p] = "record"]
  BY DEF ReadAccount, EnsureConnected, SubmitRaises, Report, MonitorRaises, At, counters
<1>2. SameSent
  <2>1. CASE ReadAccount(p) \/ EnsureConnected(p) \/ SubmitRaises(p)
    BY <2>1 DEF ReadAccount, EnsureConnected, SubmitRaises, brokerVars, SameSent
  <2>2. CASE Report(p)
    <3>1. /\ orders \in Seq(Order) /\ cur[p] \in DOMAIN orders
          /\ \E out : orders' = [orders EXCEPT ![cur[p]].outcome = out]
      BY <2>2 DEF TypeInv, TypeOK, CursorOK, Report
    <3>2. orders[cur[p]] \in Order
      BY <3>1
    <3>3. QED
      BY <3>1, <3>2 DEF SameSent, Order
  <2>3. CASE MonitorRaises(p)
    BY <2>3, RaisedKeeps DEF SameSent
  <2>4. QED
    BY <2>1, <2>2, <2>3
<1>3. /\ pc[p] # "idle"
      /\ pc'[p] # "idle" /\ \A q \in Procs \ {p} : pc'[q] = pc[q]
      /\ pc'[p] \in {"connecting", "connected"} => pc[p] \in {"connecting", "connected"}
      /\ pc'[p] \in {"submit", "qualify"} => pc[p] \in {"submit", "qualify"}
  BY <1>1 DEF TypeInv, TypeOK
<1>4. job'[p].run = job[p].run /\ \A q \in Procs \ {p} : job'[q] = job[q]
  <2>1. CASE ReadAccount(p)
    BY <2>1 DEF ReadAccount, TypeInv, TypeOK
  <2>2. CASE ~ReadAccount(p)
    BY <2>2 DEF EnsureConnected, SubmitRaises, Report, MonitorRaises
  <2>3. QED
    BY <2>1, <2>2
<1>5. used'[p].turnover = used[p].turnover /\ \A q \in Procs \ {p} : used'[q] = used[q]
  <2>1. CASE Report(p)
    <3>1. \E x : used' = [used EXCEPT ![p] = [used[p] EXCEPT !.open = x]]
      BY <2>1 DEF Report
    <3>2. used[p] \in Use
      BY DEF TypeInv, TypeOK
    <3>3. QED
      BY <3>1, <3>2 DEF TypeInv, TypeOK, Use
  <2>2. CASE ~Report(p)
    BY <2>2 DEF ReadAccount, EnsureConnected, SubmitRaises, MonitorRaises
  <2>3. QED
    BY <2>1, <2>2
<1>6. QED
  BY <1>1, <1>2, <1>3, <1>4, <1>5, LimitsGoesOn

\* Recording moves on to the next intent.
LEMMA LimitsRecord ==
    ASSUME TypeInv, TypeInv', LimitsInv, NEW p \in Procs, NEW i \in intents[p], Record(p, i)
    PROVE  LimitsInv'
<1>1. /\ UNCHANGED <<job, used, runs>>
      /\ pc[p] = "record" /\ pc' = [pc EXCEPT ![p] = "check"]
      /\ intents' = [intents EXCEPT ![p] = @ \ {i}]
      /\ orders' = Settle(p, IF torn THEN "fused" ELSE "recorded")
  BY DEF Record, At, counters
<1>2. /\ pc'[p] = "check" /\ intents'[p] \subseteq intents[p]
      /\ \A q \in Procs \ {p} : pc'[q] = pc[q] /\ intents'[q] = intents[q]
  BY <1>1 DEF TypeInv, TypeOK
<1>3. SameSent
  <2>1. (IF torn THEN "fused" ELSE "recorded") \in RecordState
    BY DEF RecordState, Lost
  <2>2. QED
    BY <1>1, <2>1, SettleSent
<1>4. NotionalOf(orders', job[p].run) = NotionalOf(orders, job[p].run)
  BY <1>3, SameSentSums
<1>5. BooksOK(p)'
  BY <1>1, <1>2, <1>4 DEF LimitsInv, BooksOK
<1>6. QED
  BY <1>1, <1>2, <1>3, <1>5, LimitsQuietStep

\* The gate books an intent before it is sent, and only if it fits.
LEMMA LimitsApproved ==
    ASSUME TypeInv, TypeInv', LimitsInv, NEW p \in Procs, NEW i \in intents[p], Approved(p, i)
    PROVE  LimitsInv'
<1>1. /\ UNCHANGED <<job, orders, runs>> /\ pc[p] = "check" /\ Foremost(i, p)
      /\ used[p].turnover + i.notional <= MaxDailyTurnover
      /\ used' = [used EXCEPT ![p] = Booked(p, i)]
      /\ \/ intents' = [intents EXCEPT ![p] = @ \ {i}] /\ pc' = pc
         \/ pc' = [pc EXCEPT ![p] = "submit"] /\ intents' = intents
  BY DEF Approved, PreTradeCheck, At, brokerVars, counters
<1>2. /\ pc'[p] \in {"check", "submit"} /\ intents'[p] \subseteq intents[p]
      /\ pc'[p] = "submit" => intents' = intents
      /\ \A q \in Procs \ {p} :
            pc'[q] = pc[q] /\ intents'[q] = intents[q] /\ used'[q] = used[q]
  BY <1>1 DEF TypeInv, TypeOK
<1>3. i \in Intent /\ i.notional \in Nat /\ used[p] \in Use /\ job[p] \in Job
  BY DEF TypeInv, TypeOK, Intent
<1>4. used'[p].turnover = used[p].turnover + i.notional
  <2>1. used'[p] = Booked(p, i)
    BY <1>1 DEF TypeInv, TypeOK
  <2>2. QED
    BY <1>3, <2>1 DEF Booked, Use
<1>5. BooksOK(p)'
  <2>1. /\ used[p].turnover \in Nat /\ NotionalOf(orders, job[p].run) \in Nat
        /\ MaxDailyTurnover \in Nat
    BY <1>3, RunSumType, ExecutionAssumption DEF Use, TypeInv, TypeOK
  <2>2. /\ job[p].run \in 1 .. runs
        /\ NotionalOf(orders, job[p].run) <= used[p].turnover
        /\ \A a, b \in intents[p] : a.key.ticker = b.key.ticker => a = b
    BY <1>1 DEF LimitsInv, BooksOK
  <2>3. ASSUME pc'[p] = "submit", NEW a \in intents'[p], Foremost(a, p)'
        PROVE  NotionalOf(orders, job[p].run) + a.notional <= used'[p].turnover
    <3>1. a \in intents[p] /\ Foremost(a, p)
      BY <1>2, <2>3 DEF Foremost
    <3>2. a.key.ticker \in Int /\ i.key.ticker \in Int
      <4>1. a \in Intent
        BY <3>1 DEF TypeInv, TypeOK
      <4>2. QED
        BY <1>3, <4>1 DEF Intent, Key, Tickers
    <3>3. a.key.ticker = i.key.ticker
      BY <1>1, <3>1, <3>2 DEF Foremost
    <3>4. a = i
      BY <2>2, <3>1, <3>3
    <3>5. QED
      BY <1>3, <1>4, <2>1, <2>2, <3>4
  <2>4. NotionalOf(orders, job[p].run) <= used'[p].turnover
        /\ used'[p].turnover <= MaxDailyTurnover
    BY <1>1, <1>3, <1>4, <2>1, <2>2
  <2>5. QED
    BY <1>1, <1>2, <1>4, <2>2, <2>3, <2>4 DEF BooksOK
<1>6. SameSent
  BY <1>1 DEF SameSent
<1>7. QED
  BY <1>1, <1>2, <1>5, <1>6, LimitsQuietStep

\* What is sent was booked.
LEMMA LimitsPlace ==
    ASSUME TypeInv, TypeInv', LimitsInv, NEW p \in Procs, NEW i \in intents[p], Place(p, i)
    PROVE  LimitsInv'
<1>1. PICK o : /\ o.run = job[p].run /\ o.notional = i.notional
               /\ orders' = Append(orders, o)
  BY DEF Place
<1>2. /\ UNCHANGED <<job, intents, used, runs>> /\ Foremost(i, p)
      /\ pc[p] = "qualify" /\ pc' = [pc EXCEPT ![p] = "monitor"]
  BY DEF Place, At, counters
<1> DEFINE new == Len(orders) + 1
           r == job[p].run
<1>3. /\ orders \in Seq(Order) /\ orders' \in Seq(Order)
      /\ DOMAIN orders' = DOMAIN orders \cup {new} /\ new \notin DOMAIN orders
      /\ orders'[new] = o /\ \A n \in DOMAIN orders : orders'[n] = orders[n]
  BY <1>1 DEF TypeInv, TypeOK
<1>4. o \in Order
  BY <1>3
<1>5. pc'[p] = "monitor" /\ \A q \in Procs \ {p} : pc'[q] = pc[q]
  BY <1>2 DEF TypeInv, TypeOK
<1> HIDE DEF new
<1>6. \A run : NotionalOf(orders', run) =
                 IF run = r THEN i.notional + NotionalOf(orders, run)
                 ELSE NotionalOf(orders, run)
  BY <1>1, <1>3, <1>4, RunSumAppend
<1>7. /\ r \in 1 .. runs /\ NotionalOf(orders, r) + i.notional <= used[p].turnover
      /\ used[p].turnover <= MaxDailyTurnover
      /\ \A a, b \in intents[p] : a.key.ticker = b.key.ticker => a = b
  BY <1>2 DEF LimitsInv, BooksOK
<1>8. /\ used[p].turnover \in Nat /\ i.notional \in Nat /\ NotionalOf(orders, r) \in Nat
      /\ MaxDailyTurnover \in Nat
  <2>1. used[p].turnover \in Nat /\ i.notional \in Nat
    BY DEF TypeInv, TypeOK, Use, Intent
  <2>2. QED
    BY <1>3, <2>1, RunSumType, ExecutionAssumption
<1>9. NotionalOf(orders', r) <= used[p].turnover /\ NotionalOf(orders', r) <= MaxDailyTurnover
  BY <1>6, <1>7, <1>8
<1>10. BooksOK(p)'
  BY <1>2, <1>5, <1>7, <1>9 DEF BooksOK
<1>11. \A q \in Procs \ {p} : BooksOK(q)'
  <2> SUFFICES ASSUME NEW q \in Procs \ {p} PROVE BooksOK(q)'
    OBVIOUS
  <2>1. runs \in Nat /\ runs' \in Nat /\ runs <= runs'
    BY <1>2 DEF TypeInv, TypeOK
  <2>2. CASE pc[q] = "idle"
    BY <1>2, <1>5, <2>2 DEF LimitsInv, BooksOK
  <2>3. CASE pc[q] # "idle"
    <3>1. job[q].run # r
      BY <1>2, <2>3 DEF LimitsInv, RunsApart
    <3>2. QuietFor(q)
      BY <1>2, <1>5, <1>6, <3>1 DEF QuietFor
    <3>3. QED
      BY <2>1, <3>2, BooksFrame DEF LimitsInv
  <2>4. QED
    BY <2>2, <2>3
<1>12. WithinLimits'
  BY <1>6, <1>9 DEF WithinLimits, LimitsInv
<1>13. RunsApart'
  <2>1. \A n \in DOMAIN orders' : orders'[n].run \in 1 .. runs'
    BY <1>1, <1>2, <1>3, <1>7 DEF LimitsInv, RunsApart
  <2>2. \A q \in Procs : pc'[q] # "idle" => pc[q] # "idle"
    BY <1>2, <1>5
  <2>3. QED
    BY <1>2, <2>1, <2>2 DEF LimitsInv, RunsApart
<1>14. QED
  BY <1>10, <1>11, <1>12, <1>13 DEF LimitsInv

\* Every step keeps the limits.
LEMMA LimitsStep == TypeInv /\ TypeInv' /\ LimitsInv /\ [Next]_vars => LimitsInv'
<1> SUFFICES ASSUME TypeInv, TypeInv', LimitsInv, [Next]_vars PROVE LimitsInv'
  OBVIOUS
<1>1. ASSUME UNCHANGED <<pc, job, intents, used, runs>>, SameSent PROVE LimitsInv'
  <2>1. /\ \A r : NotionalOf(orders', r) = NotionalOf(orders, r)
        /\ WithinLimits'
    BY <1>1, SameSentSums
  <2>2. \A q \in Procs : QuietFor(q)
    BY <1>1, <2>1 DEF QuietFor
  <2>3. runs \in Nat /\ runs' \in Nat /\ runs <= runs'
    BY <1>1 DEF TypeInv, TypeOK
  <2>4. \A q \in Procs : BooksOK(q)'
    BY <2>2, <2>3, BooksFrame DEF LimitsInv
  <2>5. RunsApart'
    BY <1>1 DEF RunsApart, LimitsInv, SameSent
  <2>6. QED
    BY <2>1, <2>4, <2>5 DEF LimitsInv
<1>2. ASSUME NEW p \in Procs, Process(p) PROVE LimitsInv'
  <2>1. CASE AccountUnread(p) \/ BlockedByKillSwitch(p) \/ NoPrices(p) \/ Finish(p)
    <3>1. Exit(p) /\ UNCHANGED <<orders, runs>>
      BY <2>1 DEF AccountUnread, BlockedByKillSwitch, NoPrices, Finish, brokerVars, counters
    <3>2. SameSent
      BY <3>1 DEF SameSent
    <3>3. QED
      BY <3>1, <3>2, LimitsExit
  <2>2. CASE Crash(p)
    <3>1. Exit(p) /\ UNCHANGED runs /\ orders' = Settle(p, "dropped")
      BY <2>2 DEF Crash
    <3>2. SameSent
      BY <3>1, SettleSent DEF RecordState, Lost
    <3>3. QED
      BY <3>1, <3>2, LimitsExit
  <2>3. CASE \/ Connect(p) \/ Prepare(p) \/ ReadAccount(p) \/ EnsureConnected(p)
             \/ SubmitRaises(p) \/ Report(p) \/ MonitorRaises(p)
    BY <2>3, LimitsConnect, LimitsPrepare, LimitsWithin
  <2>4. CASE \E i \in intents[p] : Rejected(p, i) \/ Approved(p, i)
    BY <2>4, LimitsRejected, LimitsApproved
  <2>5. CASE \E i \in intents[p] : Place(p, i) \/ Record(p, i)
    BY <2>5, LimitsPlace, LimitsRecord
  <2>6. CASE Drop(p)
    <3>1. UNCHANGED <<pc, job, intents, used, runs>>
      BY <2>6 DEF Drop
    <3>2. SameSent
      BY <2>6, DropKeeps DEF SameSent
    <3>3. QED
      BY <1>1, <3>1, <3>2
  <2>7. QED
    BY <1>2, <2>1, <2>2, <2>3, <2>4, <2>5, <2>6 DEF Process, Step
<1>3. CASE Broker
  <2>1. PICK n \in DOMAIN orders :
          Fill(n) \/ RequestCancel(n) \/ Cancelled(n) \/ BrokerRejects(n)
    BY <1>3 DEF Broker
  <2>2. PICK f \in Nat, st \in BrokerStatus :
          orders' = [orders EXCEPT ![n] = [orders[n] EXCEPT !.filled = f, !.status = st]]
    BY <2>1, BrokerStep
  <2>3. orders \in Seq(Order) /\ orders[n] \in Order
    BY DEF TypeInv, TypeOK
  <2>4. SameSent
    BY <2>2, <2>3 DEF SameSent, Order
  <2>5. QED
    BY <1>1, <2>1, <2>4, BrokerStep
<1>4. CASE Engage \/ Disengage \/ UNCHANGED vars
  <2>1. UNCHANGED <<pc, job, intents, used, runs, orders>>
    BY <1>4 DEF Engage, Disengage, vars, procVars, brokerVars, counters
  <2>2. SameSent
    BY <2>1 DEF SameSent
  <2>3. QED
    BY <1>1, <2>1, <2>2
<1>5. QED
  BY <1>2, <1>3, <1>4 DEF Next

LEMMA LimitsInit == Init => LimitsInv
<1> SUFFICES ASSUME Init PROVE LimitsInv
  OBVIOUS
<1>1. /\ pc = [p \in Procs |-> "idle"] /\ intents = [p \in Procs |-> {}]
      /\ used = [p \in Procs |-> NoUse]
      /\ orders = <<>> /\ DOMAIN orders = {}
  BY DEF Init
<1>2. \A r : NotionalOf(orders, r) = 0
  <2>1. \A r : {n \in DOMAIN orders : orders[n].run = r} = {}
    BY <1>1
  <2>2. QED
    BY <2>1, SumEmpty DEF NotionalOf
<1>3. MaxDailyTurnover \in Nat
  BY ExecutionAssumption
<1>4. WithinLimits
  BY <1>2, <1>3 DEF WithinLimits
<1>5. RunsApart /\ \A p \in Procs : BooksOK(p)
  BY <1>1 DEF RunsApart, BooksOK, NoUse
<1>6. QED
  BY <1>4, <1>5 DEF LimitsInv

LEMMA LimitsInvariant == Spec => []LimitsInv
  BY LimitsInit, LimitsStep, TypeInvariant, PTL DEF Spec

\* What a run sends to the broker stays inside max_daily_turnover, whatever the
\* orders, the limits and the number of processes.
THEOREM TurnoverBounded == Spec => []TurnoverWithinRun
<1>1. LimitsInv => TurnoverWithinRun
  <2> SUFFICES ASSUME LimitsInv, NEW r \in 1 .. runs PROVE RunTurnover(r) <= MaxDailyTurnover
    BY DEF TurnoverWithinRun
  <2>1. QED
    BY TurnoverIsSum DEF LimitsInv, WithinLimits
<1>2. QED
  BY <1>1, LimitsInvariant, PTL

-----------------------------------------------------------------------------
(* Runs that begin with no order still working *)

\* Adding a multiple of the divisor adds that many to the quotient.
LEMMA QuotientShift ==
    ASSUME NEW a \in Int, NEW k \in Int, NEW b \in Nat, b > 0
    PROVE  (a + k * b) \div b = a \div b + k
<1> DEFINE q == a \div b
           r == (a + k * b) \div b
<1>1. k * b \in Int
  OBVIOUS
<1>2. \A n \in Int : n \div b \in Int /\ b * (n \div b) <= n /\ n < b * (n \div b) + b
  OBVIOUS
<1>3. /\ q \in Int /\ b * q <= a /\ a < b * q + b
      /\ r \in Int /\ b * r <= a + k * b /\ a + k * b < b * r + b
  BY <1>1, <1>2
<1> HIDE DEF q, r
<1> DEFINE d == r - q - k
<1>4. b * d = b * r - b * q - k * b
  BY <1>3
<1>5. b * d < b /\ -b < b * d
  BY <1>1, <1>3, <1>4
<1>6. d \in Int
  BY <1>3
<1> HIDE DEF d
<1>7. d >= 1 => b * d >= b
  BY <1>6
<1>8. d <= -1 => b * d <= -b
  BY <1>6
<1>9. d = 0
  BY <1>5, <1>6, <1>7, <1>8
<1>10. QED
  BY <1>3, <1>9 DEF d, q, r

\* What is nearest to some target.
LEMMA TargetSharesMember ==
    ASSUME NEW t
    PROVE  /\ \A tgt \in Targets : \A nav \in NavReadings : \A px \in Quotes \ {0} :
                  Nearest(TargetValue(tgt, t, nav), px) \subseteq TargetShares(t)
           /\ \A x \in TargetShares(t) :
                 \E tgt \in Targets : \E nav \in NavReadings : \E px \in Quotes \ {0} :
                    x \in Nearest(TargetValue(tgt, t, nav), px)
  BY DEF TargetShares

\* The positions a ticker's moves can end at, and those in between.
Ends(t) == {InitialHeld[t]} \cup TargetShares(t)
Between(t, x) == \E low, high \in Ends(t) : low <= x /\ x <= high

\* Counting shares from a position of h is counting them from none, less h.
LEMMA SharesShift ==
    ASSUME NEW v \in Int, NEW h \in Int, NEW px \in Nat, px > 0
    PROVE  Shares(v - h * px, px) = Shares(v, px) - h
<1> DEFINE a == 2 * v + px
           b == 2 * px
<1>1. a \in Int /\ b \in Nat /\ b > 0 /\ -h \in Int
  OBVIOUS
<1>2. 2 * (v - h * px) + px = a + (-h) * b
  OBVIOUS
<1> HIDE DEF a, b
<1>3. (a + (-h) * b) \div b = a \div b + (-h)
  BY <1>1, QuotientShift
<1>4. a \div b \in Int
  BY <1>1
<1>5. QED
  BY <1>2, <1>3, <1>4 DEF Shares, a, b

\* An intent that fills ends at a share count nearest to its target.
LEMMA IntentEnds ==
    ASSUME NEW j \in Job, j.nav \in NavReadings, NEW px \in [Tickers -> Quotes],
           NEW i \in BuildDeltaIntents(j, px)
    PROVE  j.held[i.key.ticker] + Signed(i, i.key.qty) \in TargetShares(i.key.ticker)
<1>1. PICK t \in Traded(j, px) : i = IntentFor(j, px, t)
  BY DEF BuildDeltaIntents
<1>2. t \in Tickers /\ px[t] \in Quotes \ {0} /\ px[t] \in Nat /\ px[t] > 0
  BY ConfigType DEF Traded
<1>3. j.target \in Targets /\ j.held[t] \in Int
  BY <1>2 DEF Job
<1> DEFINE v == (j.target.weight[t] * AccountValue(j)) \div 100
           h == j.held[t]
           d == Delta(j, px, t)
           x == px[t]
<1>4. v \in Int
  <2>1. j.target.weight[t] \in Int
    BY <1>2, <1>3, ExecutionAssumption
  <2>2. AccountValue(j) \in Int
    BY ConfigType DEF AccountValue
  <2>3. \A a, b \in Int : (a * b) \div 100 \in Int
    OBVIOUS
  <2>4. QED
    BY <2>1, <2>2, <2>3
<1>5. {Shares(v, x), -Shares(-v, x)} \subseteq TargetShares(t)
  <2>1. AccountValue(j) = AccountValue([nav |-> j.nav])
    BY DEF AccountValue
  <2>2. v = TargetValue(j.target, t, j.nav)
    BY <2>1 DEF TargetValue
  <2>3. Nearest(v, x) \subseteq TargetShares(t)
    BY <1>2, <1>3, <2>2, TargetSharesMember
  <2>4. QED
    BY <2>3 DEF Nearest
<1>6. /\ i.key.ticker = t
      /\ i.key.side = (IF d > 0 THEN "BUY" ELSE "SELL")
      /\ i.key.qty = Shares(Abs(d), x)
  BY <1>1 DEF IntentFor
<1>7. d = v - h * x
  BY DEF Delta
<1> HIDE DEF v, h, d, x
<1>8. /\ h \in Int /\ x \in Nat /\ x > 0 /\ d \in Int
      /\ -v \in Int /\ -h \in Int
  BY <1>2, <1>3, <1>4, <1>7 DEF h, x
<1>9. h + Signed(i, i.key.qty) \in TargetShares(t)
  <2>1. CASE d > 0
    <3>1. Abs(d) = v - h * x
      BY <1>7, <1>8, <2>1 DEF Abs
    <3>2. i.key.qty = Shares(v, x) - h
      BY <1>4, <1>6, <1>8, <3>1, SharesShift
    <3>3. Shares(v, x) \in Int
      BY <1>4, <1>8 DEF Shares
    <3>4. h + Signed(i, i.key.qty) = Shares(v, x)
      BY <1>6, <1>8, <2>1, <3>2, <3>3 DEF Signed
    <3>5. QED
      BY <1>5, <3>4
  <2>2. CASE ~(d > 0)
    <3>1. Abs(d) = (-v) - (-h) * x
      BY <1>4, <1>7, <1>8, <2>2 DEF Abs
    <3>2. Shares((-v) - (-h) * x, x) = Shares(-v, x) - (-h)
      BY <1>8, SharesShift
    <3>3. Shares(-v, x) \in Int
      BY <1>8 DEF Shares
    <3>4. i.key.side = "SELL" /\ i.key.qty = Shares(-v, x) + h
      BY <1>6, <1>8, <2>2, <3>1, <3>2, <3>3
    <3>5. h + Signed(i, i.key.qty) = -Shares(-v, x)
      BY <1>8, <3>3, <3>4 DEF Signed
    <3>6. QED
      BY <1>5, <3>5
  <2>3. QED
    BY <2>1, <2>2
<1>10. QED
  BY <1>6, <1>9 DEF h

\* Ends are whole numbers of shares.
LEMMA EndsType ==
    ASSUME NEW t \in Tickers PROVE \A x \in Ends(t) : x \in Int
<1>1. InitialHeld[t] \in Int
  BY ConfigType
<1>2. ASSUME NEW x \in TargetShares(t) PROVE x \in Int
  <2>1. PICK tgt \in Targets, nav \in NavReadings, px \in Quotes \ {0} :
          x \in Nearest(TargetValue(tgt, t, nav), px)
    BY TargetSharesMember
  <2>2. tgt.weight[t] \in Int /\ AccountValue([nav |-> nav]) \in Int
    BY ConfigType, ExecutionAssumption DEF AccountValue
  <2>3. TargetValue(tgt, t, nav) \in Int /\ px \in Nat /\ px > 0
    <3>1. \A a, b \in Int : (a * b) \div 100 \in Int
      OBVIOUS
    <3>2. QED
      BY <2>2, <3>1, ConfigType DEF TargetValue
  <2>4. QED
    BY <2>1, <2>3 DEF Nearest, Shares
<1>3. QED
  BY <1>1, <1>2 DEF Ends

\* A step towards an end stays between ends.
LEMMA BetweenStep ==
    ASSUME NEW t \in Tickers, NEW x \in Int, NEW y \in Int, NEW e \in Ends(t), Between(t, x),
           (x <= y /\ y <= e) \/ (e <= y /\ y <= x)
    PROVE  Between(t, y)
<1>1. PICK low \in Ends(t), high \in Ends(t) : low <= x /\ x <= high
  BY DEF Between
<1>2. low \in Int /\ high \in Int /\ e \in Int
  BY EndsType
<1>3. CASE x <= y /\ y <= e
  <2>1. low <= y
    BY <1>1, <1>2, <1>3
  <2>2. QED
    BY <1>3, <2>1 DEF Between
<1>4. CASE e <= y /\ y <= x
  <2>1. y <= high
    BY <1>1, <1>2, <1>4
  <2>2. QED
    BY <1>4, <2>1 DEF Between
<1>5. QED
  BY <1>3, <1>4

AllSettled == \A n \in DOMAIN orders : orders[n].settled /\ ~orders[n].again

\* Where the position of order n's ticker stands once the order has filled.
Goal(n) ==
    held[orders[n].key.ticker] + Signed(orders[n], orders[n].key.qty - orders[n].filled)

\* Intent i, not yet sent, still leads to an end, and no order that works can
\* move its ticker away from under it.
Pending(i) ==
    /\ held[i.key.ticker] + Signed(i, i.key.qty) \in Ends(i.key.ticker)
    /\ \A n \in DOMAIN orders : IsLive(n) => orders[n].key.ticker # i.key.ticker

\* What a run that began settled knows as long as it has the connection it read
\* the account on: first the account as it is; later, that each intent it has
\* still to send is pending.
RunSettled(p) ==
    /\ pc[p] \notin {"idle", "connecting"} => job[p].nav \in NavReadings
    /\ AllSettled /\ job[p].settled /\ link[p] = "first" =>
        /\ pc[p] = "connected" =>
              job[p].held = held /\ \A n \in DOMAIN orders : ~IsLive(n)
        /\ pc[p] \in {"check"} \cup Submitting =>
              \A i \in intents[p] :
                  pc[p] \in {"check", "submit", "qualify"} \/ ~Foremost(i, p) => Pending(i)

\* Positions are between ends and every order that works leads to one, alone
\* on its ticker.
Converging ==
    /\ \A t \in Tickers : Between(t, held[t])
    /\ \A n \in DOMAIN orders : IsLive(n) => Goal(n) \in Ends(orders[n].key.ticker)
    /\ \A m, n \in DOMAIN orders :
          IsLive(m) /\ IsLive(n) /\ orders[m].key.ticker = orders[n].key.ticker => m = n

SettledInv == (AllSettled => Converging) /\ \A p \in Procs : RunSettled(p)

\* Steps that move no share and wake no order.
NothingMoves ==
    /\ DOMAIN orders' = DOMAIN orders /\ held' = held
    /\ \A n \in DOMAIN orders :
          /\ orders'[n].key = orders[n].key /\ orders'[n].filled = orders[n].filled
          /\ orders'[n].settled = orders[n].settled /\ orders'[n].again = orders[n].again
          /\ orders'[n].status \in Live => orders[n].status \in Live

\* They keep everything the invariant says of orders and positions.
LEMMA NothingMovesKeeps ==
    ASSUME NothingMoves
    PROVE  /\ AllSettled' <=> AllSettled
           /\ Converging => Converging'
           /\ \A i : Pending(i) => Pending(i)'
           /\ \A n \in DOMAIN orders : IsLive(n)' => IsLive(n)
<1> USE DEF NothingMoves
<1>1. AllSettled' <=> AllSettled
  BY DEF AllSettled
<1>2. \A n \in DOMAIN orders : IsLive(n)' => IsLive(n)
  BY DEF IsLive
<1>3. \A n \in DOMAIN orders : Goal(n)' = Goal(n)
  BY DEF Goal, Signed
<1>4. Converging => Converging'
  <2>1. \A t : Ends(t)' = Ends(t)
    BY DEF Ends, TargetShares
  <2>2. \A t, x : Between(t, x)' <=> Between(t, x)
    BY DEF Between, Ends, TargetShares
  <2>3. QED
    BY <1>2, <1>3, <2>1, <2>2 DEF Converging
<1>5. \A i : Pending(i) => Pending(i)'
  BY <1>2 DEF Pending, Signed, Ends, TargetShares
<1>6. QED
  BY <1>1, <1>2, <1>4, <1>5

\* What a step leaves alone of what process q knows.
Same(q) ==
    pc'[q] = pc[q] /\ job'[q] = job[q] /\ intents'[q] = intents[q] /\ link'[q] = link[q]

\* If nothing moves, a process that is left alone knows what it knew.
LEMMA SettledFrame ==
    ASSUME NothingMoves, NEW q \in Procs, RunSettled(q), Same(q) PROVE RunSettled(q)'
<1>1. \A i : Foremost(i, q)' <=> Foremost(i, q)
  BY DEF Foremost, Same
<1>2. QED
  BY <1>1, NothingMovesKeeps DEF RunSettled, NothingMoves, Same

\* If nothing moves, the invariant is a matter of what the process that takes
\* the step knows.
LEMMA SettledQuiet ==
    ASSUME SettledInv, NothingMoves, NEW p \in Procs,
           \A q \in Procs \ {p} : Same(q), RunSettled(p)'
    PROVE  SettledInv'
<1>1. AllSettled' => Converging'
  BY NothingMovesKeeps DEF SettledInv
<1>2. \A q \in Procs \ {p} : RunSettled(q)'
  BY SettledFrame DEF SettledInv
<1>3. QED
  BY <1>1, <1>2 DEF SettledInv

\* Settling a record moves no share.
LEMMA SettleMoves ==
    ASSUME TypeInv, NEW p \in Procs, NEW state \in RecordState,
           orders' = Settle(p, state), held' = held
    PROVE  NothingMoves
<1>1. orders \in Seq(Order) /\ \A n \in DOMAIN orders : orders[n] \in Order
  BY DEF TypeInv, TypeOK
<1>2. CASE cur[p] = 0
  BY <1>2 DEF Settle, NothingMoves
<1>3. CASE cur[p] # 0
  <2>1. orders' = [orders EXCEPT ![cur[p]].record = state]
    BY <1>3 DEF Settle
  <2>2. QED
    BY <1>1, <2>1 DEF Order, NothingMoves
<1>4. QED
  BY <1>2, <1>3

\* A process that ends knows nothing any more.
LEMMA SettledExit ==
    ASSUME LedgerInv, SettledInv, NEW p \in Procs, Exit(p), NothingMoves
    PROVE  SettledInv'
<1>1. pc'[p] = "idle" /\ \A q \in Procs \ {p} : Same(q)
  BY DEF Exit, Same, LedgerInv, TypeInv, TypeOK
<1>2. RunSettled(p)'
  BY <1>1 DEF RunSettled, Submitting
<1>3. QED
  BY <1>1, <1>2, SettledQuiet

\* A run that has just connected knows nothing yet.
LEMMA SettledConnect ==
    ASSUME LedgerInv, SettledInv, NEW p \in Procs, Connect(p) PROVE SettledInv'
<1>1. /\ UNCHANGED <<orders, held, intents>>
      /\ pc'[p] = "connecting" /\ \A q \in Procs \ {p} : Same(q)
  BY DEF Connect, At, brokerVars, Same, LedgerInv, TypeInv, TypeOK
<1>2. NothingMoves
  BY <1>1 DEF NothingMoves
<1>3. RunSettled(p)'
  BY <1>1 DEF RunSettled, Submitting
<1>4. QED
  BY <1>1, <1>2, <1>3, SettledQuiet

\* It reads the account as it is.
LEMMA SettledReadAccount ==
    ASSUME LedgerInv, SettledInv, NEW p \in Procs, ReadAccount(p) PROVE SettledInv'
<1>1. PICK tgt \in Targets, nav \in NavReadings, pnl \in PnlReadings, dry \in DryRun :
        job' = [job EXCEPT ![p] =
                  [target |-> tgt, nav |-> nav, pnl |-> pnl,
                   dry |-> dry, held |-> held, run |-> job[p].run,
                   settled |-> \A n \in DOMAIN orders : ~IsLive(n)]]
  BY DEF ReadAccount
<1>2. /\ UNCHANGED <<orders, held, intents, link>> /\ pc' = [pc EXCEPT ![p] = "connected"]
  BY DEF ReadAccount, At, brokerVars
<1>3. /\ pc'[p] = "connected"
      /\ job'[p].nav = nav /\ job'[p].held = held
      /\ job'[p].settled = (\A n \in DOMAIN orders : ~IsLive(n))
      /\ \A q \in Procs \ {p} : Same(q)
  BY <1>1, <1>2 DEF LedgerInv, TypeInv, TypeOK, Same
<1>4. NothingMoves
  BY <1>2 DEF NothingMoves
<1>5. RunSettled(p)'
  BY <1>2, <1>3, <1>4, NothingMovesKeeps DEF RunSettled, Submitting, NothingMoves
<1>6. QED
  BY <1>3, <1>4, <1>5, SettledQuiet

\* The intents of a settled run lead to ends.
LEMMA SettledPrepare ==
    ASSUME LedgerInv, SettledInv, NEW p \in Procs, Prepare(p) PROVE SettledInv'
<1>1. /\ UNCHANGED <<job, link, orders, held>>
      /\ pc[p] = "connected" /\ pc' = [pc EXCEPT ![p] = "check"]
  BY DEF Prepare, At, brokerVars
<1>2. PICK px \in [Tickers -> Quotes] :
        intents' = [intents EXCEPT ![p] = BuildDeltaIntents(job[p], px)]
  BY DEF Prepare
<1>3. /\ intents'[p] = BuildDeltaIntents(job[p], px) /\ job[p] \in Job
      /\ pc'[p] = "check" /\ \A q \in Procs \ {p} : Same(q)
  BY <1>1, <1>2 DEF LedgerInv, TypeInv, TypeOK, Same
<1>4. NothingMoves
  BY <1>1 DEF NothingMoves
<1>5. job[p].nav \in NavReadings
  BY <1>1 DEF SettledInv, RunSettled
<1>6. ASSUME AllSettled, job[p].settled, link[p] = "first", NEW i \in intents'[p]
      PROVE  Pending(i)
  <2>1. job[p].held = held /\ \A n \in DOMAIN orders : ~IsLive(n)
    BY <1>1, <1>6 DEF SettledInv, RunSettled
  <2>2. job[p].held[i.key.ticker] + Signed(i, i.key.qty) \in TargetShares(i.key.ticker)
    BY <1>3, <1>5, <1>6, IntentEnds
  <2>3. QED
    BY <2>1, <2>2 DEF Pending, Ends
<1>7. RunSettled(p)'
  BY <1>1, <1>3, <1>4, <1>5, <1>6, NothingMovesKeeps DEF RunSettled
<1>8. QED
  BY <1>3, <1>4, <1>7, SettledQuiet

\* Steps of a process between its check and its record that send nothing, and
\* do not make its connection the first again.
LEMMA SettledWithin ==
    ASSUME LedgerInv, SettledInv, NEW p \in Procs, NothingMoves, UNCHANGED job,
           pc[p] \in {"check"} \cup Submitting, pc'[p] \in {"check"} \cup Submitting,
           link'[p] = "first" => link[p] = "first",
           \A q \in Procs \ {p} :
               pc'[q] = pc[q] /\ intents'[q] = intents[q] /\ link'[q] = link[q],
           \A i \in intents'[p] :
               /\ i \in intents[p]
               /\ pc'[p] \in {"check", "submit", "qualify"} \/ ~Foremost(i, p)' =>
                     pc[p] \in {"check", "submit", "qualify"} \/ ~Foremost(i, p)
    PROVE  SettledInv'
<1>1. \A q \in Procs \ {p} : Same(q)
  BY DEF Same
<1>2. job[p].nav \in NavReadings
  BY DEF SettledInv, RunSettled, Submitting
<1>3. ASSUME AllSettled, job[p].settled, link[p] = "first", NEW i \in intents'[p],
             pc'[p] \in {"check", "submit", "qualify"} \/ ~Foremost(i, p)'
      PROVE  Pending(i)'
  <2>1. Pending(i)
    BY <1>3 DEF SettledInv, RunSettled
  <2>2. QED
    BY <2>1, NothingMovesKeeps
<1>4. RunSettled(p)'
  <2>1. pc'[p] # "connected"
    BY DEF Submitting
  <2>2. QED
    BY <1>2, <1>3, <2>1, NothingMovesKeeps DEF RunSettled
<1>5. QED
  BY <1>1, <1>4, SettledQuiet

\* A process that loses its connection knows nothing of the account any more.
LEMMA SettledDrop ==
    ASSUME LedgerInv, SettledInv, NEW p \in Procs, Drop(p) PROVE SettledInv'
<1>1. /\ UNCHANGED <<pc, job, intents, held>> /\ link' = [link EXCEPT ![p] = "down"]
  BY DEF Drop
<1>2. NothingMoves
  BY <1>1, DropKeeps DEF LedgerInv, NothingMoves
<1>3. link'[p] = "down" /\ \A q \in Procs \ {p} : Same(q)
  BY <1>1 DEF LedgerInv, TypeInv, TypeOK, Same
<1>4. RunSettled(p)'
  BY <1>1, <1>3 DEF SettledInv, RunSettled
<1>5. QED
  BY <1>2, <1>3, <1>4, SettledQuiet

\* The ends do not change: what Converging says of the next state.
LEMMA ConvergingNext ==
    ASSUME \A t \in Tickers : Between(t, held'[t]),
           \A n \in DOMAIN orders' : IsLive(n)' => Goal(n)' \in Ends(orders'[n].key.ticker),
           \A m, n \in DOMAIN orders' :
               IsLive(m)' /\ IsLive(n)' /\ orders'[m].key.ticker = orders'[n].key.ticker => m = n
    PROVE  Converging'
<1>1. \A t \in Tickers : Between(t, held[t])'
  BY DEF Between, Ends, TargetShares
<1>2. ASSUME NEW n \in DOMAIN orders', IsLive(n)'
      PROVE  (Goal(n) \in Ends(orders[n].key.ticker))'
  <2> DEFINE g == Goal(n)
             tk == orders[n].key.ticker
  <2>1. g' \in Ends(tk')
    BY <1>2
  <2> HIDE DEF g, tk
  <2>2. (g \in Ends(tk))'
    BY <2>1 DEF Ends, TargetShares
  <2>3. QED
    BY <2>2 DEF g, tk
<1>3. QED
  BY <1>1, <1>2 DEF Converging

\* Placing a pending intent: its order leads where the intent led.
LEMMA SettledPlace ==
    ASSUME LedgerInv, SettledInv, NEW p \in Procs, NEW i \in intents[p], Place(p, i)
    PROVE  SettledInv'
<1> DEFINE new == Len(orders) + 1
<1>1. PICK o : /\ o.key = i.key /\ o.filled = 0 /\ o.settled = job[p].settled
               /\ o.again = (link[p] = "again") /\ orders' = Append(orders, o)
  BY DEF Place
<1>2. /\ UNCHANGED <<job, intents, held, link>> /\ Foremost(i, p) /\ link[p] # "down"
      /\ pc[p] = "qualify" /\ pc' = [pc EXCEPT ![p] = "monitor"]
  BY DEF Place, At
<1>3. /\ DOMAIN orders' = DOMAIN orders \cup {new} /\ new \notin DOMAIN orders
      /\ \A n \in DOMAIN orders : orders'[n] = orders[n]
      /\ orders'[new] = o
  BY <1>1 DEF LedgerInv, TypeInv, TypeOK
<1> HIDE DEF new
<1>4. pc'[p] = "monitor" /\ \A q \in Procs \ {p} : pc'[q] = pc[q] /\ link[q] = "down"
  BY <1>2 DEF LedgerInv, TypeInv, TypeOK, SessionInv, LinksInv
<1>5. AllSettled' => AllSettled /\ job[p].settled /\ link[p] = "first"
  <2>1. link[p] \in {"first", "again"}
    BY <1>2 DEF LedgerInv, TypeInv, TypeOK, LinkState
  <2>2. QED
    BY <1>1, <1>3, <2>1 DEF AllSettled
<1>6. job[p].nav \in NavReadings
  BY <1>2 DEF SettledInv, RunSettled
<1>7. \A n \in DOMAIN orders : IsLive(n)' <=> IsLive(n)
  BY <1>3 DEF IsLive
<1>8. i \in Intent /\ i.key.qty \in Nat
  BY DEF LedgerInv, TypeInv, TypeOK, Intent, Key
<1>9. ASSUME AllSettled, job[p].settled, link[p] = "first", NEW a \in intents[p]
      PROVE  Pending(a)
  BY <1>2, <1>9 DEF SettledInv, RunSettled, Submitting
<1>10. ASSUME AllSettled' PROVE Converging'
  <2>1. Converging /\ Pending(i)
    BY <1>5, <1>9, <1>10 DEF SettledInv
  <2>2. \A t \in Tickers : Between(t, held'[t])
    BY <1>2, <2>1 DEF Converging
  <2>3. ASSUME NEW n \in DOMAIN orders', IsLive(n)'
        PROVE  Goal(n)' \in Ends(orders'[n].key.ticker)
    <3>1. CASE n = new
      <4>1. Goal(n)' = held[i.key.ticker] + Signed(i, i.key.qty - 0)
        BY <1>1, <1>2, <1>3, <3>1 DEF Goal, Signed
      <4>2. i.key.qty - 0 = i.key.qty
        BY <1>8
      <4>3. QED
        BY <1>1, <1>3, <2>1, <3>1, <4>1, <4>2 DEF Pending
    <3>2. CASE n \in DOMAIN orders
      <4>1. Goal(n)' = Goal(n)
        BY <1>2, <1>3, <3>2 DEF Goal, Signed
      <4>2. Goal(n) \in Ends(orders[n].key.ticker)
        BY <1>7, <2>1, <2>3, <3>2 DEF Converging
      <4>3. QED
        BY <1>3, <3>2, <4>1, <4>2
    <3>3. QED
      BY <1>3, <3>1, <3>2
  <2>4. ASSUME NEW m \in DOMAIN orders', NEW n \in DOMAIN orders', IsLive(m)', IsLive(n)',
               orders'[m].key.ticker = orders'[n].key.ticker
        PROVE  m = n
    <3>1. \A k \in DOMAIN orders : IsLive(k)' => orders'[k].key.ticker # orders'[new].key.ticker
      BY <1>1, <1>3, <1>7, <2>1 DEF Pending
    <3>2. CASE m \in DOMAIN orders /\ n \in DOMAIN orders
      BY <1>3, <1>7, <2>1, <2>4, <3>2 DEF Converging
    <3>3. QED
      BY <1>3, <2>4, <3>1, <3>2
  <2>5. QED
    BY <2>2, <2>3, <2>4, ConvergingNext
<1>11. ASSUME AllSettled', job'[p].settled, NEW a \in intents'[p], ~Foremost(a, p)'
       PROVE  Pending(a)'
  <2>1. a \in intents[p] /\ a # i
    BY <1>2, <1>11 DEF Foremost
  <2>2. a.key.ticker # i.key.ticker
    BY <2>1 DEF LedgerInv, SessionInv, SessionOK
  <2>3. Pending(a)
    BY <1>5, <1>9, <1>11, <2>1
  <2>4. \A n \in DOMAIN orders' : IsLive(n)' => orders'[n].key.ticker # a.key.ticker
    BY <1>1, <1>3, <1>7, <2>2, <2>3 DEF Pending
  <2>5. held' = held
    BY <1>2
  <2>6. QED
    BY <2>3, <2>4, <2>5 DEF Pending, Signed, Ends, TargetShares
<1>12. \A q \in Procs : RunSettled(q)'
  <2>1. \A q \in Procs \ {p} : RunSettled(q)'
    BY <1>2, <1>4 DEF SettledInv, RunSettled
  <2>2. RunSettled(p)'
    BY <1>2, <1>4, <1>6, <1>11 DEF RunSettled
  <2>3. QED
    BY <2>1, <2>2
<1>13. QED
  BY <1>10, <1>12 DEF SettledInv

\* A fill moves one position towards the end its order leads to; no run has
\* an intent left on that ticker.
LEMMA SettledFill ==
    ASSUME LedgerInv, SettledInv, NEW n \in DOMAIN orders, Fill(n) PROVE SettledInv'
<1> DEFINE o == orders[n]
           t == o.key.ticker
<1>1. PICK m \in 1 .. o.key.qty - o.filled :
        /\ \E st : orders' = [orders EXCEPT ![n].filled = o.filled + m, ![n].status = st]
        /\ held' = [held EXCEPT ![t] = @ + Signed(o, m)]
  BY DEF Fill
<1>2. IsLive(n) /\ UNCHANGED <<pc, job, intents, link>>
  BY DEF Fill, procVars
<1>3. /\ orders \in Seq(Order) /\ o \in Order /\ held \in [Tickers -> Int]
  BY DEF LedgerInv, TypeInv, TypeOK
<1>4. /\ t \in Tickers /\ o.key.qty \in Nat /\ o.filled \in Nat /\ m \in Nat
      /\ o.filled + m <= o.key.qty
  <2>1. t \in Tickers /\ o.key.qty \in Nat /\ o.filled \in Nat
    BY <1>3 DEF Order, Key
  <2>2. QED
    BY <1>1, <2>1
<1>5. /\ DOMAIN orders' = DOMAIN orders
      /\ orders'[n].key = o.key /\ orders'[n].filled = o.filled + m
      /\ \A k \in DOMAIN orders :
            /\ orders'[k].settled = orders[k].settled /\ orders'[k].again = orders[k].again
            /\ orders'[k].key = orders[k].key
      /\ \A k \in DOMAIN orders \ {n} : orders'[k] = orders[k]
      /\ held'[t] = held[t] + Signed(o, m)
      /\ \A u \in Tickers \ {t} : held'[u] = held[u]
  <2>1. PICK st : orders' = [orders EXCEPT ![n].filled = o.filled + m, ![n].status = st]
    BY <1>1
  <2>2. QED
    BY <1>1, <1>3, <1>4, <2>1 DEF Order
<1>6. AllSettled' <=> AllSettled
  BY <1>5 DEF AllSettled
<1>7. \A k \in DOMAIN orders : IsLive(k)' => IsLive(k)
  BY <1>2, <1>5 DEF IsLive
<1>8. \A k \in DOMAIN orders : orders[k].key.ticker \in Tickers
  <2>1. \A k \in DOMAIN orders : orders[k] \in Order
    BY <1>3
  <2>2. QED
    BY <2>1 DEF Order, Key
<1>9. held[t] \in Int /\ Signed(o, m) \in Int
  BY <1>3, <1>4 DEF Signed
<1>10. Goal(n)' = Goal(n)
  <2>1. Goal(n)' = held[t] + Signed(o, m) + Signed(o, o.key.qty - (o.filled + m))
    BY <1>5 DEF Goal, Signed
  <2>2. Signed(o, m) + Signed(o, o.key.qty - (o.filled + m)) = Signed(o, o.key.qty - o.filled)
    BY <1>4 DEF Signed
  <2>3. Signed(o, o.key.qty - (o.filled + m)) \in Int /\ Signed(o, o.key.qty - o.filled) \in Int
    BY <1>4 DEF Signed
  <2>4. Goal(n) = held[t] + Signed(o, o.key.qty - o.filled)
    BY DEF Goal
  <2> HIDE DEF o, t
  <2>5. QED
    BY <1>9, <2>1, <2>2, <2>3, <2>4
<1>11. ASSUME AllSettled PROVE Converging'
  <2>1. Converging
    BY <1>11 DEF SettledInv
  <2>2. Goal(n) \in Ends(t)
    BY <1>2, <2>1 DEF Converging
  <2>3. Between(t, held[t])
    BY <1>4, <2>1 DEF Converging
  <2>4. Between(t, held'[t])
    <3>1. Goal(n) = held[t] + Signed(o, o.key.qty - o.filled)
      BY DEF Goal
    <3>2. \/ held[t] <= held'[t] /\ held'[t] <= Goal(n)
          \/ Goal(n) <= held'[t] /\ held'[t] <= held[t]
      BY <1>4, <1>5, <1>9, <3>1 DEF Signed
    <3>3. held'[t] \in Int
      BY <1>5, <1>9
    <3> HIDE DEF o, t
    <3>4. QED
      BY <1>4, <1>9, <2>2, <2>3, <3>2, <3>3, BetweenStep
  <2>5. \A u \in Tickers : Between(u, held'[u])
    BY <1>5, <2>1, <2>4 DEF Converging
  <2>6. \A k \in DOMAIN orders : IsLive(k)' => Goal(k)' \in Ends(orders[k].key.ticker)
    <3> SUFFICES ASSUME NEW k \in DOMAIN orders, IsLive(k)'
                 PROVE  Goal(k)' \in Ends(orders[k].key.ticker)
      OBVIOUS
    <3>1. CASE k = n
      BY <1>10, <2>2, <3>1
    <3>2. CASE k # n
      <4>1. orders[k].key.ticker # t
        BY <1>2, <1>7, <2>1, <3>2 DEF Converging
      <4>2. Goal(k)' = Goal(k)
        BY <1>5, <1>8, <3>2, <4>1 DEF Goal, Signed
      <4>3. QED
        BY <1>7, <2>1, <4>2 DEF Converging
    <3>3. QED
      BY <3>1, <3>2
  <2> HIDE DEF o, t
  <2>7. \A j, k \in DOMAIN orders' :
            IsLive(j)' /\ IsLive(k)' /\ orders'[j].key.ticker = orders'[k].key.ticker => j = k
    BY <1>5, <1>7, <2>1 DEF Converging
  <2>8. \A k \in DOMAIN orders' : IsLive(k)' => Goal(k)' \in Ends(orders'[k].key.ticker)
    <3>1. \A k \in DOMAIN orders : orders'[k].key.ticker = orders[k].key.ticker
      BY <1>5
    <3>2. QED
      BY <1>5, <2>6, <3>1
  <2>9. QED
    BY <2>5, <2>7, <2>8, ConvergingNext
<1>12. \A i : Pending(i) => Pending(i)'
  <2> SUFFICES ASSUME NEW i, Pending(i) PROVE Pending(i)'
    OBVIOUS
  <2>1. i.key.ticker # t
    BY <1>2 DEF Pending
  <2>2. held'[i.key.ticker] = held[i.key.ticker]
    BY <1>1, <1>3, <2>1
  <2>3. QED
    BY <1>5, <1>7, <2>2 DEF Pending, Signed, Ends, TargetShares
<1>13. \A p \in Procs : \A i \in intents[p] : Foremost(i, p)' <=> Foremost(i, p)
  BY <1>2 DEF Foremost
<1>14. \A p \in Procs : RunSettled(p)'
  <2> SUFFICES ASSUME NEW p \in Procs PROVE RunSettled(p)'
    OBVIOUS
  <2> HIDE DEF o, t
  <2>1. RunSettled(p) /\ UNCHANGED <<pc, job, intents, link>>
    BY <1>2 DEF SettledInv
  <2>2. AllSettled /\ job[p].settled /\ link[p] = "first" => pc[p] # "connected"
    BY <1>2, <2>1 DEF RunSettled
  <2>3. QED
    BY <1>6, <1>12, <1>13, <2>1, <2>2 DEF RunSettled
<1>15. QED
  BY <1>6, <1>11, <1>14 DEF SettledInv

\* Steps in which no process moves either.
LEMMA SettledIdle ==
    ASSUME SettledInv, NothingMoves, UNCHANGED <<pc, job, intents, link>> PROVE SettledInv'
<1>1. \A p \in Procs : RunSettled(p)'
  BY SettledFrame DEF SettledInv, Same
<1>2. QED
  BY <1>1, NothingMovesKeeps DEF SettledInv

\* Everything else the broker does moves no share.
LEMMA SettledBroker ==
    ASSUME LedgerInv, SettledInv, Broker PROVE SettledInv'
<1>1. PICK n \in DOMAIN orders :
        Fill(n) \/ RequestCancel(n) \/ Cancelled(n) \/ BrokerRejects(n)
  BY DEF Broker
<1>2. CASE RequestCancel(n) \/ Cancelled(n) \/ BrokerRejects(n)
  <2>1. PICK st : orders' = [orders EXCEPT ![n].status = st]
    BY <1>2 DEF RequestCancel, Cancelled, BrokerRejects
  <2>2. orders[n].status \in Live /\ UNCHANGED <<pc, job, intents, link, held>>
    BY <1>2 DEF RequestCancel, Cancelled, BrokerRejects, IsLive, Live, procVars
  <2>3. orders \in Seq(Order) /\ \A k \in DOMAIN orders : orders[k] \in Order
    BY DEF LedgerInv, TypeInv, TypeOK
  <2>4. NothingMoves
    BY <2>1, <2>2, <2>3 DEF NothingMoves, Order
  <2>5. QED
    BY <2>2, <2>4, SettledIdle
<1>3. QED
  BY <1>1, <1>2, SettledFill

\* A run's outcome moves no share either.
LEMMA OutcomeMoves ==
    ASSUME TypeInv, NEW p \in Procs, Report(p) \/ MonitorRaises(p) PROVE NothingMoves
<1>1. orders \in Seq(Order) /\ \A k \in DOMAIN orders : orders[k] \in Order
  BY DEF TypeInv, TypeOK
<1>2. CASE Report(p)
  <2>1. held' = held /\ \E out : orders' = [orders EXCEPT ![cur[p]].outcome = out]
    BY <1>2 DEF Report
  <2>2. QED
    BY <1>1, <2>1 DEF NothingMoves, Order
<1>3. CASE MonitorRaises(p)
  <2>1. held' = held
    BY <1>3 DEF MonitorRaises
  <2>2. QED
    BY <1>3, <2>1, RaisedKeeps DEF NothingMoves
<1>4. QED
  BY <1>2, <1>3

\* Every step keeps the invariant.
LEMMA SettledStep ==
    ASSUME LedgerInv, SettledInv, [Next]_vars PROVE SettledInv'
<1>1. ASSUME NEW p \in Procs, Process(p) PROVE SettledInv'
  <2>1. CASE AccountUnread(p) \/ BlockedByKillSwitch(p) \/ NoPrices(p) \/ Finish(p)
    <3>1. Exit(p) /\ UNCHANGED <<orders, held>>
      BY <2>1 DEF AccountUnread, BlockedByKillSwitch, NoPrices, Finish, brokerVars
    <3>2. NothingMoves
      BY <3>1 DEF NothingMoves
    <3>3. QED
      BY <3>1, <3>2, SettledExit
  <2>2. CASE Crash(p)
    <3>1. Exit(p) /\ orders' = Settle(p, "dropped") /\ held' = held
      BY <2>2 DEF Crash
    <3>2. NothingMoves
      BY <3>1, SettleMoves DEF LedgerInv, RecordState, Lost
    <3>3. QED
      BY <3>1, <3>2, SettledExit
  <2>3. CASE Connect(p) \/ ReadAccount(p) \/ Prepare(p) \/ Drop(p)
    BY <2>3, SettledConnect, SettledReadAccount, SettledPrepare, SettledDrop
  <2>4. CASE \E i \in intents[p] : Rejected(p, i) \/ Approved(p, i)
    <3>1. PICK i \in intents[p] : Rejected(p, i) \/ Approved(p, i)
      BY <2>4
    <3>2. UNCHANGED <<job, orders, held, link>> /\ pc[p] = "check"
      BY <3>1 DEF Rejected, Approved, brokerVars
    <3>3. pc' = pc \/ pc' = [pc EXCEPT ![p] = "submit"]
      BY <3>1 DEF Rejected, Approved, At
    <3>4. intents' = intents \/ intents' = [intents EXCEPT ![p] = @ \ {i}]
      BY <3>1 DEF Rejected, Approved
    <3>5. /\ pc'[p] \in {"check", "submit"} /\ intents'[p] \subseteq intents[p]
          /\ \A q \in Procs \ {p} : pc'[q] = pc[q] /\ intents'[q] = intents[q]
      BY <3>2, <3>3, <3>4 DEF LedgerInv, TypeInv, TypeOK
    <3>6. NothingMoves
      BY <3>2 DEF NothingMoves
    <3>7. QED
      BY <3>2, <3>5, <3>6, SettledWithin DEF Submitting
  <2>5. CASE EnsureConnected(p) \/ SubmitRaises(p) \/ Report(p) \/ MonitorRaises(p)
    <3>1. /\ UNCHANGED <<job, intents>>
          /\ \/ pc[p] = "submit" /\ pc' = [pc EXCEPT ![p] = "qualify"]
             \/ pc[p] \in Submitting /\ pc' = [pc EXCEPT ![p] = "record"]
          /\ link' = link \/ link' = [link EXCEPT ![p] = "again"]
      BY <2>5 DEF EnsureConnected, SubmitRaises, Report, MonitorRaises, At, Submitting
    <3>2. NothingMoves
      <4>1. CASE EnsureConnected(p) \/ SubmitRaises(p)
        BY <4>1 DEF EnsureConnected, SubmitRaises, brokerVars, NothingMoves
      <4>2. CASE Report(p) \/ MonitorRaises(p)
        BY <4>2, OutcomeMoves DEF LedgerInv
      <4>3. QED
        BY <2>5, <4>1, <4>2
    <3>3. /\ pc[p] \in Submitting /\ pc'[p] \in {"qualify", "record"}
          /\ pc'[p] = "qualify" => pc[p] = "submit"
          /\ link'[p] = "first" => link[p] = "first"
          /\ \A q \in Procs \ {p} : pc'[q] = pc[q] /\ link'[q] = link[q]
      BY <3>1 DEF LedgerInv, TypeInv, TypeOK, Submitting
    <3>4. \A i \in intents[p] : Foremost(i, p)' <=> Foremost(i, p)
      BY <3>1 DEF Foremost
    <3>5. QED
      BY <3>1, <3>2, <3>3, <3>4, SettledWithin DEF Submitting
  <2>6. CASE \E i \in intents[p] : Place(p, i)
    BY <2>6, SettledPlace
  <2>7. CASE \E i \in intents[p] : Record(p, i)
    <3>1. PICK i \in intents[p] : Record(p, i)
      BY <2>7
    <3>2. /\ UNCHANGED <<job, held, link>> /\ pc[p] = "record" /\ Foremost(i, p)
          /\ pc' = [pc EXCEPT ![p] = "check"]
          /\ intents' = [intents EXCEPT ![p] = @ \ {i}]
          /\ \E state \in RecordState : orders' = Settle(p, state)
      BY <3>1 DEF Record, At, RecordState, Lost
    <3>3. /\ pc'[p] = "check" /\ intents'[p] = intents[p] \ {i}
          /\ \A q \in Procs \ {p} : pc'[q] = pc[q] /\ intents'[q] = intents[q]
      BY <3>2 DEF LedgerInv, TypeInv, TypeOK
    <3>4. NothingMoves
      BY <3>2, SettleMoves DEF LedgerInv
    <3>5. \A a \in intents'[p] : ~Foremost(a, p)
      BY <3>2, <3>3, ForemostUnique
    <3>6. QED
      BY <3>2, <3>3, <3>4, <3>5, SettledWithin DEF Submitting
  <2>8. QED
    BY <1>1, <2>1, <2>2, <2>3, <2>4, <2>5, <2>6, <2>7 DEF Process, Step
<1>2. CASE Engage \/ Disengage \/ UNCHANGED vars
  <2>1. UNCHANGED <<pc, job, intents, link, orders, held>>
    BY <1>2 DEF Engage, Disengage, vars, procVars, brokerVars
  <2>2. NothingMoves
    BY <2>1 DEF NothingMoves
  <2>3. QED
    BY <2>1, <2>2, SettledIdle
<1>3. QED
  BY <1>1, <1>2, SettledBroker DEF Next

\* No order, no run, the positions the account began with.
LEMMA SettledInit == Init => SettledInv
<1> SUFFICES ASSUME Init PROVE SettledInv
  OBVIOUS
<1>1. orders = <<>> /\ DOMAIN orders = {} /\ held = InitialHeld
      /\ pc = [p \in Procs |-> "idle"]
  BY DEF Init
<1>2. \A t \in Tickers : Between(t, held[t])
  <2> SUFFICES ASSUME NEW t \in Tickers PROVE Between(t, InitialHeld[t])
    BY <1>1
  <2>1. InitialHeld[t] \in Ends(t) /\ InitialHeld[t] \in Int
    BY ConfigType DEF Ends
  <2>2. QED
    BY <2>1 DEF Between
<1>3. Converging
  BY <1>1, <1>2 DEF Converging
<1>4. \A p \in Procs : RunSettled(p)
  BY <1>1 DEF RunSettled, Submitting
<1>5. QED
  BY <1>3, <1>4 DEF SettledInv

\* As long as every run begins with no order still working and sends its orders
\* over the connection it began with, positions approach their targets and never
\* cross them: for any targets, prices, account values, runs, crashes, lost
\* connections, cancellations and partial fills.
THEOREM SettledConverges == ASSUME SharedClient PROVE Spec => []SettledRunsConverge
<1>1. Init => SettledInv
  BY SettledInit
<1>2. LedgerInv /\ SettledInv /\ [Next]_vars => SettledInv'
  BY SettledStep
<1>3. SettledInv => SettledRunsConverge
  <2> SUFFICES ASSUME SettledInv, AllSettled, NEW t \in Tickers
               PROVE  \E low, high \in {InitialHeld[t]} \cup TargetShares(t) :
                         low <= held[t] /\ held[t] <= high
    BY DEF SettledRunsConverge, AllSettled
  <2>1. Between(t, held[t])
    BY DEF SettledInv, Converging
  <2>2. QED
    BY <2>1 DEF Between, Ends
<1>4. QED
  BY <1>1, <1>2, <1>3, LedgerInvariant, PTL DEF Spec
=============================================================================
