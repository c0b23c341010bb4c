---------------------------- MODULE KimiGateway ----------------------------
(***************************************************************************)
(* The model gateway under research runs.  A run makes its calls in        *)
(* batches: evidence extraction one call after the other, then the agents  *)
(* of each orchestrator batch concurrently under a semaphore.  A call is   *)
(* served from the response cache, refused by a budget, or posted, retried *)
(* and parsed; an answer that was paid for is added to the run's tracker   *)
(* and to the day's usage file, which all processes share.                 *)
(*                                                                         *)
(* Within a process the code between two awaits is one step.  Booking a    *)
(* paid answer never awaits, so it keeps the whole process busy, but its   *)
(* file operations interleave with those of other processes.               *)
(***************************************************************************)
EXTENDS Integers, FiniteSets, FiniteSetsExt

CONSTANTS
    Runs,            \* research runs, each a process that starts at most once
    Calls,           \* the calls a run makes
    Batch,           \* the batch each call belongs to; batches run in order
    Extraction,      \* calls whose prompt is the same in every run
    Costs,           \* what one answer may cost
    CallCost,        \* the most an answer costs
    MaxConcurrency, MaxAttempts,
    RunBudget,       \* MODEL_BUDGET_USD_PER_RUN, 0 when disabled
    DayBudget,       \* MODEL_BUDGET_USD_PER_DAY, 0 when disabled
    NumDays,         \* days the exploration covers
    NoFile, NoCall

Days == 1 .. NumDays

\* A run's place: a crash and an aborted run are "over" like a finished one.
Life == {"new", "up", "over"}

\* A call: waiting for its batch or a slot; posted; being booked; returned a
\* response; returned one it stored on disk; raised.
Done == {"ok", "stored", "error"}
Phase == {"waiting", "posting", "booking"} \cup Done

\* What became of an answer that was paid for: it could not be parsed; it is
\* being booked; it is in the usage file; its process died first; the file
\* could not be replaced.
Fate == {"none", "unparsed", "booking", "booked", "died", "raced"}

\* A paid call from its answer to its return: the steps of ledger.record, with
\* the day and its new total, and the cache entry.
Desk == [call : Calls \cup {NoCall}, step : {"read", "write", "replace", "cache"},
         day : Days, total : Nat]

NoBooking == [call |-> NoCall, step |-> "read", day |-> 1, total |-> 0]

ASSUME GatewayAssumption ==
    /\ IsFiniteSet(Calls) /\ NoCall \notin Calls
    /\ Batch \in [Calls -> Nat]
    /\ Extraction \subseteq Calls
    /\ \A c \in Extraction, d \in Calls : c # d => Batch[c] # Batch[d]
    /\ CallCost \in Nat /\ Costs \subseteq 0 .. CallCost
    /\ MaxConcurrency \in Nat \ {0} /\ MaxAttempts \in Nat \ {0}
    /\ RunBudget \in Nat /\ DayBudget \in Nat
    /\ NumDays \in Nat \ {0}
    /\ NoFile \notin Nat

VARIABLES
    life,       \* each run
    at,         \* each call of each run
    tries,      \* attempts a posted call has used up
    spent,      \* cost_usd of each run's UsageTracker
    paid, fate, \* what the answer to each call cost, and what became of it
    desk,       \* which paid call each process is booking, and how far it is
    usage,      \* the cost in each day's usage file
    tmp,        \* the temporary file beside it
    disk,       \* keys of the response cache on disk
    today,
    overlapped  \* two runs were once up at the same time

runVars  == <<life, at, tries, spent, paid, fate, desk>>
fileVars == <<usage, tmp, disk>>
vars == <<runVars, fileVars, today, overlapped>>

-----------------------------------------------------------------------------
\* The content key of a call.  Agents' prompts carry the run id.
Key(r, c) == IF c \in Extraction THEN <<"any run", c>> ELSE <<r, c>>
Keys == ({"any run"} \cup Runs) \X Calls

\* Variant: a call never gives its slot back.
SlotsLeaked(r) == {c \in Calls : at[r][c] # "waiting"}

\* The calls of a run that hold a slot of the semaphore.
InFlight(r) == {c \in Calls : at[r][c] \in {"posting", "booking"}}

\* The event loop is free: no call of the process is being booked.
Idle(r) == life[r] = "up" /\ desk[r].call = NoCall

\* gather() returns when every agent of the batch has its outcome.
BatchOpen(r, c) == \A b \in Calls : Batch[b] < Batch[c] => at[r][b] \in Done

\* A run whose extraction raised goes no further.
Aborted(r) == \E c \in Extraction : at[r][c] = "error"

\* Call c starts: its batch is open and the semaphore has a slot.
Starts(r, c) ==
    /\ Idle(r) /\ ~Aborted(r)
    /\ at[r][c] = "waiting"
    /\ BatchOpen(r, c)
    /\ Cardinality(InFlight(r)) < MaxConcurrency

\* Variant: the budget may be reached, not only approached.
RunBudgetReached(r) == RunBudget = 0 \/ spent[r] <= RunBudget
DayBudgetReached == DayBudget = 0 \/ usage[today] <= DayBudget

\* check_budget of the tracker and of the daily ledger.
RunBudgetLeft(r) == RunBudget = 0 \/ spent[r] < RunBudget
DayBudgetLeft == DayBudget = 0 \/ usage[today] < DayBudget

\* Variant: the disk cache is never read.
NeverCached(r, c) == FALSE

Cached(r, c) == Key(r, c) \in disk

Move(r, c, phase) == at' = [at EXCEPT ![r][c] = phase]

-----------------------------------------------------------------------------
Start(r) ==
    /\ life[r] = "new"
    /\ life' = [life EXCEPT ![r] = "up"]
    /\ overlapped' = (overlapped \/ \E q \in Runs : life[q] = "up")
    /\ UNCHANGED <<at, tries, spent, paid, fate, desk, fileVars, today>>

Hit(r, c) ==
    /\ Starts(r, c)
    /\ Cached(r, c)
    /\ Move(r, c, "ok")
    /\ UNCHANGED <<life, tries, spent, paid, fate, desk, fileVars, today, overlapped>>

\* BudgetExceededError before anything is sent.
Refused(r, c) ==
    /\ Starts(r, c)
    /\ ~Cached(r, c)
    /\ ~(RunBudgetLeft(r) /\ DayBudgetLeft)
    /\ Move(r, c, "error")
    /\ UNCHANGED <<life, tries, spent, paid, fate, desk, fileVars, today, overlapped>>

Post(r, c) ==
    /\ Starts(r, c)
    /\ ~Cached(r, c)
    /\ RunBudgetLeft(r) /\ DayBudgetLeft
    /\ Move(r, c, "posting")
    /\ UNCHANGED <<life, tries, spent, paid, fate, desk, fileVars, today, overlapped>>

\* A timeout, a transport error, 429 or 5xx; after the last attempt it raises.
AttemptFails(r, c) ==
    /\ Idle(r) /\ at[r][c] = "posting"
    /\ tries' = [tries EXCEPT ![r][c] = @ + 1]
    /\ Move(r, c, IF tries[r][c] + 1 < MaxAttempts THEN "posting" ELSE "error")
    /\ UNCHANGED <<life, spent, paid, fate, desk, fileVars, today, overlapped>>

\* Any other 4xx, or a body that is not JSON: no retry.
GatewayRejects(r, c) ==
    /\ Idle(r) /\ at[r][c] = "posting"
    /\ Move(r, c, "error")
    /\ UNCHANGED <<life, tries, spent, paid, fate, desk, fileVars, today, overlapped>>

\* A complete answer that _parse rejects: it raises before anything is
\* recorded, audited or cached.
Unparsable(r, c) ==
    /\ Idle(r) /\ at[r][c] = "posting"
    /\ \E cost \in Costs : paid' = [paid EXCEPT ![r][c] = cost]
    /\ fate' = [fate EXCEPT ![r][c] = "unparsed"]
    /\ Move(r, c, "error")
    /\ UNCHANGED <<life, tries, spent, desk, fileVars, today, overlapped>>

\* A valid answer: tracker.record, then into ledger.record.
Answered(r, c) ==
    /\ Idle(r) /\ at[r][c] = "posting"
    /\ \E cost \in Costs :
          /\ paid' = [paid EXCEPT ![r][c] = cost]
          /\ spent' = [spent EXCEPT ![r] = @ + cost]
    /\ fate' = [fate EXCEPT ![r][c] = "booking"]
    /\ desk' = [desk EXCEPT ![r].call = c, ![r].step = "read"]
    /\ Move(r, c, "booking")
    /\ UNCHANGED <<life, tries, fileVars, today, overlapped>>

-----------------------------------------------------------------------------
(* DailyUsageLedger.record and the cache entry *)

Books(r, step) == life[r] = "up" /\ desk[r].call # NoCall /\ desk[r].step = step

\* Variant: the file is overwritten with the call's own cost.
OwnCost(r) == paid[r][desk[r].call]

NewTotal(r) == usage[today] + paid[r][desk[r].call]

ReadUsage(r) ==
    /\ Books(r, "read")
    /\ desk' = [desk EXCEPT ![r].step = "write", ![r].day = today, ![r].total = NewTotal(r)]
    /\ UNCHANGED <<life, at, tries, spent, paid, fate, fileVars, today, overlapped>>

WriteTmp(r) ==
    /\ Books(r, "write")
    /\ tmp' = [tmp EXCEPT ![desk[r].day] = desk[r].total]
    /\ desk' = [desk EXCEPT ![r].step = "replace"]
    /\ UNCHANGED <<life, at, tries, spent, paid, fate, usage, disk, today, overlapped>>

\* Variant: replace() never finds its source missing.
AlwaysThere(r) == TRUE

TmpThere(r) == tmp[desk[r].day] # NoFile

\* The rename, and the audit entry.
Replace(r) ==
    /\ Books(r, "replace")
    /\ TmpThere(r)
    /\ usage' = [usage EXCEPT ![desk[r].day] = tmp[desk[r].day]]
    /\ tmp' = [tmp EXCEPT ![desk[r].day] = NoFile]
    /\ fate' = [fate EXCEPT ![r][desk[r].call] = "booked"]
    /\ desk' = [desk EXCEPT ![r].step = "cache"]
    /\ UNCHANGED <<life, at, tries, spent, paid, disk, today, overlapped>>

\* Another process has renamed the temporary file: FileNotFoundError, and the
\* paid answer is neither audited nor cached.
ReplaceFails(r) ==
    /\ Books(r, "replace")
    /\ ~TmpThere(r)
    /\ fate' = [fate EXCEPT ![r][desk[r].call] = "raced"]
    /\ Move(r, desk[r].call, "error")
    /\ desk' = [desk EXCEPT ![r] = NoBooking]
    /\ UNCHANGED <<life, tries, spent, paid, fileVars, today, overlapped>>

\* The response goes to the caller, and to the disk cache unless the file cannot
\* be written: the OSError is swallowed.
Keep(r) ==
    /\ Books(r, "cache")
    /\ \/ /\ disk' = disk \cup {Key(r, desk[r].call)}
          /\ Move(r, desk[r].call, "stored")
       \/ /\ UNCHANGED disk
          /\ Move(r, desk[r].call, "ok")
    /\ desk' = [desk EXCEPT ![r] = NoBooking]
    /\ UNCHANGED <<life, tries, spent, paid, fate, usage, tmp, today, overlapped>>

-----------------------------------------------------------------------------
\* Every call has returned or raised, or extraction has raised.
Finish(r) ==
    /\ Idle(r)
    /\ Aborted(r) \/ \A c \in Calls : at[r][c] \in Done
    /\ life' = [life EXCEPT ![r] = "over"]
    /\ UNCHANGED <<at, tries, spent, paid, fate, desk, fileVars, today, overlapped>>

\* The process is killed; a booking in progress is lost with it.
Crash(r) ==
    /\ life[r] = "up"
    /\ life' = [life EXCEPT ![r] = "over"]
    /\ fate' = [fate EXCEPT ![r] =
                  [c \in Calls |-> IF @[c] = "booking" THEN "died" ELSE @[c]]]
    /\ desk' = [desk EXCEPT ![r] = NoBooking]
    /\ UNCHANGED <<at, tries, spent, paid, fileVars, today, overlapped>>

Midnight ==
    /\ today < NumDays
    /\ today' = today + 1
    /\ UNCHANGED <<runVars, fileVars, overlapped>>

-----------------------------------------------------------------------------
Init ==
    /\ life = [r \in Runs |-> "new"]
    /\ at = [r \in Runs |-> [c \in Calls |-> "waiting"]]
    /\ tries = [r \in Runs |-> [c \in Calls |-> 0]]
    /\ spent = [r \in Runs |-> 0]
    /\ paid = [r \in Runs |-> [c \in Calls |-> 0]]
    /\ fate = [r \in Runs |-> [c \in Calls |-> "none"]]
    /\ desk = [r \in Runs |-> NoBooking]
    /\ usage = [d \in Days |-> 0]
    /\ tmp = [d \in Days |-> NoFile]
    /\ disk = {}
    /\ today = 1
    /\ overlapped = FALSE

Complete(r, c) ==
    \/ Hit(r, c) \/ Refused(r, c) \/ Post(r, c)
    \/ AttemptFails(r, c) \/ GatewayRejects(r, c) \/ Unparsable(r, c) \/ Answered(r, c)

Book(r) == ReadUsage(r) \/ WriteTmp(r) \/ Replace(r) \/ ReplaceFails(r) \/ Keep(r)

\* What a run does by itself.  A posted request ends: the client has a timeout.
Step(r) == (\E c \in Calls : Complete(r, c)) \/ Book(r) \/ Finish(r)

Next == (\E r \in Runs : Start(r) \/ Step(r) \/ Crash(r)) \/ Midnight

Spec == Init /\ [][Next]_vars

FairSpec == Spec /\ \A r \in Runs : WF_vars(Step(r))

-----------------------------------------------------------------------------
(* Properties *)

\* Every variable holds a value of its kind (models/kimi.py, models/provider.py).
TypeOK ==
    /\ life \in [Runs -> Life]
    /\ at \in [Runs -> [Calls -> Phase]]
    /\ tries \in [Runs -> [Calls -> Nat]]
    /\ spent \in [Runs -> Nat]
    /\ paid \in [Runs -> [Calls -> 0 .. CallCost]]
    /\ fate \in [Runs -> [Calls -> Fate]]
    /\ desk \in [Runs -> Desk]
    /\ usage \in [Days -> Nat]
    /\ tmp \in [Days -> Nat \cup {NoFile}]
    /\ disk \subseteq Keys
    /\ today \in Days
    /\ overlapped \in BOOLEAN

\* Checks come before the await and bookings after it, so a run overspends its
\* budget, but by no more than the calls the semaphore lets past one check
\* (UsageTracker.check_budget and record around the await of complete()).
RunSpendBounded ==
    RunBudget > 0 =>
        \A r \in Runs : spent[r] <= RunBudget - 1 + MaxConcurrency * CallCost

\* The same for the day's file, across any number of runs, crashes and
\* midnights, as long as no two runs overlap (DailyUsageLedger).
DaySpendBounded ==
    DayBudget > 0 /\ ~overlapped =>
        \A d \in Days : usage[d] <= DayBudget - 1 + MaxConcurrency * CallCost

\* The usage files add up to what the runs booked, and no booking fails, as
\* long as no two runs overlap: a paid answer is missing from them only if it
\* could not be parsed or its process died (DailyUsageLedger.record).
Booked == {rc \in Runs \X Calls : fate[rc[1]][rc[2]] = "booked"}
FilesComplete ==
    ~overlapped =>
        /\ MapThenSumSet(LAMBDA d : usage[d], Days)
               = MapThenSumSet(LAMBDA rc : paid[rc[1]][rc[2]], Booked)
        /\ \A r \in Runs, c \in Calls : fate[r][c] # "raced"

\* Once a run has stored the answer to an extraction call, no later run asks for
\* it again, let alone pays, whatever crashed before or after (the disk cache of
\* complete()).  An answer whose file could not be written, or whose process
\* died between the usage file and the cache, is paid for again.
NeverRepaid ==
    ~overlapped =>
        \A c \in Extraction, r, q \in Runs :
            at[r][c] = "stored" /\ life[q] = "up" /\ q # r =>
                fate[q][c] = "none" /\ at[q][c] \notin {"posting", "booking"}

\* A run that starts comes to its end, whatever the gateway answers: attempts
\* are bounded, and a call that fails gives its slot back
\* (AgentOrchestrator.run, _post_with_retries).
RunsComplete == \A r \in Runs : life[r] = "up" ~> life[r] = "over"
=============================================================================
