------------------------- MODULE KimiGateway_proofs -------------------------
(***************************************************************************)
(* Proofs about KimiGateway: its types; that a run overspends its budget   *)
(* by no more than the calls the semaphore lets past one check; and, for   *)
(* runs that never overlap, that a day does not either, that the usage     *)
(* files add up, and that no extraction answer is paid for twice.          *)
(***************************************************************************)
EXTENDS KimiGateway, FiniteSetTheorems, TLAPS, Sums

\* The assumption, in the form the steps use.
LEMMA Constants ==
    /\ IsFiniteSet(Calls) /\ NoCall \notin Calls
    /\ CallCost \in Nat /\ \A n \in Costs : n \in 0 .. CallCost
    /\ MaxConcurrency \in Nat \ {0} /\ MaxAttempts \in Nat \ {0}
    /\ RunBudget \in Nat /\ DayBudget \in Nat
    /\ NumDays \in Nat \ {0}
    /\ NoFile \notin Nat
BY GatewayAssumption DEF GatewayAssumption

-----------------------------------------------------------------------------
(* Type correctness *)

LEMMA TypeInit == Init => TypeOK
<1> SUFFICES ASSUME Init PROVE TypeOK
  OBVIOUS
<1>1. 1 \in Days
  BY Constants DEF Days
<1>2. NoBooking \in Desk
  BY <1>1 DEF NoBooking, Desk
<1>3. life \in [Runs -> Life] /\ spent \in [Runs -> Nat]
  BY DEF Init, Life
<1>4. at \in [Runs -> [Calls -> Phase]]
  BY DEF Init, Phase
<1>5. tries \in [Runs -> [Calls -> Nat]]
  BY DEF Init
<1>6. paid \in [Runs -> [Calls -> 0 .. CallCost]]
  BY Constants DEF Init
<1>7. fate \in [Runs -> [Calls -> Fate]]
  BY DEF Init, Fate
<1>8. desk \in [Runs -> Desk]
  BY <1>2 DEF Init
<1>9. usage \in [Days -> Nat] /\ tmp \in [Days -> Nat \cup {NoFile}]
  BY DEF Init
<1> QED
  BY <1>1, <1>3, <1>4, <1>5, <1>6, <1>7, <1>8, <1>9 DEF Init, TypeOK

LEMMA TypeStep == TypeOK /\ [Next]_vars => TypeOK'
<1> SUFFICES ASSUME TypeOK, [Next]_vars PROVE TypeOK'
  OBVIOUS
<1> USE DEF TypeOK
<1>0. NoBooking \in Desk
  BY Constants DEF NoBooking, Desk, Days
<1>1. ASSUME NEW r \in Runs, Start(r) PROVE TypeOK'
  <2>1. overlapped' \in BOOLEAN
    BY <1>1 DEF Start
  <2> QED
    BY <1>1, <2>1 DEF Start, fileVars, Life
<1>2. ASSUME NEW r \in Runs, NEW c \in Calls, Complete(r, c) PROVE TypeOK'
  <2>1. ASSUME NEW phase \in Phase, Move(r, c, phase) PROVE at' \in [Runs -> [Calls -> Phase]]
    BY <2>1 DEF Move
  <2>2. {"ok", "error", "posting", "booking"} \subseteq Phase
    BY DEF Phase, Done
  <2>3. CASE Hit(r, c)
    BY <2>1, <2>2, <2>3 DEF Hit, fileVars
  <2>4. CASE Refused(r, c)
    BY <2>1, <2>2, <2>4 DEF Refused, fileVars
  <2>5. CASE Post(r, c)
    BY <2>1, <2>2, <2>5 DEF Post, fileVars
  <2>6. CASE AttemptFails(r, c)
    <3>1. tries' \in [Runs -> [Calls -> Nat]]
      BY <2>6 DEF AttemptFails
    <3>2. at' \in [Runs -> [Calls -> Phase]]
      BY <2>1, <2>2, <2>6 DEF AttemptFails
    <3> QED
      BY <2>6, <3>1, <3>2 DEF AttemptFails, fileVars
  <2>7. CASE GatewayRejects(r, c)
    BY <2>1, <2>2, <2>7 DEF GatewayRejects, fileVars
  <2>8. CASE Unparsable(r, c)
    <3>1. at' \in [Runs -> [Calls -> Phase]]
      BY <2>1, <2>2, <2>8 DEF Unparsable
    <3>2. paid' \in [Runs -> [Calls -> 0 .. CallCost]]
      BY <2>8, Constants DEF Unparsable
    <3>3. fate' \in [Runs -> [Calls -> Fate]]
      BY <2>8 DEF Unparsable, Fate
    <3> QED
      BY <2>8, <3>1, <3>2, <3>3 DEF Unparsable, fileVars
  <2>9. CASE Answered(r, c)
    <3>1. at' \in [Runs -> [Calls -> Phase]]
      BY <2>1, <2>2, <2>9 DEF Answered
    <3>2. paid' \in [Runs -> [Calls -> 0 .. CallCost]] /\ spent' \in [Runs -> Nat]
      BY <2>9, Constants DEF Answered
    <3>3. fate' \in [Runs -> [Calls -> Fate]]
      BY <2>9 DEF Answered, Fate
    <3>4. desk' \in [Runs -> Desk]
      <4>1. [desk[r] EXCEPT !.call = c, !.step = "read"] \in Desk
        BY DEF Desk
      <4>2. desk' = [desk EXCEPT ![r] = [desk[r] EXCEPT !.call = c, !.step = "read"]]
        BY <2>9, Zenon DEF Answered
      <4> QED
        BY <4>1, <4>2
    <3> QED
      BY <2>9, <3>1, <3>2, <3>3, <3>4 DEF Answered, fileVars
  <2> QED
    BY <1>2, <2>3, <2>4, <2>5, <2>6, <2>7, <2>8, <2>9 DEF Complete
<1>3. ASSUME NEW r \in Runs, Book(r) PROVE TypeOK'
  <2>1. desk[r] \in Desk /\ desk[r].call \in Calls
    BY <1>3 DEF Book, ReadUsage, WriteTmp, Replace, ReplaceFails, Keep, Books, Desk
  <2>2. CASE ReadUsage(r)
    <3>1. NewTotal(r) \in Nat
      BY <2>1, Constants DEF NewTotal
    <3>2. desk' \in [Runs -> Desk]
      BY <2>1, <2>2, <3>1 DEF ReadUsage, Desk
    <3> QED
      BY <2>2, <3>2 DEF ReadUsage, fileVars
  <2>3. CASE WriteTmp(r)
    <3>1. tmp' \in [Days -> Nat \cup {NoFile}]
      BY <2>1, <2>3 DEF WriteTmp, Desk
    <3>2. desk' \in [Runs -> Desk]
      BY <2>1, <2>3 DEF WriteTmp, Desk
    <3> QED
      BY <2>3, <3>1, <3>2 DEF WriteTmp
  <2>4. CASE Replace(r)
    <3>1. desk[r].day \in Days
      BY <2>1 DEF Desk
    <3>2. usage' \in [Days -> Nat] /\ tmp' \in [Days -> Nat \cup {NoFile}]
      BY <2>4, <3>1 DEF Replace, TmpThere
    <3>3. fate' \in [Runs -> [Calls -> Fate]]
      BY <2>1, <2>4 DEF Replace, Fate
    <3>4. desk' \in [Runs -> Desk]
      BY <2>1, <2>4 DEF Replace, Desk
    <3> QED
      BY <2>4, <3>2, <3>3, <3>4 DEF Replace
  <2>5. CASE ReplaceFails(r)
    <3>1. fate' \in [Runs -> [Calls -> Fate]]
      BY <2>1, <2>5 DEF ReplaceFails, Fate
    <3>2. at' \in [Runs -> [Calls -> Phase]]
      BY <2>1, <2>5 DEF ReplaceFails, Move, Phase, Done
    <3> QED
      BY <1>0, <2>5, <3>1, <3>2 DEF ReplaceFails, fileVars
  <2>6. CASE Keep(r)
    <3>1. disk' \subseteq Keys
      <4>1. \A c \in Calls : Key(r, c) \in Keys
        BY DEF Key, Keys
      <4> QED
        BY <2>1, <2>6, <4>1 DEF Keep
    <3>2. at' \in [Runs -> [Calls -> Phase]]
      <4>1. \E phase \in {"ok", "stored"} : at' = [at EXCEPT ![r][desk[r].call] = phase]
        BY <2>6 DEF Keep, Move
      <4> QED
        BY <2>1, <4>1 DEF Phase, Done
    <3> QED
      BY <1>0, <2>6, <3>1, <3>2 DEF Keep
  <2> QED
    BY <1>3, <2>2, <2>3, <2>4, <2>5, <2>6 DEF Book
<1>4. ASSUME NEW r \in Runs, Finish(r) PROVE TypeOK'
  BY <1>4 DEF Finish, fileVars, Life
<1>5. ASSUME NEW r \in Runs, Crash(r) PROVE TypeOK'
  <2>1. fate' \in [Runs -> [Calls -> Fate]]
    BY <1>5 DEF Crash, Fate
  <2> QED
    BY <1>0, <1>5, <2>1 DEF Crash, fileVars, Life
<1>6. CASE Midnight
  BY <1>6, Constants DEF Midnight, runVars, fileVars, Days
<1>7. CASE UNCHANGED vars
  BY <1>7 DEF vars, runVars, fileVars
<1> QED
  BY <1>1, <1>2, <1>3, <1>4, <1>5, <1>6, <1>7 DEF Next, Step

\* Every variable always holds a value of its kind (models/kimi.py,
\* models/provider.py, agents/orchestrator.py).
THEOREM TypeCorrect == Spec => []TypeOK
<1>1. Init => TypeOK
  BY TypeInit
<1>2. TypeOK /\ [Next]_vars => TypeOK'
  BY TypeStep
<1> QED
  BY <1>1, <1>2, PTL DEF Spec

-----------------------------------------------------------------------------
(* A run's overspend *)

\* The calls whose cost a budget check cannot see yet.
Posting(r) == {c \in Calls : at[r][c] = "posting"}

\* The most a run may still come to spend stays bounded: every posted call
\* was let past a check that left room in the budget and in the semaphore.
Within(r) ==
    /\ Cardinality(InFlight(r)) <= MaxConcurrency
    /\ RunBudget > 0 =>
          spent[r] + Cardinality(Posting(r)) * CallCost
              <= RunBudget - 1 + MaxConcurrency * CallCost

SpendInv == \A r \in Runs : Within(r)

\* Multiplication by a natural number keeps the order, and distributes.
LEMMA TimesMonotone ==
    ASSUME NEW a \in Nat, NEW b \in Nat, NEW k \in Nat, a <= b
    PROVE  a * k \in Nat /\ b * k \in Nat /\ a * k <= b * k
OBVIOUS

LEMMA TimesNext == \A a \in Nat, k \in Nat : (a + 1) * k = a * k + k
OBVIOUS

\* The sets of calls are finite, and posted calls hold a slot.
LEMMA CallSets ==
    ASSUME NEW r \in Runs
    PROVE  /\ IsFiniteSet(InFlight(r)) /\ IsFiniteSet(Posting(r))
           /\ Cardinality(InFlight(r)) \in Nat /\ Cardinality(Posting(r)) \in Nat
           /\ Cardinality(Posting(r)) <= Cardinality(InFlight(r))
<1>1. IsFiniteSet(InFlight(r))
  BY Constants, FS_Subset DEF InFlight
<1>2. Posting(r) \subseteq InFlight(r)
  BY DEF InFlight, Posting
<1> QED
  BY <1>1, <1>2, FS_Subset, FS_CardinalityType

\* A run whose costs stay and whose calls only leave stays within.
LEMMA Leaving ==
    ASSUME TypeOK, NEW r \in Runs, Within(r),
           spent'[r] = spent[r],
           InFlight(r)' \subseteq InFlight(r), Posting(r)' \subseteq Posting(r)
    PROVE  Within(r)'
<1>1. Cardinality(InFlight(r)') <= Cardinality(InFlight(r))
  BY CallSets, FS_Subset
<1>2. Cardinality(Posting(r)') <= Cardinality(Posting(r))
  BY CallSets, FS_Subset
<1>3. Cardinality(InFlight(r)') \in Nat /\ Cardinality(Posting(r)') \in Nat
  BY CallSets, FS_Subset, FS_CardinalityType
<1>4. /\ Cardinality(Posting(r)') * CallCost \in Nat
      /\ Cardinality(Posting(r)) * CallCost \in Nat
      /\ Cardinality(Posting(r)') * CallCost <= Cardinality(Posting(r)) * CallCost
  BY <1>2, <1>3, CallSets, Constants, TimesMonotone
<1>5. MaxConcurrency * CallCost \in Nat /\ spent[r] \in Nat
  BY Constants DEF TypeOK
<1>6. Cardinality(InFlight(r)) \in Nat
  BY CallSets
<1> QED
  BY <1>1, <1>3, <1>4, <1>5, <1>6, Constants DEF Within

\* Moving a call touches no other run, and no other call.
LEMMA Moves ==
    ASSUME TypeOK, NEW r \in Runs, NEW c \in Calls, NEW phase \in Phase,
           Move(r, c, phase)
    PROVE  /\ \A q \in Runs \ {r} :
                 InFlight(q)' = InFlight(q) /\ Posting(q)' = Posting(q)
           /\ InFlight(r)' = IF phase \in {"posting", "booking"}
                             THEN InFlight(r) \cup {c} ELSE InFlight(r) \ {c}
           /\ Posting(r)' = IF phase = "posting"
                            THEN Posting(r) \cup {c} ELSE Posting(r) \ {c}
<1>1. \A q \in Runs \ {r} : at'[q] = at[q]
  BY DEF Move, TypeOK
<1>2. \A d \in Calls : at'[r][d] = IF d = c THEN phase ELSE at[r][d]
  BY DEF Move, TypeOK
<1>3. \A q \in Runs \ {r} : InFlight(q)' = InFlight(q) /\ Posting(q)' = Posting(q)
  BY <1>1 DEF InFlight, Posting
<1>4. InFlight(r)' = IF phase \in {"posting", "booking"}
                     THEN InFlight(r) \cup {c} ELSE InFlight(r) \ {c}
  BY <1>2 DEF InFlight
<1>5. Posting(r)' = IF phase = "posting"
                    THEN Posting(r) \cup {c} ELSE Posting(r) \ {c}
  BY <1>2 DEF Posting
<1> QED
  BY <1>3, <1>4, <1>5

\* A call that returns or raises, costs booked before, keeps all runs within.
LEMMA Returns ==
    ASSUME TypeOK, SpendInv, NEW r \in Runs, NEW c \in Calls, NEW phase \in Done,
           Move(r, c, phase), UNCHANGED spent
    PROVE  SpendInv'
<1>1. phase \in Phase /\ phase \notin {"posting", "booking"}
  BY DEF Done, Phase
<1>2. ASSUME NEW q \in Runs PROVE Within(q)'
  <2>1. InFlight(q)' \subseteq InFlight(q) /\ Posting(q)' \subseteq Posting(q)
    BY <1>1, Moves
  <2> QED
    BY <2>1, Leaving DEF SpendInv
<1> QED
  BY <1>2 DEF SpendInv

\* A call passes both checks and is posted.
LEMMA Posts ==
    ASSUME TypeOK, SpendInv, NEW r \in Runs, NEW c \in Calls, Post(r, c)
    PROVE  SpendInv'
<1> DEFINE n == Cardinality(Posting(r))  m == Cardinality(InFlight(r))
<1>1. /\ Move(r, c, "posting") /\ "posting" \in Phase
      /\ UNCHANGED spent /\ at[r][c] = "waiting"
      /\ m < MaxConcurrency /\ RunBudgetLeft(r)
  BY DEF Post, Starts, Phase
<1>2. /\ \A q \in Runs \ {r} : InFlight(q)' = InFlight(q) /\ Posting(q)' = Posting(q)
      /\ InFlight(r)' = InFlight(r) \cup {c} /\ Posting(r)' = Posting(r) \cup {c}
  BY <1>1, Moves
<1>3. c \notin InFlight(r) /\ c \notin Posting(r)
  BY <1>1 DEF InFlight, Posting
<1>4. n \in Nat /\ m \in Nat /\ n <= m
  BY CallSets
<1>5. Cardinality(InFlight(r)') = m + 1 /\ Cardinality(Posting(r)') = n + 1
  BY <1>2, <1>3, CallSets, FS_AddElement
<1>6. spent[r] \in Nat /\ spent'[r] = spent[r]
  BY <1>1 DEF TypeOK
<1>7. (n + 1) * CallCost \in Nat /\ MaxConcurrency * CallCost \in Nat
      /\ (n + 1) * CallCost <= MaxConcurrency * CallCost
  <2>1. n + 1 \in Nat /\ n + 1 <= MaxConcurrency /\ MaxConcurrency \in Nat /\ CallCost \in Nat
    BY <1>1, <1>4, Constants
  <2> QED
    BY <2>1, TimesMonotone
<1>8. Within(r)'
  <2> HIDE DEF n, m
  <2>1. m + 1 <= MaxConcurrency
    BY <1>1, <1>4, Constants
  <2>2. RunBudget > 0 => spent[r] + (n + 1) * CallCost
                             <= RunBudget - 1 + MaxConcurrency * CallCost
    BY <1>1, <1>6, <1>7, Constants DEF RunBudgetLeft
  <2> QED
    BY <1>5, <1>6, <2>1, <2>2 DEF Within
<1>9. ASSUME NEW q \in Runs \ {r} PROVE Within(q)'
  BY <1>1, <1>2, <1>9, Leaving DEF SpendInv
<1> QED
  BY <1>8, <1>9 DEF SpendInv

\* A posted call is answered and its cost added.
LEMMA Answers ==
    ASSUME TypeOK, SpendInv, NEW r \in Runs, NEW c \in Calls, Answered(r, c)
    PROVE  SpendInv'
<1> DEFINE n == Cardinality(Posting(r)')
<1>1. /\ Move(r, c, "booking") /\ "booking" \in Phase /\ at[r][c] = "posting"
  BY DEF Answered, Phase
<1>2. PICK cost \in Costs : spent' = [spent EXCEPT ![r] = @ + cost]
  BY DEF Answered
<1>3. /\ \A q \in Runs \ {r} : InFlight(q)' = InFlight(q) /\ Posting(q)' = Posting(q)
      /\ InFlight(r)' = InFlight(r) \cup {c} /\ Posting(r)' = Posting(r) \ {c}
  BY <1>1, Moves
<1>4. InFlight(r)' = InFlight(r) /\ c \in Posting(r)
  BY <1>1, <1>3 DEF InFlight, Posting
<1>5. Cardinality(Posting(r)) = n + 1 /\ n \in Nat
  <2>1. IsFiniteSet(Posting(r)) /\ Cardinality(Posting(r)) \in Nat
    BY CallSets
  <2>2. IsFiniteSet(Posting(r)') /\ n \in Nat
    BY <1>3, <2>1, FS_Subset, FS_CardinalityType
  <2>3. n = Cardinality(Posting(r)) - 1
    BY <1>3, <1>4, <2>1, FS_RemoveElement
  <2> HIDE DEF n
  <2> QED
    BY <2>1, <2>2, <2>3
<1>6. cost \in Nat /\ cost <= CallCost /\ spent[r] \in Nat /\ spent'[r] = spent[r] + cost
  BY <1>2, Constants DEF TypeOK
<1>7. (n + 1) * CallCost = n * CallCost + CallCost /\ n * CallCost \in Nat
  <2> HIDE DEF n
  <2> QED
    BY <1>5, Constants, TimesNext
<1>8. Within(r)'
  <2> HIDE DEF n
  <2>1. Within(r)
    BY DEF SpendInv
  <2>2. RunBudget > 0 => spent[r] + (n + 1) * CallCost
                             <= RunBudget - 1 + MaxConcurrency * CallCost
    BY <1>5, <2>1 DEF Within
  <2>3. RunBudget > 0 => spent'[r] + n * CallCost
                             <= RunBudget - 1 + MaxConcurrency * CallCost
    <3>1. MaxConcurrency * CallCost \in Nat
      BY Constants
    <3> QED
      BY <1>6, <1>7, <2>2, <3>1, Constants
  <2>4. n = Cardinality(Posting(r)')
    BY DEF n
  <2> QED
    BY <1>4, <2>1, <2>3, <2>4 DEF Within
<1>9. ASSUME NEW q \in Runs \ {r} PROVE Within(q)'
  <2>1. spent'[q] = spent[q]
    BY <1>2, <1>9 DEF TypeOK
  <2> QED
    BY <1>3, <1>9, <2>1, Leaving DEF SpendInv
<1> QED
  BY <1>8, <1>9 DEF SpendInv

LEMMA SpendInit == Init => SpendInv
<1> SUFFICES ASSUME Init, NEW r \in Runs PROVE Within(r)
  BY DEF SpendInv
<1>1. InFlight(r) = {} /\ Posting(r) = {} /\ spent[r] = 0
  BY DEF Init, InFlight, Posting
<1>2. Cardinality({}) = 0
  BY FS_EmptySet
<1>3. MaxConcurrency * CallCost \in Nat /\ 0 * CallCost = 0
  BY Constants
<1> QED
  BY <1>1, <1>2, <1>3, Constants DEF Within

LEMMA SpendStep == TypeOK /\ SpendInv /\ [Next]_vars => SpendInv'
<1> SUFFICES ASSUME TypeOK, SpendInv, [Next]_vars PROVE SpendInv'
  OBVIOUS
<1>1. ASSUME UNCHANGED <<at, spent>> PROVE SpendInv'
  <2>1. ASSUME NEW q \in Runs PROVE Within(q)'
    BY <1>1, Leaving DEF SpendInv, InFlight, Posting
  <2> QED
    BY <2>1 DEF SpendInv
<1>2. ASSUME NEW r \in Runs, NEW c \in Calls, Complete(r, c) PROVE SpendInv'
  <2>1. "ok" \in Done /\ "error" \in Done
    BY DEF Done
  <2>2. CASE Hit(r, c)
    BY <2>1, <2>2, Returns DEF Hit
  <2>3. CASE Refused(r, c)
    BY <2>1, <2>3, Returns DEF Refused
  <2>4. CASE Post(r, c)
    BY <2>4, Posts
  <2>5. CASE AttemptFails(r, c)
    <3>1. CASE tries[r][c] + 1 < MaxAttempts
      <4>1. UNCHANGED <<at, spent>>
        BY <2>5, <3>1 DEF AttemptFails, Move, TypeOK
      <4> QED
        BY <1>1, <4>1
    <3>2. CASE ~(tries[r][c] + 1 < MaxAttempts)
      BY <2>1, <2>5, <3>2, Returns DEF AttemptFails
    <3> QED
      BY <3>1, <3>2
  <2>6. CASE GatewayRejects(r, c)
    BY <2>1, <2>6, Returns DEF GatewayRejects
  <2>7. CASE Unparsable(r, c)
    BY <2>1, <2>7, Returns DEF Unparsable
  <2>8. CASE Answered(r, c)
    BY <2>8, Answers
  <2> QED
    BY <1>2, <2>2, <2>3, <2>4, <2>5, <2>6, <2>7, <2>8 DEF Complete
<1>3. ASSUME NEW r \in Runs, Book(r) PROVE SpendInv'
  <2>1. "ok" \in Done /\ "stored" \in Done /\ "error" \in Done
    BY DEF Done
  <2>2. desk[r].call \in Calls
    BY <1>3 DEF Book, ReadUsage, WriteTmp, Replace, ReplaceFails, Keep, Books, TypeOK, Desk
  <2>3. CASE ReadUsage(r) \/ WriteTmp(r) \/ Replace(r)
    BY <1>1, <2>3 DEF ReadUsage, WriteTmp, Replace
  <2>4. CASE Keep(r)
    BY <2>1, <2>2, <2>4, Returns DEF Keep
  <2>5. CASE ReplaceFails(r)
    BY <2>1, <2>2, <2>5, Returns DEF ReplaceFails
  <2> QED
    BY <1>3, <2>3, <2>4, <2>5 DEF Book
<1>4. ASSUME NEW r \in Runs, Start(r) \/ Finish(r) \/ Crash(r) PROVE SpendInv'
  BY <1>1, <1>4 DEF Start, Finish, Crash
<1>5. CASE Midnight \/ UNCHANGED vars
  BY <1>1, <1>5 DEF Midnight, vars, runVars
<1> QED
  BY <1>2, <1>3, <1>4, <1>5 DEF Next, Step

LEMMA SpendInvBounds == TypeOK /\ SpendInv => RunSpendBounded
<1> SUFFICES ASSUME TypeOK, SpendInv, RunBudget > 0, NEW r \in Runs
             PROVE  spent[r] <= RunBudget - 1 + MaxConcurrency * CallCost
  BY DEF RunSpendBounded
<1> DEFINE n == Cardinality(Posting(r))
<1>1. n \in Nat /\ spent[r] \in Nat
  BY CallSets DEF TypeOK
<1>2. spent[r] + n * CallCost <= RunBudget - 1 + MaxConcurrency * CallCost
  BY DEF SpendInv, Within
<1> HIDE DEF n
<1>3. n * CallCost \in Nat /\ MaxConcurrency * CallCost \in Nat
  BY <1>1, Constants
<1> QED
  BY <1>1, <1>2, <1>3, Constants

\* A run never spends more than its budget less one unit plus the cost of the
\* calls its semaphore lets past one check, whatever the batches, retries,
\* failures and crashes (UsageTracker, KimiProvider.complete).
THEOREM RunSpend == Spec => []RunSpendBounded
<1>1. Init => TypeOK /\ SpendInv
  BY TypeInit, SpendInit
<1>2. TypeOK /\ SpendInv /\ [Next]_vars => (TypeOK /\ SpendInv)'
  BY TypeStep, SpendStep
<1>3. TypeOK /\ SpendInv => RunSpendBounded
  BY SpendInvBounds
<1> QED
  BY <1>1, <1>2, <1>3, PTL DEF Spec
-----------------------------------------------------------------------------
(* Runs that never overlap *)

\* The process is not up, and left nothing on its desk.
Quiet(r) == life[r] # "up" /\ desk[r].call = NoCall

\* A call on the desk is being booked by a process that is up, and a call that
\* was not answered has no fate yet.
TidyRun(r) ==
    /\ life[r] = "new" => \A c \in Calls : at[r][c] = "waiting"
    /\ desk[r].call # NoCall =>
          /\ life[r] = "up" /\ at[r][desk[r].call] = "booking"
          /\ fate[r][desk[r].call] = IF desk[r].step = "cache" THEN "booked" ELSE "booking"
    /\ \A c \in Calls : at[r][c] \in {"waiting", "posting"} => fate[r][c] = "none"

Tidy == \A r \in Runs : TidyRun(r)

\* What a process does, and what is done to it.
By(r) == Start(r) \/ Step(r) \/ Crash(r)

\* A step of one process leaves the others' runs alone.
LEMMA Others ==
    ASSUME TypeOK, NEW r \in Runs, By(r), NEW q \in Runs \ {r}
    PROVE  /\ life'[q] = life[q] /\ at'[q] = at[q] /\ paid'[q] = paid[q]
           /\ fate'[q] = fate[q] /\ desk'[q] = desk[q] /\ spent'[q] = spent[q]
<1>1. CASE Start(r)
  BY <1>1 DEF Start, TypeOK
<1>2. CASE Finish(r)
  BY <1>2 DEF Finish, TypeOK
<1>3. CASE Crash(r)
  BY <1>3 DEF Crash, TypeOK
<1>4. ASSUME NEW c \in Calls, Complete(r, c)
      PROVE  /\ life'[q] = life[q] /\ at'[q] = at[q] /\ paid'[q] = paid[q]
             /\ fate'[q] = fate[q] /\ desk'[q] = desk[q] /\ spent'[q] = spent[q]
  <2>1. CASE Hit(r, c) \/ Refused(r, c) \/ Post(r, c) \/ GatewayRejects(r, c)
    BY <2>1 DEF Hit, Refused, Post, GatewayRejects, Move, TypeOK
  <2>2. CASE AttemptFails(r, c)
    BY <2>2 DEF AttemptFails, Move, TypeOK
  <2>3. CASE Unparsable(r, c)
    BY <2>3 DEF Unparsable, Move, TypeOK
  <2>4. CASE Answered(r, c)
    BY <2>4 DEF Answered, Move, TypeOK
  <2>5. QED
    BY <1>4, <2>1, <2>2, <2>3, <2>4 DEF Complete
<1>5. CASE Book(r)
  <2>1. CASE ReadUsage(r)
    BY <2>1 DEF ReadUsage, TypeOK
  <2>2. CASE WriteTmp(r)
    BY <2>2 DEF WriteTmp, TypeOK
  <2>3. CASE Replace(r)
    BY <2>3 DEF Replace, TypeOK
  <2>4. CASE ReplaceFails(r)
    BY <2>4 DEF ReplaceFails, Move, TypeOK
  <2>5. CASE Keep(r)
    BY <2>5 DEF Keep, Move, TypeOK
  <2>6. QED
    BY <1>5, <2>1, <2>2, <2>3, <2>4, <2>5 DEF Book
<1>6. QED
  BY <1>1, <1>2, <1>3, <1>4, <1>5 DEF By, Step

\* What every run keeps to, alone or not.
LEMMA TidyStep == TypeOK /\ Tidy /\ [Next]_vars => Tidy'
<1> SUFFICES ASSUME TypeOK, Tidy, [Next]_vars PROVE Tidy'
  OBVIOUS
<1>1. ASSUME NEW r \in Runs, By(r), TidyRun(r)' PROVE Tidy'
  <2>1. ASSUME NEW q \in Runs, q # r PROVE TidyRun(q)'
    <3>1. /\ life'[q] = life[q] /\ at'[q] = at[q]
          /\ fate'[q] = fate[q] /\ desk'[q] = desk[q]
      BY <1>1, <2>1, Others
    <3>2. QED
      BY <3>1 DEF Tidy, TidyRun
  <2>2. QED
    BY <1>1, <2>1 DEF Tidy
<1>2. ASSUME NEW r \in Runs, Start(r) PROVE TidyRun(r)'
  BY <1>2 DEF Start, Tidy, TidyRun, TypeOK
<1>3. ASSUME NEW r \in Runs, NEW c \in Calls, Complete(r, c) PROVE TidyRun(r)'
  <2>1. CASE Hit(r, c) \/ Refused(r, c) \/ GatewayRejects(r, c)
    BY <2>1 DEF Hit, Refused, GatewayRejects, Starts, Idle, Move, Tidy, TidyRun, TypeOK
  <2>2. CASE Post(r, c)
    BY <2>2 DEF Post, Starts, Idle, Move, Tidy, TidyRun, TypeOK
  <2>3. CASE AttemptFails(r, c)
    BY <2>3 DEF AttemptFails, Idle, Move, Tidy, TidyRun, TypeOK
  <2>4. CASE Unparsable(r, c)
    BY <2>4 DEF Unparsable, Idle, Move, Tidy, TidyRun, TypeOK
  <2>5. CASE Answered(r, c)
    <3>1. desk'[r].call = c /\ desk'[r].step = "read"
      BY <2>5 DEF Answered, TypeOK, Desk
    <3>2. /\ \A d \in Calls : at'[r][d] = IF d = c THEN "booking" ELSE at[r][d]
          /\ \A d \in Calls : fate'[r][d] = IF d = c THEN "booking" ELSE fate[r][d]
          /\ life'[r] = "up"
      BY <2>5 DEF Answered, Idle, Move, TypeOK
    <3>3. QED
      BY <3>1, <3>2 DEF Tidy, TidyRun
  <2>6. QED
    BY <1>3, <2>1, <2>2, <2>3, <2>4, <2>5 DEF Complete
<1>4. ASSUME NEW r \in Runs, Book(r) PROVE TidyRun(r)'
  <2>1. desk[r] \in Desk /\ desk[r].call \in Calls
    BY <1>4 DEF Book, ReadUsage, WriteTmp, Replace, ReplaceFails, Keep, Books, TypeOK, Desk
  <2>2. CASE ReadUsage(r) \/ WriteTmp(r)
    <3>1. desk'[r].call = desk[r].call /\ desk'[r].step \in {"write", "replace"}
      BY <2>1, <2>2 DEF ReadUsage, WriteTmp, TypeOK, Desk
    <3>2. UNCHANGED <<life, at, fate>> /\ desk[r].step # "cache"
      BY <2>2 DEF ReadUsage, WriteTmp, Books
    <3>3. QED
      BY <3>1, <3>2 DEF Tidy, TidyRun
  <2>3. CASE Replace(r)
    <3>1. desk'[r].call = desk[r].call /\ desk'[r].step = "cache"
      BY <2>1, <2>3 DEF Replace, TypeOK, Desk
    <3>2. /\ \A d \in Calls : fate'[r][d] = IF d = desk[r].call THEN "booked" ELSE fate[r][d]
          /\ UNCHANGED <<life, at>>
      BY <2>1, <2>3 DEF Replace, TypeOK
    <3>3. life[r] = "up" /\ at[r][desk[r].call] = "booking" /\ desk[r].call # NoCall
      BY <2>1, <2>3, Constants DEF Replace, Books, Tidy, TidyRun
    <3>4. \A c \in Calls : at[r][c] \in {"waiting", "posting"} => fate'[r][c] = "none"
      BY <3>2, <3>3 DEF Tidy, TidyRun
    <3>5. QED
      BY <2>1, <3>1, <3>2, <3>3, <3>4 DEF TidyRun
  <2>4. CASE ReplaceFails(r) \/ Keep(r)
    <3>1. desk'[r].call = NoCall /\ UNCHANGED life
      BY <2>4 DEF ReplaceFails, Keep, TypeOK, NoBooking
    <3>2. \A d \in Calls : /\ d # desk[r].call => at'[r][d] = at[r][d] /\ fate'[r][d] = fate[r][d]
                           /\ d = desk[r].call => at'[r][d] \in Done
      BY <2>1, <2>4 DEF ReplaceFails, Keep, Move, TypeOK, Done
    <3>3. life[r] = "up"
      BY <2>4 DEF ReplaceFails, Keep, Books
    <3>4. QED
      BY <3>1, <3>2, <3>3 DEF Tidy, TidyRun, Done
  <2>5. QED
    BY <1>4, <2>2, <2>3, <2>4 DEF Book
<1>5. ASSUME NEW r \in Runs, Finish(r) \/ Crash(r) PROVE TidyRun(r)'
  <2>1. CASE Finish(r)
    BY <2>1 DEF Finish, Idle, Tidy, TidyRun, TypeOK
  <2>2. CASE Crash(r)
    <3>1. desk'[r].call = NoCall /\ life'[r] = "over" /\ UNCHANGED at
      BY <2>2 DEF Crash, TypeOK, NoBooking
    <3>2. \A c \in Calls : fate[r][c] = "none" => fate'[r][c] = "none"
      BY <2>2 DEF Crash, TypeOK
    <3>3. QED
      BY <3>1, <3>2 DEF Tidy, TidyRun
  <2>3. QED
    BY <1>5, <2>1, <2>2
<1>6. CASE Midnight \/ UNCHANGED vars
  BY <1>6 DEF Midnight, vars, runVars, Tidy, TidyRun
<1>7. QED
  BY <1>1, <1>2, <1>3, <1>4, <1>5, <1>6 DEF Next, Step, By

-----------------------------------------------------------------------------
\* As long as no two runs were up at once, one process at most is up, and the
\* others have nothing on their desks.
OneUp == \A q, r \in Runs : life[q] = "up" /\ life[r] = "up" => q = r
OneUpInv == ~overlapped => OneUp

\* When a process takes a step, and no two were ever up, the others are quiet
\* before and after.
LEMMA OthersQuiet ==
    ASSUME TypeOK, Tidy, Tidy', OneUpInv, NEW r \in Runs, By(r), ~overlapped'
    PROVE  ~overlapped /\ OneUp' /\ \A q \in Runs \ {r} : Quiet(q) /\ Quiet(q)'
<1>1. ~overlapped /\ \A q \in Runs \ {r} : life[q] # "up"
  <2>1. CASE Start(r)
    BY <2>1 DEF Start
  <2>2. CASE Step(r) \/ Crash(r)
    <3>1. UNCHANGED overlapped
      BY <2>2 DEF Step, Complete, Hit, Refused, Post, AttemptFails, GatewayRejects,
                  Unparsable, Answered, Book, ReadUsage, WriteTmp, Replace, ReplaceFails,
                  Keep, Finish, Crash
    <3>2. life[r] = "up"
      BY <2>2 DEF Step, Complete, Hit, Refused, Post, AttemptFails, GatewayRejects,
                  Unparsable, Answered, Book, ReadUsage, WriteTmp, Replace, ReplaceFails,
                  Keep, Finish, Crash, Starts, Idle, Books
    <3>3. QED
      BY <3>1, <3>2 DEF OneUpInv, OneUp
  <2>3. QED
    BY <2>1, <2>2 DEF By
<1>2. \A q \in Runs \ {r} : life'[q] = life[q]
  BY Others
<1>3. \A q \in Runs \ {r} : Quiet(q) /\ Quiet(q)'
  BY <1>1, <1>2 DEF Quiet, Tidy, TidyRun
<1>4. OneUp'
  BY <1>1, <1>2 DEF OneUp
<1>5. QED
  BY <1>1, <1>3, <1>4

\* So one process at most stays up.
LEMMA OneUpStep == TypeOK /\ Tidy /\ Tidy' /\ OneUpInv /\ [Next]_vars => OneUpInv'
<1> SUFFICES ASSUME TypeOK, Tidy, Tidy', OneUpInv, [Next]_vars PROVE OneUpInv'
  OBVIOUS
<1>1. ASSUME NEW r \in Runs, By(r) PROVE OneUpInv'
  BY <1>1, OthersQuiet DEF OneUpInv
<1>2. CASE Midnight \/ UNCHANGED vars
  BY <1>2 DEF Midnight, vars, runVars, OneUpInv, OneUp
<1>3. QED
  BY <1>1, <1>2 DEF Next, By

-----------------------------------------------------------------------------
\* A booking in progress carries its day's total and its own cost, to the desk
\* and then to the temporary file.
DeskAgrees(r) ==
    LET c == desk[r].call IN c # NoCall =>
        /\ desk[r].step = "write" => desk[r].total = usage[desk[r].day] + paid[r][c]
        /\ desk[r].step = "replace" => tmp[desk[r].day] = usage[desk[r].day] + paid[r][c]

NoneRaced == \A r \in Runs, c \in Calls : fate[r][c] # "raced"

DesksInv == ~overlapped => NoneRaced /\ \A r \in Runs : DeskAgrees(r)

\* A run alone finds the temporary file where it put it.
LEMMA TmpIsThere ==
    ASSUME TypeOK, DesksInv, ~overlapped, NEW r \in Runs, Books(r, "replace")
    PROVE  /\ TmpThere(r) /\ desk[r].call \in Calls /\ desk[r].day \in Days
           /\ tmp[desk[r].day] = usage[desk[r].day] + paid[r][desk[r].call]
<1>1. desk[r] \in Desk /\ desk[r].call \in Calls /\ desk[r].day \in Days
  BY DEF Books, TypeOK, Desk
<1>2. usage[desk[r].day] \in Nat /\ paid[r][desk[r].call] \in Nat
  BY <1>1, Constants DEF TypeOK
<1>3. tmp[desk[r].day] = usage[desk[r].day] + paid[r][desk[r].call]
  BY DEF DesksInv, DeskAgrees, Books
<1>4. QED
  BY <1>1, <1>2, <1>3, Constants DEF TmpThere

\* Nobody writes the files between the steps of a run alone.
LEMMA DesksStep ==
    TypeOK /\ Tidy /\ Tidy' /\ OneUpInv /\ DesksInv /\ [Next]_vars => DesksInv'
<1> SUFFICES ASSUME TypeOK, Tidy, Tidy', OneUpInv, DesksInv, [Next]_vars, ~overlapped'
             PROVE  NoneRaced' /\ \A r \in Runs : DeskAgrees(r)'
  BY DEF DesksInv
<1>1. ASSUME NEW r \in Runs, By(r), DeskAgrees(r)', \A c \in Calls : fate'[r][c] # "raced"
      PROVE  NoneRaced' /\ \A q \in Runs : DeskAgrees(q)'
  <2>1. ~overlapped /\ \A q \in Runs \ {r} : Quiet(q)'
    BY <1>1, OthersQuiet
  <2>2. \A q \in Runs \ {r} : DeskAgrees(q)'
    BY <2>1 DEF Quiet, DeskAgrees
  <2>3. \A q \in Runs \ {r} : fate'[q] = fate[q]
    BY <1>1, Others
  <2>4. QED
    BY <1>1, <2>1, <2>2, <2>3 DEF DesksInv, NoneRaced
<1>2. ASSUME NEW r \in Runs, By(r) PROVE ~overlapped /\ DeskAgrees(r) /\ NoneRaced
  BY <1>2, OthersQuiet DEF DesksInv
<1>3. ASSUME NEW r \in Runs, By(r), desk'[r].call = NoCall PROVE DeskAgrees(r)'
  BY <1>3 DEF DeskAgrees
<1>4. ASSUME NEW r \in Runs, Start(r) \/ Finish(r) \/ Crash(r)
      PROVE  DeskAgrees(r)' /\ \A c \in Calls : fate'[r][c] # "raced"
  <2>1. By(r)
    BY <1>4 DEF By, Step
  <2>2. desk'[r].call = NoCall
    <3>1. CASE Start(r)
      BY <3>1 DEF Start, Tidy, TidyRun
    <3>2. CASE Finish(r)
      BY <3>2 DEF Finish, Idle
    <3>3. CASE Crash(r)
      BY <3>3 DEF Crash, TypeOK, NoBooking
    <3>4. QED
      BY <1>4, <3>1, <3>2, <3>3
  <2>3. \A c \in Calls : fate'[r][c] \in {fate[r][c], "died"}
    BY <1>4 DEF Start, Finish, Crash, TypeOK
  <2>4. QED
    BY <1>2, <1>3, <2>1, <2>2, <2>3 DEF NoneRaced
<1>5. ASSUME NEW r \in Runs, NEW c \in Calls, Complete(r, c)
      PROVE  DeskAgrees(r)' /\ \A d \in Calls : fate'[r][d] # "raced"
  <2>1. By(r) /\ desk[r].call = NoCall
    BY <1>5 DEF By, Step, Complete, Hit, Refused, Post, AttemptFails, GatewayRejects,
                Unparsable, Answered, Starts, Idle
  <2>2. \A d \in Calls : fate'[r][d] \in {fate[r][d], "unparsed", "booking"}
    BY <1>5 DEF Complete, Hit, Refused, Post, AttemptFails, GatewayRejects,
                Unparsable, Answered, TypeOK
  <2>3. CASE UNCHANGED desk
    BY <1>2, <1>3, <2>1, <2>2, <2>3 DEF NoneRaced
  <2>4. CASE Answered(r, c)
    <3>1. desk'[r].step = "read"
      BY <2>4 DEF Answered, TypeOK, Desk
    <3>2. QED
      BY <1>2, <2>1, <2>2, <3>1 DEF DeskAgrees, NoneRaced
  <2>5. QED
    BY <1>5, <2>3, <2>4 DEF Complete, Hit, Refused, Post, AttemptFails, GatewayRejects,
                            Unparsable
<1>6. ASSUME NEW r \in Runs, Book(r)
      PROVE  DeskAgrees(r)' /\ \A d \in Calls : fate'[r][d] # "raced"
  <2>1. By(r) /\ desk[r] \in Desk /\ desk[r].call \in Calls
    BY <1>6 DEF By, Step, Book, ReadUsage, WriteTmp, Replace, ReplaceFails, Keep, Books,
                TypeOK, Desk
  <2>2. ~overlapped /\ DeskAgrees(r) /\ NoneRaced
    BY <1>2, <2>1
  <2>3. CASE ReadUsage(r)
    <3>1. /\ desk'[r].step = "write" /\ desk'[r].day = today
          /\ desk'[r].call = desk[r].call /\ desk'[r].total = NewTotal(r)
      BY <2>1, <2>3 DEF ReadUsage, TypeOK, Desk
    <3>2. QED
      BY <2>2, <2>3, <3>1 DEF ReadUsage, fileVars, NewTotal, DeskAgrees, NoneRaced
  <2>4. CASE WriteTmp(r)
    <3>1. /\ desk'[r].step = "replace" /\ desk'[r].day = desk[r].day /\ desk[r].day \in Days
          /\ desk'[r].call = desk[r].call
      BY <2>1, <2>4 DEF WriteTmp, TypeOK, Desk
    <3>2. tmp'[desk[r].day] = desk[r].total
      BY <2>4, <3>1 DEF WriteTmp, TypeOK
    <3>3. desk[r].total = usage[desk[r].day] + paid[r][desk[r].call]
      BY <2>2, <2>4 DEF WriteTmp, Books, DeskAgrees
    <3>4. QED
      BY <2>2, <2>4, <3>1, <3>2, <3>3 DEF WriteTmp, DeskAgrees, NoneRaced
  <2>5. CASE Replace(r)
    <3>1. desk'[r].step = "cache"
      BY <2>1, <2>5 DEF Replace, TypeOK, Desk
    <3>2. \A d \in Calls : fate'[r][d] \in {fate[r][d], "booked"}
      BY <2>5 DEF Replace, TypeOK
    <3>3. QED
      BY <2>2, <3>1, <3>2 DEF DeskAgrees, NoneRaced
  <2>6. ~ReplaceFails(r)
    BY <2>2, TmpIsThere DEF ReplaceFails
  <2>7. CASE Keep(r)
    <3>1. desk'[r].call = NoCall
      BY <2>7 DEF Keep, TypeOK, NoBooking
    <3>2. QED
      BY <2>2, <2>7, <3>1 DEF Keep, DeskAgrees, NoneRaced
  <2>8. QED
    BY <1>6, <2>3, <2>4, <2>5, <2>6, <2>7 DEF Book
<1>7. CASE Midnight \/ UNCHANGED vars
  BY <1>7 DEF Midnight, vars, runVars, fileVars, DesksInv, DeskAgrees, NoneRaced
<1>8. QED
  BY <1>1, <1>4, <1>5, <1>6, <1>7 DEF Next, Step, By

-----------------------------------------------------------------------------
(* A stored extraction answer is not paid for again *)

\* The run stored the call's answer in the disk cache.
Stored(r, c) == at[r][c] = "stored"

\* The call's answer is awaited or being booked.
Awaited(r, c) == life[r] = "up" /\ at[r][c] \in {"posting", "booking"}

\* The run is not up, or has paid nothing for the call.
Unpaid(r, c) == life[r] = "up" => fate[r][c] = "none"

KeysAgree ==
    \A r \in Runs, c \in Extraction :
        /\ Stored(r, c) => Key(r, c) \in disk
        /\ Awaited(r, c) => Key(r, c) \notin disk
        /\ \A q \in Runs \ {r} : Stored(r, c) => Unpaid(q, c)

KeysInv == ~overlapped => KeysAgree

\* A step that stores nothing, posts only what is not in the cache, and pays
\* only for that, leaves them in agreement.
LEMMA KeysFrame ==
    ASSUME KeysAgree, UNCHANGED disk,
           \A r \in Runs, c \in Extraction :
               /\ Stored(r, c)' => Stored(r, c)
               /\ Awaited(r, c)' => Awaited(r, c) \/ Key(r, c) \notin disk
               /\ Unpaid(r, c) => Unpaid(r, c)' \/ Key(r, c) \notin disk
    PROVE  KeysAgree'
BY DEF KeysAgree, Key

\* The disk cache and the runs stay in agreement.
LEMMA KeysStep ==
    TypeOK /\ Tidy /\ Tidy' /\ OneUpInv /\ KeysInv /\ [Next]_vars => KeysInv'
<1> SUFFICES ASSUME TypeOK, Tidy, Tidy', OneUpInv, KeysInv, [Next]_vars, ~overlapped'
             PROVE  KeysAgree'
  BY DEF KeysInv
<1>0. Extraction \subseteq Calls
  BY GatewayAssumption DEF GatewayAssumption
<1>1. ASSUME NEW r \in Runs, By(r), UNCHANGED disk,
             \A c \in Extraction :
                 /\ Stored(r, c)' => Stored(r, c)
                 /\ Awaited(r, c)' => Awaited(r, c) \/ Key(r, c) \notin disk
                 /\ Unpaid(r, c) => Unpaid(r, c)' \/ Key(r, c) \notin disk
      PROVE  KeysAgree'
  <2>1. KeysAgree /\ \A q \in Runs \ {r} : Quiet(q)'
    BY <1>1, OthersQuiet DEF KeysInv
  <2>2. \A q \in Runs \ {r} : at'[q] = at[q]
    BY <1>1, Others
  <2>3. \A q \in Runs, c \in Extraction :
            /\ Stored(q, c)' => Stored(q, c)
            /\ Awaited(q, c)' => Awaited(q, c) \/ Key(q, c) \notin disk
            /\ Unpaid(q, c) => Unpaid(q, c)' \/ Key(q, c) \notin disk
    BY <1>1, <2>1, <2>2 DEF Stored, Awaited, Unpaid, Quiet
  <2>4. QED
    BY <1>1, <2>1, <2>3, KeysFrame
<1>2. ASSUME NEW r \in Runs, Start(r) PROVE KeysAgree'
  <2>1. By(r) /\ UNCHANGED disk
    BY <1>2 DEF By, Start, fileVars
  <2>2. \A c \in Extraction : at'[r][c] = "waiting" /\ fate'[r][c] = "none"
    BY <1>0, <1>2 DEF Start, Tidy, TidyRun
  <2>3. QED
    BY <1>1, <2>1, <2>2 DEF Stored, Awaited, Unpaid
<1>3. ASSUME NEW r \in Runs, Finish(r) \/ Crash(r) PROVE KeysAgree'
  <2>1. By(r) /\ UNCHANGED <<disk, at>> /\ life'[r] = "over"
    BY <1>3 DEF By, Step, Finish, Crash, fileVars, TypeOK
  <2>2. QED
    BY <1>1, <2>1 DEF Stored, Awaited, Unpaid
<1>4. ASSUME NEW r \in Runs, By(r), ~overlapped' PROVE KeysAgree
  BY <1>4, OthersQuiet DEF KeysInv
<1>5. ASSUME NEW r \in Runs, NEW c \in Calls, Complete(r, c) PROVE KeysAgree'
  <2>1. By(r) /\ UNCHANGED <<disk, life>> /\ life[r] = "up"
    BY <1>5 DEF By, Step, Complete, Hit, Refused, Post, AttemptFails, GatewayRejects,
                Unparsable, Answered, Starts, Idle, fileVars
  <2>2. \A d \in Calls : d # c => at'[r][d] = at[r][d] /\ fate'[r][d] = fate[r][d]
    BY <1>5 DEF Complete, Hit, Refused, Post, AttemptFails, GatewayRejects,
                Unparsable, Answered, Move, TypeOK
  <2>3. /\ at'[r][c] # "stored"
        /\ at'[r][c] \in {"posting", "booking"} => at[r][c] = "posting" \/ Key(r, c) \notin disk
        /\ fate'[r][c] # fate[r][c] => at[r][c] = "posting"
    BY <1>5 DEF Complete, Hit, Refused, Post, AttemptFails, GatewayRejects,
                Unparsable, Answered, Move, TypeOK, Cached
  <2>4. \A d \in Extraction : Awaited(r, d) => Key(r, d) \notin disk
    BY <1>4, <2>1 DEF KeysAgree
  <2>5. \A d \in Extraction : Stored(r, d)' => Stored(r, d)
    BY <1>0, <2>2, <2>3 DEF Stored
  <2>6. \A d \in Extraction : Awaited(r, d)' => Awaited(r, d) \/ Key(r, d) \notin disk
    BY <1>0, <2>1, <2>2, <2>3 DEF Awaited
  <2>7. \A d \in Extraction : Unpaid(r, d) => Unpaid(r, d)' \/ Key(r, d) \notin disk
    BY <1>0, <2>1, <2>2, <2>3, <2>4 DEF Awaited, Unpaid
  <2>8. QED
    BY <1>1, <2>1, <2>5, <2>6, <2>7
<1>6. ASSUME NEW r \in Runs, Book(r) PROVE KeysAgree'
  <2>1. By(r) /\ desk[r].call \in Calls /\ life[r] = "up" /\ at[r][desk[r].call] = "booking"
    <3>1. /\ By(r) /\ desk[r] \in Desk /\ desk[r].call \in Calls
          /\ desk[r].call # NoCall /\ life[r] = "up"
      BY <1>6 DEF By, Step, Book, ReadUsage, WriteTmp, Replace, ReplaceFails, Keep, Books,
                  TypeOK, Desk
    <3>2. QED
      BY <3>1 DEF Tidy, TidyRun
  <2> DEFINE k == desk[r].call
  <2>2. Awaited(r, k) /\ KeysAgree
    BY <1>4, <2>1 DEF Awaited
  <2>3. k \in Extraction => Key(r, k) \notin disk
    BY <2>2 DEF KeysAgree
  <2>4. ASSUME UNCHANGED <<disk, life>>, at'[r][k] # "stored",
               \A d \in Calls : d # k => at'[r][d] = at[r][d] /\ fate'[r][d] = fate[r][d]
        PROVE  KeysAgree'
    <3> HIDE DEF k
    <3>1. \A d \in Extraction :
              /\ Stored(r, d)' => Stored(r, d)
              /\ Awaited(r, d)' => Awaited(r, d) \/ Key(r, d) \notin disk
              /\ Unpaid(r, d) => Unpaid(r, d)' \/ Key(r, d) \notin disk
      BY <1>0, <2>3, <2>4 DEF Stored, Awaited, Unpaid
    <3>2. QED
      BY <1>1, <2>1, <2>4, <3>1
  <2>5. CASE ReadUsage(r) \/ WriteTmp(r)
    <3>1. UNCHANGED <<disk, life, at, fate>>
      BY <2>5 DEF ReadUsage, WriteTmp, fileVars
    <3>2. QED
      BY <2>1, <2>4, <3>1
  <2>6. CASE Replace(r)
    <3>1. UNCHANGED <<disk, life, at>>
      BY <2>6 DEF Replace
    <3>2. \A d \in Calls : d # k => fate'[r][d] = fate[r][d]
      BY <2>6 DEF Replace, TypeOK
    <3>3. QED
      BY <2>1, <2>4, <3>1, <3>2
  <2>7. CASE ReplaceFails(r)
    <3>1. UNCHANGED <<disk, life>>
      BY <2>7 DEF ReplaceFails, fileVars
    <3>2. \A d \in Calls : d # k => at'[r][d] = at[r][d] /\ fate'[r][d] = fate[r][d]
      BY <2>7 DEF ReplaceFails, Move, TypeOK
    <3>3. at'[r][k] = "error"
      BY <2>1, <2>7 DEF ReplaceFails, Move, TypeOK
    <3>4. QED
      BY <2>4, <3>1, <3>2, <3>3
  <2>8. CASE Keep(r)
    <3>1. /\ UNCHANGED <<life, fate>>
          /\ \A d \in Calls : d # k => at'[r][d] = at[r][d]
          /\ \/ disk' = disk \cup {Key(r, k)}
             \/ disk' = disk /\ at'[r][k] = "ok"
      BY <2>1, <2>8 DEF Keep, Move, TypeOK
    <3>2. CASE disk' = disk /\ at'[r][k] = "ok"
      BY <2>4, <3>1, <3>2
    <3>3. CASE disk' = disk \cup {Key(r, k)}
      <4>1. /\ at'[r][k] \in {"ok", "stored"}
            /\ \A q \in Runs \ {r} : Quiet(q)' /\ at'[q] = at[q]
        BY <2>1, <2>8, OthersQuiet, Others DEF Keep, Move, TypeOK
      <4> HIDE DEF k
      <4>2. \A q \in Runs, d \in Extraction : Stored(q, d)' => Key(q, d) \in disk'
        BY <1>0, <2>2, <3>1, <3>3, <4>1 DEF Stored, KeysAgree
      <4>3. \A q \in Runs, d \in Extraction : Awaited(q, d)' => q = r /\ d # k /\ Awaited(r, d)
        BY <1>0, <3>1, <4>1 DEF Awaited, Quiet
      <4>4. \A d \in Extraction : d # k => Key(r, d) # Key(r, k)
        BY DEF Key
      <4>5. \A q \in Runs, d \in Extraction : Awaited(q, d)' => Key(q, d) \notin disk'
        BY <2>2, <3>3, <4>3, <4>4 DEF KeysAgree
      <4>6. \A q, s \in Runs, d \in Extraction : s # q /\ Stored(q, d)' => Unpaid(s, d)'
        <5> SUFFICES ASSUME NEW q \in Runs, NEW s \in Runs, NEW d \in Extraction,
                            s # q, Stored(q, d)'
                     PROVE  Unpaid(s, d)'
          OBVIOUS
        <5>1. CASE s # r
          BY <4>1, <5>1 DEF Unpaid, Quiet
        <5>2. CASE s = r
          <6>1. Stored(q, d)
            BY <4>1, <5>2 DEF Stored
          <6>2. QED
            BY <2>2, <3>1, <5>2, <6>1 DEF KeysAgree, Unpaid
        <5>3. QED
          BY <5>1, <5>2
      <4>7. QED
        BY <4>2, <4>5, <4>6 DEF KeysAgree, Key
    <3>4. QED
      BY <3>1, <3>2, <3>3
  <2>9. QED
    BY <1>6, <2>5, <2>6, <2>7, <2>8 DEF Book
<1>7. CASE Midnight \/ UNCHANGED vars
  <2>1. UNCHANGED <<life, at, fate, disk, overlapped>>
    BY <1>7 DEF Midnight, vars, runVars, fileVars
  <2>2. QED
    BY <2>1, KeysFrame DEF KeysInv, Stored, Awaited, Unpaid
<1>8. QED
  BY <1>2, <1>3, <1>5, <1>6, <1>7 DEF Next, Step

\* Runs that agree with the cache neither pay nor ask for what another stored.
LEMMA KeysInvBounds == KeysInv => NeverRepaid
<1> SUFFICES ASSUME KeysAgree, NEW c \in Extraction, NEW r \in Runs, NEW q \in Runs,
                    at[r][c] = "stored", life[q] = "up", q # r
             PROVE  fate[q][c] = "none" /\ at[q][c] \notin {"posting", "booking"}
  BY DEF KeysInv, NeverRepaid
<1>1. Stored(r, c) /\ Key(q, c) = Key(r, c)
  BY DEF Stored, Key
<1>2. Unpaid(q, c) /\ ~Awaited(q, c)
  BY <1>1 DEF KeysAgree
<1>3. QED
  BY <1>2 DEF Unpaid, Awaited

-----------------------------------------------------------------------------
(* The files add up *)

\* What each call of each run cost.
PaidBy == [rc \in Runs \X Calls |-> paid[rc[1]][rc[2]]]

AddsUp == IsFiniteSet(Booked) /\ SumOver(usage, Days) = SumOver(PaidBy, Booked)

LedgerInv == ~overlapped => AddsUp

\* The sums the property compares, as sums of functions.
LEMMA SumsOfFiles ==
    /\ MapThenSumSet(LAMBDA d : usage[d], Days) = SumOver(usage, Days)
    /\ MapThenSumSet(LAMBDA rc : paid[rc[1]][rc[2]], Booked) = SumOver(PaidBy, Booked)
<1>1. MapThenSumSet(LAMBDA d : usage[d], Days) = SumOver(usage, Days)
  BY DEF MapThenSumSet, MapThenFoldSet, SumOver, IsSum, Pick
<1>2. MapThenSumSet(LAMBDA rc : paid[rc[1]][rc[2]], Booked) = SumOver(PaidBy, Booked)
  <2> DEFINE F(h) == [S \in SUBSET Booked |->
                        IF S = {} THEN 0
                        ELSE paid[Pick(S)[1]][Pick(S)[2]] + h[S \ {Pick(S)}]]
  <2>1. \A h : F(h) = [S \in SUBSET Booked |->
                         IF S = {} THEN 0 ELSE PaidBy[Pick(S)] + h[S \ {Pick(S)}]]
    <3>1. \A S \in SUBSET Booked :
              S # {} => PaidBy[Pick(S)] = paid[Pick(S)[1]][Pick(S)[2]]
      BY PickIn DEF PaidBy, Booked
    <3>2. QED
      BY <3>1
  <2>2. \A h : h = F(h) <=> IsSum(h, PaidBy, Booked)
    BY <2>1 DEF IsSum
  <2>3. (CHOOSE h : h = F(h)) = (CHOOSE h : IsSum(h, PaidBy, Booked))
    <3> HIDE DEF F
    <3>1. QED
      BY <2>2
  <2>4. MapThenSumSet(LAMBDA rc : paid[rc[1]][rc[2]], Booked) = (CHOOSE h : h = F(h))[Booked]
    BY DEF MapThenSumSet, MapThenFoldSet, Pick
  <2>5. QED
    BY <2>3, <2>4 DEF SumOver
<1>3. QED
  BY <1>1, <1>2

\* Days are finitely many, and every file holds a number.
LEMMA FileTypes ==
    ASSUME TypeOK
    PROVE  /\ IsFiniteSet(Days) /\ \A d \in Days : usage[d] \in Nat /\ usage[d] \in Int
           /\ \A rc \in Runs \X Calls : PaidBy[rc] \in Nat /\ PaidBy[rc] \in Int
<1>1. IsFiniteSet(Days)
  BY Constants, FS_Interval DEF Days
<1>2. \A rc \in Runs \X Calls : PaidBy[rc] \in 0 .. CallCost
  BY DEF TypeOK, PaidBy
<1>3. QED
  BY <1>1, <1>2, Constants DEF TypeOK

\* A step that books nothing leaves both sums alone.
LEMMA LedgerFrame ==
    ASSUME TypeOK, AddsUp, UNCHANGED usage,
           \A r \in Runs, c \in Calls :
               /\ fate'[r][c] = "booked" <=> fate[r][c] = "booked"
               /\ fate[r][c] = "booked" => paid'[r][c] = paid[r][c]
    PROVE  AddsUp'
<1>1. Booked' = Booked
  BY DEF Booked
<1>2. \A rc \in Booked : PaidBy'[rc] = PaidBy[rc]
  BY DEF Booked, PaidBy
<1> DEFINE B == Booked  g == PaidBy  f == PaidBy'
<1>3. IsFiniteSet(B) /\ \A rc \in B : g[rc] = f[rc]
  BY <1>2 DEF AddsUp
<1> HIDE DEF B, f, g
<1>4. SumOver(g, B) = SumOver(f, B)
  BY <1>3, SumCongruent
<1>5. SumOver(PaidBy, Booked) = SumOver(PaidBy', Booked)
  BY <1>4 DEF B, f, g
<1>6. QED
  BY <1>1, <1>5 DEF AddsUp

\* A rename books the call at the desk, in the day's file and among the runs.
LEMMA LedgerReplace ==
    ASSUME TypeOK, Tidy, AddsUp, DesksInv, ~overlapped, NEW r \in Runs, Replace(r)
    PROVE  AddsUp'
<1> DEFINE c == desk[r].call  d == desk[r].day  n == paid[r][c]  rc == <<r, c>>
<1>1. /\ c \in Calls /\ d \in Days /\ tmp[d] = usage[d] + n
  BY TmpIsThere DEF Replace
<1>2. /\ usage' = [usage EXCEPT ![d] = tmp[d]] /\ UNCHANGED paid
      /\ fate' = [fate EXCEPT ![r][c] = "booked"] /\ fate[r][c] = "booking"
  BY <1>1, Constants DEF Replace, Books, Tidy, TidyRun
<1>3. n \in Nat /\ n \in Int
  BY <1>1, Constants DEF TypeOK
<1>4. rc \notin Booked /\ Booked' = Booked \cup {rc} /\ rc \in Runs \X Calls
  <2>1. \A q \in Runs, e \in Calls :
            fate'[q][e] = IF q = r /\ e = c THEN "booked" ELSE fate[q][e]
    BY <1>1, <1>2 DEF TypeOK
  <2>2. \A x \in Runs \X Calls : x \in Booked' <=> x \in Booked \/ x = rc
    BY <2>1 DEF Booked
  <2>3. QED
    BY <1>1, <1>2, <2>2 DEF Booked
<1>5. PaidBy' = PaidBy /\ PaidBy[rc] = n
  BY <1>1, <1>2 DEF PaidBy
<1>6. usage'[d] = usage[d] + n /\ \A e \in Days : e # d => usage'[e] = usage[e]
  BY <1>1, <1>2 DEF TypeOK
<1> HIDE DEF c, d, n, rc
<1>7. SumOver(usage', Days) = SumOver(usage, Days) + n
  BY <1>1, <1>3, <1>6, FileTypes, SumRaise
<1>8. IsFiniteSet(Booked') /\ SumOver(PaidBy, Booked') = n + SumOver(PaidBy, Booked)
  <2> DEFINE B == Booked  g == PaidBy
  <2>1. IsFiniteSet(B) /\ rc \notin B /\ \A x \in B \cup {rc} : g[x] \in Int
    BY <1>4, FileTypes DEF AddsUp, Booked
  <2> HIDE DEF B, g
  <2>2. IsFiniteSet(B \cup {rc}) /\ SumOver(g, B \cup {rc}) = g[rc] + SumOver(g, B)
    BY <2>1, SumExtend, FS_AddElement
  <2>3. QED
    BY <1>4, <1>5, <2>2 DEF B, g
<1> DEFINE s == SumOver(PaidBy, Booked)
<1>9. s \in Int
  <2> DEFINE B == Booked  g == PaidBy
  <2>1. IsFiniteSet(B) /\ \A x \in B : g[x] \in Int
    BY FileTypes DEF AddsUp, Booked
  <2> HIDE DEF B, g
  <2>2. SumOver(g, B) \in Int
    BY <2>1, SumType
  <2>3. QED
    BY <2>2 DEF B, g
<1>10. SumOver(usage, Days) = s
  BY DEF AddsUp
<1> HIDE DEF s
<1>11. n + s = s + n
  BY <1>3, <1>9
<1>12. SumOver(PaidBy, Booked') = n + s
  BY <1>8 DEF s
<1>13. QED
  BY <1>5, <1>7, <1>8, <1>10, <1>11, <1>12 DEF AddsUp

\* The files go on adding up.
LEMMA LedgerStep ==
    TypeOK /\ Tidy /\ Tidy' /\ OneUpInv /\ DesksInv /\ LedgerInv /\ [Next]_vars => LedgerInv'
<1> SUFFICES ASSUME TypeOK, Tidy, Tidy', OneUpInv, DesksInv, LedgerInv, [Next]_vars, ~overlapped'
             PROVE  AddsUp'
  BY DEF LedgerInv
<1>1. ASSUME NEW r \in Runs, By(r), UNCHANGED usage,
             \A c \in Calls :
                 /\ fate'[r][c] = "booked" <=> fate[r][c] = "booked"
                 /\ fate[r][c] = "booked" => paid'[r][c] = paid[r][c]
      PROVE  AddsUp'
  <2>1. AddsUp
    BY <1>1, OthersQuiet DEF LedgerInv
  <2>2. \A q \in Runs, c \in Calls :
            /\ fate'[q][c] = "booked" <=> fate[q][c] = "booked"
            /\ fate[q][c] = "booked" => paid'[q][c] = paid[q][c]
    BY <1>1, Others
  <2>3. QED
    BY <1>1, <2>1, <2>2, LedgerFrame
<1>2. ASSUME NEW r \in Runs, Start(r) \/ Finish(r) \/ Crash(r) PROVE AddsUp'
  <2>1. By(r) /\ UNCHANGED <<usage, paid>>
    BY <1>2 DEF By, Step, Start, Finish, Crash, fileVars
  <2>2. \A c \in Calls : fate'[r][c] = "booked" <=> fate[r][c] = "booked"
    BY <1>2 DEF Start, Finish, Crash, TypeOK
  <2>3. QED
    BY <1>1, <2>1, <2>2
<1>3. ASSUME NEW r \in Runs, NEW c \in Calls, Complete(r, c) PROVE AddsUp'
  <2>1. By(r) /\ UNCHANGED usage
    BY <1>3 DEF By, Step, Complete, Hit, Refused, Post, AttemptFails, GatewayRejects,
                Unparsable, Answered, fileVars
  <2>2. fate[r][c] = "none"
    BY <1>3 DEF Complete, Hit, Refused, Post, AttemptFails, GatewayRejects,
                Unparsable, Answered, Starts, Tidy, TidyRun
  <2>3. \A d \in Calls : d # c => fate'[r][d] = fate[r][d] /\ paid'[r][d] = paid[r][d]
    BY <1>3 DEF Complete, Hit, Refused, Post, AttemptFails, GatewayRejects,
                Unparsable, Answered, TypeOK
  <2>4. fate'[r][c] # "booked"
    BY <1>3, <2>2 DEF Complete, Hit, Refused, Post, AttemptFails, GatewayRejects,
                      Unparsable, Answered, TypeOK
  <2>5. QED
    BY <1>1, <2>1, <2>2, <2>3, <2>4
<1>4. ASSUME NEW r \in Runs, Book(r) PROVE AddsUp'
  <2>1. By(r)
    BY <1>4 DEF By, Step
  <2>2. ~overlapped
    BY <2>1, OthersQuiet
  <2>3. CASE ReadUsage(r) \/ WriteTmp(r) \/ Keep(r)
    <3>1. UNCHANGED <<usage, fate, paid>>
      BY <2>3 DEF ReadUsage, WriteTmp, Keep, fileVars
    <3>2. QED
      BY <1>1, <2>1, <3>1
  <2>4. CASE Replace(r)
    BY <2>2, <2>4, LedgerReplace DEF LedgerInv
  <2>5. ~ReplaceFails(r)
    BY <2>2, TmpIsThere DEF ReplaceFails
  <2>6. QED
    BY <1>4, <2>3, <2>4, <2>5 DEF Book
<1>5. CASE Midnight \/ UNCHANGED vars
  <2>1. UNCHANGED <<usage, fate, paid, overlapped>>
    BY <1>5 DEF Midnight, vars, runVars, fileVars
  <2>2. QED
    BY <2>1, LedgerFrame DEF LedgerInv
<1>6. QED
  BY <1>2, <1>3, <1>4, <1>5 DEF Next, Step

\* That is what the property says.
LEMMA LedgerInvBounds == DesksInv /\ LedgerInv => FilesComplete
BY SumsOfFiles DEF LedgerInv, AddsUp, DesksInv, NoneRaced, FilesComplete

-----------------------------------------------------------------------------
(* A day's overspend *)

\* The bound the property states.
Limit == DayBudget - 1 + MaxConcurrency * CallCost

\* The call on the desk is not in the day's file yet.
Pending(r) == desk[r].call # NoCall /\ desk[r].step # "cache"

\* The calls whose cost the day's check cannot see yet.
Unbooked(r) == Cardinality(Posting(r)) + (IF Pending(r) THEN 1 ELSE 0)

\* What a run that is up may still book fits the present day, and what it is
\* booking fits the day it read.
RoomFor(r) ==
    /\ life[r] = "up" => usage[today] + Unbooked(r) * CallCost <= Limit
    /\ desk[r].call # NoCall /\ desk[r].step \in {"write", "replace"} =>
          desk[r].day <= today /\ usage[desk[r].day] + paid[r][desk[r].call] <= Limit

DaysFit == \A d \in Days : usage[d] <= Limit /\ (d > today => usage[d] = 0)

DayRoom == DaysFit /\ \A r \in Runs : RoomFor(r)

RoomInv == DayBudget > 0 /\ ~overlapped => DayRoom

\* The numbers the bound is made of.
LEMMA UnbookedType ==
    ASSUME NEW r \in Runs
    PROVE  /\ Unbooked(r) \in Nat /\ Unbooked(r) * CallCost \in Nat
           /\ Limit \in Int /\ MaxConcurrency * CallCost \in Nat
<1>1. Cardinality(Posting(r)) \in Nat
  BY CallSets
<1>2. Unbooked(r) \in Nat
  BY <1>1 DEF Unbooked
<1>3. MaxConcurrency * CallCost \in Nat
  BY Constants
<1>4. QED
  BY <1>2, <1>3, Constants DEF Limit

\* What is posted or on the desk holds a slot.
LEMMA UnbookedBounded ==
    ASSUME TypeOK, Tidy, SpendInv, NEW r \in Runs
    PROVE  Unbooked(r) <= MaxConcurrency
<1> DEFINE n == Cardinality(Posting(r))  m == Cardinality(InFlight(r))
<1>1. n \in Nat /\ m \in Nat /\ n <= m /\ m <= MaxConcurrency
  BY CallSets DEF SpendInv, Within
<1>2. CASE ~Pending(r)
  BY <1>1, <1>2, Constants DEF Unbooked
<1>3. CASE Pending(r)
  <2> DEFINE c == desk[r].call
  <2>1. c \in Calls /\ at[r][c] = "booking"
    BY <1>3 DEF Pending, Tidy, TidyRun, TypeOK, Desk
  <2>2. c \notin Posting(r) /\ Posting(r) \cup {c} \subseteq InFlight(r)
    BY <2>1 DEF Posting, InFlight
  <2>3. Cardinality(Posting(r) \cup {c}) = n + 1
    BY <2>2, CallSets, FS_AddElement
  <2>4. n + 1 <= m
    <3>1. Cardinality(Posting(r) \cup {c}) <= m
      BY <2>2, CallSets, FS_Subset
    <3>2. QED
      BY <2>3, <3>1
  <2> HIDE DEF n, m, c
  <2>5. n + 1 <= MaxConcurrency
    BY <1>1, <2>4, Constants
  <2>6. QED
    BY <1>3, <2>5 DEF Unbooked, n
<1>4. QED
  BY <1>2, <1>3

\* A run whose unbooked calls only become fewer, while the file stays, keeps
\* its room.
LEMMA RoomLeaving ==
    ASSUME TypeOK, NEW r \in Runs, RoomFor(r), UNCHANGED <<usage, today>>,
           life'[r] = "up" => life[r] = "up",
           Posting(r)' \subseteq Posting(r), Pending(r)' => Pending(r)
    PROVE  life'[r] = "up" => usage'[today'] + Unbooked(r)' * CallCost <= Limit
<1>1. Cardinality(Posting(r)') <= Cardinality(Posting(r))
      /\ Cardinality(Posting(r)') \in Nat /\ Cardinality(Posting(r)) \in Nat
  BY CallSets, FS_Subset, FS_CardinalityType
<1>2. Unbooked(r)' <= Unbooked(r) /\ Unbooked(r)' \in Nat /\ Unbooked(r) \in Nat
  BY <1>1 DEF Unbooked
<1>3. /\ Unbooked(r)' * CallCost \in Nat /\ Unbooked(r) * CallCost \in Nat
      /\ Unbooked(r)' * CallCost <= Unbooked(r) * CallCost
  BY <1>2, Constants, TimesMonotone
<1>4. usage[today] \in Nat /\ Limit \in Int
  BY UnbookedType DEF TypeOK
<1>5. life'[r] = "up" => usage[today] + Unbooked(r) * CallCost <= Limit
  BY DEF RoomFor
<1>6. QED
  BY <1>3, <1>4, <1>5

\* A posted call finds room, because the check found the day below its budget.
LEMMA RoomPost ==
    ASSUME TypeOK, DayBudget > 0, NEW r \in Runs, NEW c \in Calls, Post(r, c)
    PROVE  usage'[today'] + Unbooked(r)' * CallCost <= Limit
<1> DEFINE n == Cardinality(Posting(r))  m == Cardinality(InFlight(r))
<1>1. /\ Move(r, c, "posting") /\ "posting" \in Phase /\ UNCHANGED <<usage, today, desk>>
      /\ desk[r].call = NoCall /\ at[r][c] = "waiting" /\ m < MaxConcurrency
      /\ DayBudgetLeft
  BY DEF Post, Starts, Idle, Phase, fileVars
<1>2. Posting(r)' = Posting(r) \cup {c} /\ c \notin Posting(r)
  BY <1>1, Moves DEF Posting
<1>3. n \in Nat /\ m \in Nat /\ n <= m
  BY CallSets
<1>4. Unbooked(r)' = n + 1
  <2>1. Cardinality(Posting(r)') = n + 1
    BY <1>2, CallSets, FS_AddElement
  <2>2. ~Pending(r)'
    BY <1>1 DEF Pending
  <2> HIDE DEF n
  <2>3. QED
    BY <1>3, <2>1, <2>2 DEF Unbooked
<1> HIDE DEF n, m
<1>5. n + 1 \in Nat /\ n + 1 <= MaxConcurrency
  BY <1>1, <1>3, Constants
<1>6. (n + 1) * CallCost <= MaxConcurrency * CallCost
      /\ (n + 1) * CallCost \in Nat /\ MaxConcurrency * CallCost \in Nat
  BY <1>5, Constants, TimesMonotone
<1>7. usage[today] \in Nat /\ usage[today] <= DayBudget - 1
  BY <1>1, Constants DEF TypeOK, DayBudgetLeft
<1>8. QED
  BY <1>1, <1>4, <1>6, <1>7, Constants DEF Limit

\* An answered call goes from posted to pending.
LEMMA RoomAnswered ==
    ASSUME TypeOK, NEW r \in Runs, RoomFor(r), NEW c \in Calls, Answered(r, c)
    PROVE  usage'[today'] + Unbooked(r)' * CallCost <= Limit
<1> DEFINE n == Cardinality(Posting(r))
<1>1. /\ Move(r, c, "booking") /\ "booking" \in Phase /\ UNCHANGED <<usage, today>>
      /\ desk[r].call = NoCall /\ at[r][c] = "posting" /\ life[r] = "up"
  BY DEF Answered, Idle, Phase, fileVars
<1>2. Posting(r)' = Posting(r) \ {c} /\ c \in Posting(r)
  BY <1>1, Moves DEF Posting
<1>3. Cardinality(Posting(r)') = n - 1 /\ n \in Nat
  BY <1>2, CallSets, FS_RemoveElement
<1>4. Pending(r)' /\ ~Pending(r)
  <2>1. desk'[r].step = "read" /\ desk'[r].call = c
    BY DEF Answered, TypeOK, Desk
  <2>2. QED
    BY <1>1, <2>1, Constants DEF Pending
<1> HIDE DEF n
<1>5. Unbooked(r)' = Unbooked(r)
  BY <1>3, <1>4 DEF Unbooked, n
<1>6. QED
  BY <1>1, <1>5 DEF RoomFor

\* One unbooked call is room for its cost.
LEMMA RoomForOne ==
    ASSUME TypeOK, NEW r \in Runs, RoomFor(r), life[r] = "up", Pending(r)
    PROVE  /\ usage[today] + paid[r][desk[r].call] <= Limit
           /\ usage[today] + paid[r][desk[r].call] + Cardinality(Posting(r)) * CallCost <= Limit
           /\ usage[today] + Cardinality(Posting(r)) * CallCost <= Limit
<1> DEFINE n == Cardinality(Posting(r))  k == paid[r][desk[r].call]
<1>1. n \in Nat
  BY CallSets
<1>2. k \in Nat /\ k <= CallCost
  <2>1. desk[r].call \in Calls
    BY DEF Pending, TypeOK, Desk
  <2>2. QED
    BY <2>1, Constants DEF TypeOK
<1>3. usage[today] + (n + 1) * CallCost <= Limit
  BY DEF RoomFor, Unbooked
<1> HIDE DEF n, k
<1>4. (n + 1) * CallCost = n * CallCost + CallCost /\ n * CallCost \in Nat
  BY <1>1, Constants, TimesNext
<1>5. usage[today] \in Nat /\ Limit \in Int
  BY UnbookedType DEF TypeOK
<1>6. /\ usage[today] + k <= Limit
      /\ usage[today] + k + n * CallCost <= Limit
      /\ usage[today] + n * CallCost <= Limit
  BY <1>2, <1>3, <1>4, <1>5, Constants
<1>7. QED
  BY <1>6 DEF n, k

\* A rename puts into its day what fits there, and makes room in no other.
LEMMA RoomReplace ==
    ASSUME TypeOK, DayRoom, DesksInv, ~overlapped, NEW r \in Runs, Replace(r)
    PROVE  /\ DaysFit'
           /\ usage'[today'] + Unbooked(r)' * CallCost <= Limit
<1> DEFINE c == desk[r].call  d == desk[r].day  k == paid[r][c]  n == Cardinality(Posting(r))
<1>1. /\ c \in Calls /\ d \in Days /\ tmp[d] = usage[d] + k /\ Books(r, "replace")
  BY TmpIsThere DEF Replace
<1>2. /\ usage' = [usage EXCEPT ![d] = tmp[d]] /\ UNCHANGED <<today, at>>
      /\ desk'[r].step = "cache"
  <2>1. desk[r] \in Desk
    BY DEF TypeOK
  <2>2. QED
    BY <2>1 DEF Replace, TypeOK, Desk
<1>3. usage'[d] = usage[d] + k /\ \A e \in Days : e # d => usage'[e] = usage[e]
  BY <1>1, <1>2 DEF TypeOK
<1>4. d <= today /\ usage[d] + k <= Limit /\ life[r] = "up" /\ Pending(r) /\ RoomFor(r)
  BY <1>1 DEF DayRoom, RoomFor, Books, Pending
<1>5. Unbooked(r)' = n
  <2>1. Posting(r)' = Posting(r)
    BY <1>2 DEF Posting
  <2>2. n \in Nat
    BY CallSets
  <2>3. QED
    BY <1>2, <2>1, <2>2 DEF Unbooked, Pending
<1>6. /\ usage[today] + k + n * CallCost <= Limit
      /\ usage[today] + n * CallCost <= Limit
  BY <1>4, RoomForOne
<1>7. today \in Days /\ d \in Nat /\ today \in Nat
  BY <1>1, Constants DEF TypeOK, Days
<1> HIDE DEF c, d, k, n
<1>8. DaysFit'
  <2>1. ASSUME NEW e \in Days PROVE usage'[e] <= Limit /\ (e > today => usage'[e] = 0)
    <3>1. CASE e = d
      BY <1>3, <1>4, <1>7, <3>1
    <3>2. CASE e # d
      BY <1>3, <3>2 DEF DayRoom, DaysFit
    <3>3. QED
      BY <3>1, <3>2
  <2>2. QED
    BY <1>2, <2>1 DEF DaysFit, Limit
<1>9. usage'[today] + n * CallCost <= Limit
  <2>1. CASE d = today
    BY <1>3, <1>6, <2>1
  <2>2. CASE d # today
    BY <1>3, <1>6, <1>7, <2>2
  <2>3. QED
    BY <2>1, <2>2
<1>10. QED
  BY <1>2, <1>5, <1>8, <1>9

\* A new day has all its room, and the slots bound what may come to be booked.
LEMMA RoomMidnight ==
    ASSUME TypeOK, Tidy, SpendInv, DayBudget > 0, DayRoom, Midnight
    PROVE  DayRoom'
<1>1. /\ UNCHANGED <<life, at, paid, desk, usage>>
      /\ today' = today + 1 /\ today \in Days /\ today + 1 \in Days /\ today \in Nat
  BY Constants DEF Midnight, runVars, fileVars, TypeOK, Days
<1>2. DaysFit'
  <2>1. \A d \in Days : d > today + 1 => d > today
    BY <1>1 DEF Days
  <2>2. QED
    BY <1>1, <2>1 DEF DaysFit, DayRoom, Limit
<1>3. usage[today + 1] = 0
  <2>1. today + 1 > today
    BY <1>1
  <2>2. QED
    BY <1>1, <2>1 DEF DaysFit, DayRoom
<1>4. ASSUME NEW r \in Runs PROVE RoomFor(r)'
  <2> DEFINE n == Unbooked(r)
  <2>1. Unbooked(r)' = n
    BY <1>1 DEF Unbooked, Posting, Pending
  <2>2. n \in Nat /\ n <= MaxConcurrency
    BY UnbookedBounded, UnbookedType
  <2> HIDE DEF n
  <2>3. n * CallCost \in Nat /\ MaxConcurrency * CallCost \in Nat
        /\ n * CallCost <= MaxConcurrency * CallCost
    BY <2>2, Constants, TimesMonotone
  <2>4. usage[today + 1] + n * CallCost <= Limit
    BY <1>3, <2>3, Constants DEF Limit
  <2>5. desk[r].call # NoCall /\ desk[r].step \in {"write", "replace"} =>
            /\ desk[r].day <= today + 1
            /\ usage[desk[r].day] + paid[r][desk[r].call] <= Limit
    <3>1. desk[r].day \in Nat
      BY DEF TypeOK, Desk, Days
    <3>2. QED
      BY <1>1, <3>1 DEF DayRoom, RoomFor
  <2>6. QED
    BY <1>1, <2>1, <2>4, <2>5 DEF RoomFor, Limit
<1>5. QED
  BY <1>2, <1>4 DEF DayRoom

\* Every step leaves every day its room.
LEMMA RoomStep ==
    /\ TypeOK /\ TypeOK' /\ Tidy /\ Tidy' /\ SpendInv /\ OneUpInv /\ DesksInv /\ RoomInv
    /\ [Next]_vars
    => RoomInv'
<1> SUFFICES ASSUME TypeOK, TypeOK', Tidy, Tidy', SpendInv, OneUpInv, DesksInv, RoomInv,
                    [Next]_vars, DayBudget > 0, ~overlapped'
             PROVE  DayRoom'
  BY DEF RoomInv
<1>0. Limit' = Limit
  BY DEF Limit
<1>1. ASSUME NEW r \in Runs, By(r) PROVE ~overlapped /\ DayRoom /\ RoomFor(r)
  BY <1>1, OthersQuiet DEF RoomInv, DayRoom
<1>2. ASSUME NEW r \in Runs, By(r), DaysFit', RoomFor(r)' PROVE DayRoom'
  <2>1. \A q \in Runs \ {r} : Quiet(q)'
    BY <1>2, OthersQuiet
  <2>2. QED
    BY <1>2, <2>1 DEF Quiet, DayRoom, RoomFor
<1>3. ASSUME NEW r \in Runs, By(r), UNCHANGED <<usage, today>>, RoomFor(r)' PROVE DayRoom'
  <2>1. DaysFit'
    BY <1>0, <1>1, <1>3 DEF DayRoom, DaysFit
  <2>2. QED
    BY <1>2, <1>3, <2>1
<1>4. ASSUME NEW r \in Runs, Start(r) PROVE DayRoom'
  <2>1. By(r) /\ UNCHANGED <<usage, today, at, desk>> /\ life[r] = "new"
    BY <1>4 DEF By, Start, fileVars
  <2>2. Posting(r)' = {} /\ desk'[r].call = NoCall
    BY <2>1 DEF Posting, Tidy, TidyRun
  <2>3. Unbooked(r)' = 0
    BY <2>2, FS_EmptySet DEF Unbooked, Pending
  <2>4. usage[today] <= Limit /\ usage[today] \in Nat /\ Limit \in Int
    BY <1>1, <2>1, UnbookedType DEF DayRoom, DaysFit, TypeOK
  <2>5. usage'[today'] + Unbooked(r)' * CallCost <= Limit
    BY <2>1, <2>3, <2>4, Constants
  <2>6. RoomFor(r)'
    BY <1>0, <2>2, <2>5 DEF RoomFor
  <2>7. QED
    BY <1>3, <2>1, <2>6
<1>5. ASSUME NEW r \in Runs, Finish(r) \/ Crash(r) PROVE DayRoom'
  <2>1. By(r) /\ UNCHANGED <<usage, today>> /\ life'[r] = "over"
    BY <1>5 DEF By, Step, Finish, Crash, fileVars, TypeOK
  <2>2. RoomFor(r)'
    BY <2>1 DEF Tidy, TidyRun, RoomFor
  <2>3. QED
    BY <1>3, <2>1, <2>2
<1>6. ASSUME NEW r \in Runs, NEW c \in Calls, Complete(r, c) PROVE DayRoom'
  <2>1. /\ By(r) /\ UNCHANGED <<usage, today, life>> /\ desk[r].call = NoCall
    BY <1>6 DEF By, Step, Complete, Hit, Refused, Post, AttemptFails, GatewayRejects,
                Unparsable, Answered, Starts, Idle, fileVars
  <2>2. desk'[r].call = NoCall \/ desk'[r].step = "read"
    BY <1>6, <2>1 DEF Complete, Hit, Refused, Post, AttemptFails, GatewayRejects,
                Unparsable, Answered, TypeOK, Desk
  <2>3. life'[r] = "up" => usage'[today'] + Unbooked(r)' * CallCost <= Limit
    <3>1. CASE Post(r, c)
      BY <3>1, RoomPost
    <3>2. CASE Answered(r, c)
      BY <1>1, <2>1, <3>2, RoomAnswered
    <3>3. CASE Hit(r, c) \/ Refused(r, c) \/ AttemptFails(r, c) \/ GatewayRejects(r, c)
                 \/ Unparsable(r, c)
      <4>1. Posting(r)' \subseteq Posting(r) /\ UNCHANGED desk
        BY <3>3 DEF Hit, Refused, AttemptFails, GatewayRejects, Unparsable, Move, Posting, TypeOK
      <4>2. Pending(r)' => Pending(r)
        BY <4>1 DEF Pending
      <4>3. QED
        BY <1>1, <2>1, <4>1, <4>2, RoomLeaving
    <3>4. QED
      BY <1>6, <3>1, <3>2, <3>3 DEF Complete
  <2>4. RoomFor(r)'
    BY <1>0, <2>2, <2>3 DEF RoomFor
  <2>5. QED
    BY <1>3, <2>1, <2>4
<1>7. ASSUME NEW r \in Runs, Book(r) PROVE DayRoom'
  <2>1. By(r) /\ desk[r] \in Desk /\ desk[r].call \in Calls /\ life[r] = "up"
    BY <1>7 DEF By, Step, Book, ReadUsage, WriteTmp, Replace, ReplaceFails, Keep, Books,
                TypeOK, Desk
  <2>2. ~overlapped /\ DayRoom /\ RoomFor(r)
    BY <1>1, <2>1
  <2>3. CASE ReadUsage(r) \/ WriteTmp(r)
    <3>1. /\ UNCHANGED <<usage, today, life, at, paid>> /\ Pending(r)
          /\ desk'[r].call = desk[r].call /\ desk'[r].step \in {"write", "replace"}
          /\ desk'[r].day = IF desk[r].step = "read" THEN today ELSE desk[r].day
          /\ desk[r].step \in {"read", "write"}
      BY <2>1, <2>3 DEF ReadUsage, WriteTmp, Books, Pending, TypeOK, Desk, fileVars
    <3>2. Posting(r)' \subseteq Posting(r)
      BY <3>1 DEF Posting
    <3>3. life'[r] = "up" => usage'[today'] + Unbooked(r)' * CallCost <= Limit
      BY <2>2, <3>1, <3>2, RoomLeaving
    <3>4. usage[today] + paid[r][desk[r].call] <= Limit
      BY <2>1, <2>2, <3>1, RoomForOne
    <3>5. today <= today
      BY DEF TypeOK, Days
    <3>6. desk'[r].day <= today /\ usage[desk'[r].day] + paid[r][desk[r].call] <= Limit
      BY <2>2, <3>1, <3>4, <3>5 DEF RoomFor, Pending
    <3>7. RoomFor(r)'
      BY <1>0, <3>1, <3>3, <3>6 DEF RoomFor
    <3>8. QED
      BY <1>3, <2>1, <3>1, <3>7
  <2>4. CASE Replace(r)
    <3>1. DaysFit' /\ usage'[today'] + Unbooked(r)' * CallCost <= Limit
      BY <2>2, <2>4, RoomReplace
    <3>2. desk'[r].step = "cache"
      BY <2>1, <2>4 DEF Replace, TypeOK, Desk
    <3>3. RoomFor(r)'
      BY <1>0, <3>1, <3>2 DEF RoomFor
    <3>4. QED
      BY <1>2, <2>1, <3>1, <3>3
  <2>5. CASE ReplaceFails(r) \/ Keep(r)
    <3>1. /\ UNCHANGED <<usage, today, life>> /\ desk'[r].call = NoCall
          /\ Posting(r)' \subseteq Posting(r)
      BY <2>5 DEF ReplaceFails, Keep, Move, Posting, TypeOK, NoBooking, fileVars
    <3>2. ~Pending(r)'
      BY <3>1 DEF Pending
    <3>3. life'[r] = "up" => usage'[today'] + Unbooked(r)' * CallCost <= Limit
      BY <2>2, <3>1, <3>2, RoomLeaving
    <3>4. RoomFor(r)'
      BY <1>0, <3>1, <3>3 DEF RoomFor
    <3>5. QED
      BY <1>3, <2>1, <3>1, <3>4
  <2>6. QED
    BY <1>7, <2>3, <2>4, <2>5 DEF Book
<1>8. CASE Midnight
  <2>1. DayRoom
    BY <1>8 DEF Midnight, RoomInv
  <2>2. QED
    BY <1>8, <2>1, RoomMidnight
<1>9. CASE UNCHANGED vars
  BY <1>9 DEF vars, runVars, fileVars, RoomInv, DayRoom, DaysFit, RoomFor, Unbooked, Pending,
              Posting, Limit
<1>10. QED
  BY <1>4, <1>5, <1>6, <1>7, <1>8, <1>9 DEF Next, Step

\* Room on every day is the bound.
LEMMA RoomInvBounds == TypeOK /\ RoomInv => DaySpendBounded
BY DEF RoomInv, DayRoom, DaysFit, DaySpendBounded, Limit

-----------------------------------------------------------------------------
(* The theorems about runs that never overlap *)

\* The inductive invariant of the three theorems.
ApartInv ==
    TypeOK /\ SpendInv /\ Tidy /\ OneUpInv /\ DesksInv /\ KeysInv /\ LedgerInv /\ RoomInv

\* It holds at the start.
LEMMA ApartInit == Init => ApartInv
<1> SUFFICES ASSUME Init PROVE ApartInv
  OBVIOUS
<1>1. TypeOK /\ SpendInv
  BY TypeInit, SpendInit
<1>2. /\ \A r \in Runs : life[r] = "new" /\ desk[r].call = NoCall
      /\ \A r \in Runs, c \in Calls : at[r][c] = "waiting" /\ fate[r][c] = "none"
      /\ usage = [d \in Days |-> 0] /\ today = 1
  BY DEF Init, NoBooking
<1>3. Extraction \subseteq Calls
  BY GatewayAssumption DEF GatewayAssumption
<1>4. Tidy /\ OneUpInv /\ DesksInv
  BY <1>2 DEF Tidy, TidyRun, OneUpInv, OneUp, DesksInv, DeskAgrees, NoneRaced
<1>5. KeysInv
  BY <1>2, <1>3 DEF KeysInv, KeysAgree, Stored, Awaited, Unpaid
<1>6. LedgerInv
  <2>1. Booked = {}
    BY <1>2 DEF Booked
  <2>2. SumOver(usage, Days) = 0
    BY <1>1, <1>2, FileTypes, SumZero
  <2>3. QED
    BY <2>1, <2>2, SumEmpty, FS_EmptySet DEF LedgerInv, AddsUp
<1>7. RoomInv
  <2> SUFFICES ASSUME DayBudget > 0 PROVE DayRoom
    BY DEF RoomInv
  <2>1. MaxConcurrency * CallCost \in Nat
    BY Constants
  <2>2. 0 <= Limit
    BY <2>1, Constants DEF Limit
  <2>3. DaysFit
    BY <1>2, <2>2 DEF DaysFit
  <2>4. \A r \in Runs : RoomFor(r)
    BY <1>2 DEF RoomFor
  <2>5. QED
    BY <2>3, <2>4 DEF DayRoom
<1>8. QED
  BY <1>1, <1>4, <1>5, <1>6, <1>7 DEF ApartInv

\* Every step keeps it.
LEMMA ApartInvariant == Spec => []ApartInv
<1>1. ApartInv /\ [Next]_vars => ApartInv'
  <2> SUFFICES ASSUME ApartInv, [Next]_vars PROVE ApartInv'
    OBVIOUS
  <2>1. TypeOK' /\ SpendInv'
    BY TypeStep, SpendStep DEF ApartInv
  <2>2. Tidy' /\ OneUpInv'
    BY TidyStep, OneUpStep DEF ApartInv
  <2>3. DesksInv' /\ KeysInv' /\ LedgerInv'
    BY <2>2, DesksStep, KeysStep, LedgerStep DEF ApartInv
  <2>4. RoomInv'
    BY <2>1, <2>2, RoomStep DEF ApartInv
  <2>5. QED
    BY <2>1, <2>2, <2>3, <2>4 DEF ApartInv
<1>2. QED
  BY ApartInit, <1>1, PTL DEF Spec

\* No day costs more than its budget less one unit plus the calls one
\* semaphore lets past a check, across runs, crashes and midnights, as long as
\* no two runs overlap (DailyUsageLedger.check_budget and record).
THEOREM DaySpend == Spec => []DaySpendBounded
<1>1. ApartInv => DaySpendBounded
  BY RoomInvBounds DEF ApartInv
<1>2. QED
  BY <1>1, ApartInvariant, PTL

\* The usage files add up to what was booked and no booking is lost, as long as
\* no two runs overlap (DailyUsageLedger.record).
THEOREM FilesAddUp == Spec => []FilesComplete
<1>1. ApartInv => FilesComplete
  BY LedgerInvBounds DEF ApartInv
<1>2. QED
  BY <1>1, ApartInvariant, PTL

\* No extraction answer that a run stored is asked for again by a later one, as
\* long as no two runs overlap: for any runs, calls, costs, deaths and files
\* that cannot be written (the disk cache of KimiProvider.complete).
THEOREM PaidOnce == Spec => []NeverRepaid
<1>1. ApartInv => NeverRepaid
  BY KeysInvBounds DEF ApartInv
<1>2. QED
  BY <1>1, ApartInvariant, PTL
=============================================================================
