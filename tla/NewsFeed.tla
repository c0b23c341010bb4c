------------------------------ MODULE NewsFeed ------------------------------
(***************************************************************************)
(* Gathering the news of research runs: the NewsCatcher provider with its  *)
(* budgets, retries and page cache (data/newscatcher.py), gather_news over *)
(* the query plan (research/news_intel.py) and the combination with the    *)
(* terminal's exported news (research_runtime.py, steps 3a to 3c).         *)
(*                                                                         *)
(* Runs are processes; they share the cache directory and nothing else.  A *)
(* run may die at any step.  The provider's service and the clock are the  *)
(* environment: an article is answered from its publication on.            *)
(***************************************************************************)
EXTENDS NewsIntel

CONSTANTS
    Runs,
    Match,          \* [label -> articles its query finds]
    Exported,       \* articles the terminal exports as well
    PageSize, MaxPages, MaxApiCalls, MaxAttempts,
    RecentDays,     \* recent_threshold_days
    Ttl,            \* ttl_hours_recent, in half-days
    FailOnCatcher,  \* values of on_primary_failure=fail, a subset of BOOLEAN
    StartInstant, MaxInstant    \* bound of the clock

ASSUME FeedAssumption ==
    /\ PageSize \in Nat \ {0} /\ MaxPages \in Nat \ {0}
    /\ MaxApiCalls \in Nat /\ MaxAttempts \in Nat \ {0}
    /\ RecentDays \in Nat /\ Ttl \in Nat
    /\ StartInstant \in Nat /\ MaxInstant \in Nat /\ MaxInstant >= StartInstant
    /\ FailOnCatcher \subseteq BOOLEAN
    /\ Exported \subseteq Articles /\ Match \in [DOMAIN Match -> SUBSET Articles]

\* A run has a query, and every query finds some articles or none.
ASSUME PlanAssumption ==
    \A asOf \in AsOfDays :
        /\ Plan[asOf] \in Seq([label : DOMAIN Match, from : Int, to : Int])
        /\ Plan[asOf] # <<>>

VARIABLES
    now,    \* the clock
    disk,   \* the cache directory: request -> page
    run     \* the state of every run

vars == <<now, disk, run>>

Torn == [torn |-> TRUE]
Requests == [label : DOMAIN Match, from : Int, to : Int, page : 1 .. MaxPages]

\* posts: requests sent; closed: every page of this search was retrieved after
\* its window had closed; capped: the search stopped at a limit; whole: the
\* chunks searched on closed pages and without meeting a limit.
Idle == [phase |-> "idle", asOf |-> 0, fail |-> FALSE, exports |-> {},
         query |-> 1, current |-> 0, page |-> 1, attempt |-> 0, found |-> {},
         body |-> {}, at |-> 0,
         calls |-> 0, fetched |-> 0, posts |-> 0, collected |-> {},
         ranked |-> {}, news |-> {}, closed |-> TRUE, whole |-> {}]

Init ==
    /\ now = StartInstant
    /\ disk = <<>>
    /\ run = [r \in Runs |-> Idle]

-----------------------------------------------------------------------------
(* The search under way *)

Query(r) == Plan[run[r].asOf][run[r].query]
To(r) == ChunkEnd(run[r].current, Query(r).to)

Request(r) ==
    [label |-> Query(r).label, from |-> run[r].current, to |-> To(r), page |-> run[r].page]

InSlice(q, t) == {a \in Match[q.label] : Day(Pub[a]) \in q.from .. q.to /\ Pub[a] <= t}

\* External: the page the service answers at instant t.
Answer(q, t) ==
    LET Place(a) == Cardinality({b \in InSlice(q, t) : b < a})
    IN  {a \in InSlice(q, t) : Place(a) \div PageSize = q.page - 1}

\* Windows that ended before the threshold never expire, recent ones do.
Stale(entry, to) == to >= Day(now) - RecentDays /\ now - entry.at > Ttl

Cached(q) == q \in DOMAIN disk /\ disk[q] # Torn /\ ~Stale(disk[q], q.to)

\* found holds <<page, article>> in the order of the code's list.
FirstFound(S, n) ==
    {x \in S : Cardinality({y \in S : y[1] < x[1] \/ (y[1] = x[1] /\ y[2] < x[2])}) < n}

Remaining(r) == MaxArticles - run[r].fetched
BudgetReached(r, found) == Cardinality(found) >= Remaining(r)

-----------------------------------------------------------------------------
(* Steps of a run *)

\* The run is started, the exported news are read and the plan begins.
Start(r) ==
    /\ run[r].phase = "idle"
    /\ \E asOf \in AsOfDays, fail \in FailOnCatcher :
        /\ asOf <= Day(now)
        /\ run' = [run EXCEPT ![r] =
            [Idle EXCEPT !.phase = "page", !.asOf = asOf, !.fail = fail,
                !.current = Plan[asOf][1].from,
                !.exports = {a \in Exported : Pub[a] <= now}]]
    /\ UNCHANGED <<now, disk>>

\* Articles of a finished search are cut at the run's article budget and
\* collected; the next chunk, or the next query, follows.
Finished(r, state, found, limited) ==
    LET kept == FirstFound(found, Remaining(r))
        last == To(r) = Query(r).to
        q == IF last THEN run[r].query + 1 ELSE run[r].query
        done == q > Len(Plan[run[r].asOf])
        slice == [label |-> Query(r).label, from |-> run[r].current, to |-> To(r)]
    IN  [state EXCEPT
            !.phase = IF done THEN "select" ELSE "page",
            !.query = q,
            !.current = IF done THEN @ ELSE IF last THEN Plan[run[r].asOf][q].from ELSE To(r) + 1,
            !.page = 1, !.attempt = 0, !.found = {}, !.closed = TRUE,
            !.fetched = @ + Cardinality(kept),
            !.collected = @ \cup {x[2] : x \in kept},
            !.whole = IF state.closed /\ ~limited THEN @ \cup {slice} ELSE @]

\* Variant of the mutant runs: a full page counts as the last one.
TakePageStopsEarly(r, state, body, at) ==
    LET found == run[r].found \cup {<<run[r].page, a>> : a \in body \ Unreadable}
        short == Cardinality(body) <= PageSize
        full == BudgetReached(r, found)
        told == [state EXCEPT !.closed = @ /\ Day(at) > To(r)]
    IN  IF short \/ run[r].page = MaxPages \/ full
        THEN Finished(r, told, found, full \/ ~short)
        ELSE [told EXCEPT !.phase = "page", !.page = @ + 1, !.attempt = 0, !.found = found]

\* A page has arrived, from the cache or from the service.
TakePage(r, state, body, at) ==
    LET found == run[r].found \cup {<<run[r].page, a>> : a \in body \ Unreadable}
        short == Cardinality(body) < PageSize
        full == BudgetReached(r, found)
        told == [state EXCEPT !.closed = @ /\ Day(at) > To(r)]
    IN  IF short \/ run[r].page = MaxPages \/ full
        THEN Finished(r, told, found, full \/ ~short)
        ELSE [told EXCEPT !.phase = "page", !.page = @ + 1, !.attempt = 0, !.found = found]

\* No budget is left when the search begins: it asks for nothing.
SkipSearch(r) ==
    /\ run[r].phase = "page" /\ Remaining(r) = 0
    /\ run' = [run EXCEPT ![r] = Finished(r, run[r], {}, TRUE)]
    /\ UNCHANGED <<now, disk>>

CacheHit(r) ==
    /\ run[r].phase = "page" /\ Remaining(r) > 0 /\ run[r].attempt = 0
    /\ Cached(Request(r))
    /\ LET entry == disk[Request(r)]
       IN  run' = [run EXCEPT ![r] = TakePage(r, run[r], entry.body, entry.at)]
    /\ UNCHANGED <<now, disk>>

\* gather_news raises: the articles collected so far are lost, and the run
\* fails or goes on with the exported news only.
Raised(state) ==
    [state EXCEPT !.phase = IF state.fail THEN "failed" ELSE "combine",
                  !.attempt = 0, !.found = {}, !.collected = {}, !.whole = {}]

Fetching(r) ==
    /\ run[r].phase = "page" /\ Remaining(r) > 0
    /\ run[r].attempt > 0 \/ ~Cached(Request(r))

RefuseCall(r) ==
    /\ Fetching(r) /\ run[r].attempt = 0
    /\ run[r].calls >= MaxApiCalls
    /\ run' = [run EXCEPT ![r] = Raised(run[r])]
    /\ UNCHANGED <<now, disk>>

\* Requests are counted up to one past what the budgets allow.
CountPost(n) == LeastOf(n + 1, MaxApiCalls * MaxAttempts + 1)

Posting(r) == Fetching(r) /\ (run[r].attempt > 0 \/ run[r].calls < MaxApiCalls)

\* Variants of the mutant runs: one attempt too many; attempts that never run
\* out.
PostFailsOnceMore(r) ==
    /\ Posting(r)
    /\ LET tried == [run[r] EXCEPT !.posts = CountPost(@), !.attempt = @ + 1]
       IN  run' = [run EXCEPT ![r] =
            IF tried.attempt > MaxAttempts THEN Raised(tried) ELSE tried]
    /\ UNCHANGED <<now, disk>>
PostFailsForever(r) ==
    /\ Posting(r)
    /\ run' = [run EXCEPT ![r] =
        [@ EXCEPT !.posts = CountPost(@), !.attempt = (@ + 1) % MaxAttempts]]
    /\ UNCHANGED <<now, disk>>

\* A timeout, a transport error, 429 or 5xx: tried again up to the limit.
PostFails(r) ==
    /\ Posting(r)
    /\ LET tried == [run[r] EXCEPT !.posts = CountPost(@), !.attempt = @ + 1]
       IN  run' = [run EXCEPT ![r] =
            IF tried.attempt = MaxAttempts THEN Raised(tried) ELSE tried]
    /\ UNCHANGED <<now, disk>>

\* Another 4xx, or a body without articles, is not tried again.
PostRejected(r) ==
    /\ Posting(r)
    /\ run' = [run EXCEPT ![r] = Raised([run[r] EXCEPT !.posts = CountPost(@)])]
    /\ UNCHANGED <<now, disk>>

\* Variant of the mutant runs: answered calls are not counted.
PostAnswersUncounted(r) ==
    /\ Posting(r)
    /\ LET q == Request(r)
       IN  /\ disk' = [x \in DOMAIN disk \cup {q} |-> IF x = q THEN Torn ELSE disk[x]]
           /\ run' = [run EXCEPT ![r] =
                [@ EXCEPT !.phase = "write", !.posts = CountPost(@),
                          !.body = Answer(q, now), !.at = now]]
    /\ UNCHANGED now

\* The answer arrives and its cache file is opened, which truncates it.
PostAnswers(r) ==
    /\ Posting(r)
    /\ LET q == Request(r)
       IN  /\ disk' = [x \in DOMAIN disk \cup {q} |-> IF x = q THEN Torn ELSE disk[x]]
           /\ run' = [run EXCEPT ![r] =
                [run[r] EXCEPT !.phase = "write", !.posts = CountPost(@), !.calls = @ + 1,
                               !.body = Answer(q, now), !.at = now]]
    /\ UNCHANGED now

\* Variant of the mutant runs: the entry carries the instant of the write.
WriteCacheLate(r) ==
    /\ run[r].phase = "write"
    /\ disk' = [disk EXCEPT ![Request(r)] = [body |-> run[r].body, at |-> now]]
    /\ run' = [run EXCEPT ![r] =
        TakePage(r, [run[r] EXCEPT !.body = {}, !.at = 0], run[r].body, run[r].at)]
    /\ UNCHANGED now

\* The file is written, with the instant of the answer, and the page used.
WriteCache(r) ==
    /\ run[r].phase = "write"
    /\ disk' = [disk EXCEPT ![Request(r)] = [body |-> run[r].body, at |-> run[r].at]]
    /\ run' = [run EXCEPT ![r] =
        TakePage(r, [run[r] EXCEPT !.body = {}, !.at = 0], run[r].body, run[r].at)]
    /\ UNCHANGED now

\* Duplicates, ranking, truncation, records and then the gatekeeper.
Select(r) ==
    /\ run[r].phase = "select"
    /\ \E ranked \in Rankings(run[r].collected, run[r].asOf) :
        run' = [run EXCEPT ![r] =
            [@ EXCEPT !.phase = "combine", !.ranked = ranked,
                !.news = {x \in {CatcherRecord(a) : a \in ranked} :
                            VisibleAtCutoff(x, run[r].asOf)}]]
    /\ UNCHANGED <<now, disk>>

\* What is left of a run for the stages after it.
Ended(state, phase, news) ==
    [Idle EXCEPT !.phase = phase, !.asOf = state.asOf, !.news = news]

\* Both sources together, one record per story, through the gatekeeper; a run
\* without news fails.
Combine(r) ==
    /\ run[r].phase = "combine"
    /\ \E T \in CrossSourceDedup(run[r].news \cup {ExportRecord(a) : a \in run[r].exports}) :
        LET news == {x \in T : VisibleAtCutoff(x, run[r].asOf)}
        IN  run' = [run EXCEPT ![r] = Ended(@, IF news = {} THEN "failed" ELSE "done", news)]
    /\ UNCHANGED <<now, disk>>

Active(r) == run[r].phase \in {"page", "write", "select", "combine"}

Step(r) ==
    \/ Start(r) \/ SkipSearch(r) \/ CacheHit(r) \/ RefuseCall(r) \/ PostFails(r)
    \/ PostRejected(r) \/ PostAnswers(r) \/ WriteCache(r) \/ Select(r) \/ Combine(r)

\* The process dies; a file it was writing stays as it is.
Die(r) ==
    /\ Active(r)
    /\ run' = [run EXCEPT ![r] = [Idle EXCEPT !.phase = "dead"]]
    /\ UNCHANGED <<now, disk>>

Tick ==
    /\ now < MaxInstant
    /\ now' = now + 1
    /\ UNCHANGED <<disk, run>>

Next == Tick \/ \E r \in Runs : Step(r) \/ Die(r)

Spec == Init /\ [][Next]_vars

\* A started run goes on: the client has a timeout and every await returns.
Fairness == \A r \in Runs : WF_vars(Active(r) /\ Step(r))
FairSpec == Spec /\ Fairness

-----------------------------------------------------------------------------
(* Properties *)

Slices == [label : DOMAIN Match, from : Int, to : Int]
Phases == {"idle", "page", "write", "select", "combine", "done", "failed", "dead"}

\* Every variable has its type (NewsCatcherProvider's counters, gather_news).
TypeOK ==
    /\ now \in StartInstant .. MaxInstant
    /\ \A q \in DOMAIN disk :
        /\ q \in Requests
        /\ disk[q] = Torn \/ disk[q] \in [body : SUBSET Articles, at : Nat]
    /\ \A r \in Runs :
        /\ run[r].phase \in Phases /\ run[r].asOf \in Nat /\ run[r].fail \in BOOLEAN
        /\ run[r].query \in Nat /\ run[r].current \in Int /\ run[r].page \in 1 .. MaxPages
        /\ run[r].attempt \in 0 .. MaxAttempts - 1
        /\ run[r].found \subseteq (1 .. MaxPages) \X Articles
        /\ run[r].calls \in 0 .. MaxApiCalls /\ run[r].fetched \in 0 .. MaxArticles
        /\ run[r].collected \subseteq Articles /\ run[r].ranked \subseteq Articles
        /\ run[r].exports \subseteq Articles /\ run[r].body \subseteq Articles
        /\ run[r].news \subseteq Records /\ run[r].whole \subseteq Slices

\* Whatever fails and is retried, a run sends no more requests than its call
\* budget times the attempts of one call (newscatcher.py:323-329: only answered
\* calls are counted).
PostsBounded == \A r \in Runs : run[r].posts <= MaxApiCalls * MaxAttempts

\* A cache entry that can be read is what the service answered at the instant
\* it carries, whoever wrote it and however the writes of two runs interleave.
PagesAreAnswers ==
    \A q \in DOMAIN disk : disk[q] # Torn => disk[q].body = Answer(q, disk[q].at)

\* A search whose pages were all retrieved after its window closed, and that
\* met no limit, found every readable article of the window: paging, the
\* cache, retries and the other run lose nothing.
ClosedSlicesComplete ==
    \A r \in Runs : \A s \in run[r].whole :
        {a \in Match[s.label] : Day(Pub[a]) \in s.from .. s.to} \ Unreadable
            \subseteq run[r].collected

\* A story some collected article told before the cutoff reaches the stages
\* after: a later copy of it never costs the story, and neither does the limit
\* of the ranking, because fetching has stopped at the same limit.
NoStoryLost ==
    \A r \in Runs : run[r].phase = "combine" =>
        \A a \in run[r].collected : Pub[a] <= Cutoff(run[r].asOf) =>
            \E x \in run[r].news : Cluster[x.article] = Cluster[a]

\* A run that was started ends: retries, refusals and dead neighbours never
\* keep it in a search.
GathersEnd == \A r \in Runs : Active(r) ~> ~Active(r)
=============================================================================
