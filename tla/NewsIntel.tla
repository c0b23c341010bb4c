----------------------------- MODULE NewsIntel -----------------------------
(***************************************************************************)
(* The deterministic part of the news feed: query plan, chunks of a        *)
(* window, duplicate clusters, relevance ranking, conversion to records    *)
(* and the deduplication across sources (research/news_intel.py).          *)
(*                                                                         *)
(* An instant is a half-day: instant 2d is day d up to the decision time,  *)
(* 2d + 1 is the rest of that day.  Articles are numbered in the order in  *)
(* which the provider answers them.                                        *)
(***************************************************************************)
EXTENDS Integers, Sequences, FiniteSets

CONSTANTS
    Articles,       \* a finite set of numbers
    Pub,            \* [Articles -> instant of publication]
    Cluster,        \* [Articles -> provider id, canonical url or title and date]
    Title,          \* [Articles -> normalised headline]
    Names,          \* [Articles -> tickers the content names]
    Reputable,      \* articles of a reputable domain
    Unreadable,     \* articles without a title or a date
    AsOfDays,       \* as-of dates a run may be started for
    Tickers,        \* sequence of tickers of the run
    LabelOf,        \* [ticker -> sector label]
    SectorLabels,   \* sequence of the labels that have sector queries
    Themes,         \* sequence of macro themes
    CompanyDays, SectorDays, MacroDays, ChunkDays,
    MaxArticles     \* max_articles_per_run

ASSUME WindowAssumption ==
    /\ CompanyDays \in Nat /\ SectorDays \in Nat /\ MacroDays \in Nat
    /\ ChunkDays \in Nat \ {0} /\ MaxArticles \in Nat \ {0}
ASSUME ArticleAssumption ==
    /\ AsOfDays \subseteq Nat /\ Articles \subseteq Nat /\ IsFiniteSet(Articles)
    /\ Pub \in [Articles -> Nat]

Day(instant) == instant \div 2
Cutoff(asOf) == 2 * asOf

-----------------------------------------------------------------------------
(* The query plan *)

Labels == {LabelOf[Tickers[i]] : i \in DOMAIN Tickers}

\* One query per ticker, one per sector present, one per theme; each window
\* ends at the as-of date.
Plan ==
    LET Present == SelectSeq(SectorLabels, LAMBDA l : l \in Labels)
        Query(asOf, label, days) == [label |-> label, from |-> asOf - days, to |-> asOf]
    IN  [asOf \in AsOfDays |->
            [i \in DOMAIN Tickers |-> Query(asOf, Tickers[i], CompanyDays)]
            \o [i \in DOMAIN Present |-> Query(asOf, Present[i], SectorDays)]
            \o [i \in DOMAIN Themes |-> Query(asOf, Themes[i], MacroDays)]]

\* The chunk of a window that begins at day current ends here.
ChunkEnd(current, to) ==
    IF current + ChunkDays - 1 < to THEN current + ChunkDays - 1 ELSE to

-----------------------------------------------------------------------------
(* Deduplication and ranking *)

ClusterIn(a, S) == {b \in S : Cluster[b] = Cluster[a]}

\* Variant of the mutant runs: the latest member represents its cluster.
LatestRepresentatives(S) ==
    {a \in S : \A b \in ClusterIn(a, S) :
        Pub[a] > Pub[b] \/ (Pub[a] = Pub[b] /\ a <= b)}

\* The earliest member of a cluster represents it; which of two of the same
\* instant is left to their numbers.
Representatives(S) ==
    {a \in S : \A b \in ClusterIn(a, S) :
        Pub[a] < Pub[b] \/ (Pub[a] = Pub[b] /\ a <= b)}

LeastOf(a, b) == IF a < b THEN a ELSE b
Age(a, asOf) == asOf - Day(Pub[a])

\* Oldest age in the batch, at least one day.
Window(reps, asOf) ==
    CHOOSE w \in Nat \ {0} :
        /\ \A a \in reps : Age(a, asOf) <= w
        /\ w = 1 \/ \E a \in reps : Age(a, asOf) = w

\* The relevance score times ten times the window.  Sector tags come from the
\* named tickers only, so the tier between the two is never reached.
Score(a, S, w, asOf) ==
    LET tier == IF Names[a] # {} THEN 3 ELSE 1
        recency == IF Age(a, asOf) <= 0 THEN 20 * w ELSE 20 * (w - Age(a, asOf))
        domain == IF a \in Reputable THEN 5 * w ELSE 0
        confirmed == w * LeastOf(10, 2 * (Cardinality(ClusterIn(a, S)) - 1))
    IN  10 * w * tier + recency + domain + confirmed

\* The most relevant of the representatives, newest first among equals, cut at
\* the article limit; ties may fall either way.
Rankings(S, asOf) ==
    LET reps == Representatives(S)
        w == Window(reps, asOf)
        Ahead(a, b) ==
            \/ Score(a, S, w, asOf) > Score(b, S, w, asOf)
            \/ Score(a, S, w, asOf) = Score(b, S, w, asOf) /\ Pub[a] > Pub[b]
    IN  {T \in SUBSET reps :
            /\ Cardinality(T) = LeastOf(MaxArticles, Cardinality(reps))
            /\ \A a \in reps \ T, b \in T : ~Ahead(a, b)}

-----------------------------------------------------------------------------
(* Records *)

\* An article is usable the instant it was published.
CatcherRecord(a) == [source |-> "newscatcher", article |-> a, usable |-> Pub[a]]

\* An exported item carries a date only and is stamped with its start.
ExportRecord(a) == [source |-> "export", article |-> a, usable |-> 2 * Day(Pub[a])]

Records == {CatcherRecord(a) : a \in Articles} \cup {ExportRecord(a) : a \in Articles}

VisibleAtCutoff(record, asOf) == record.usable <= Cutoff(asOf)

StoryKey(record) == <<Title[record.article], Day(record.usable)>>

\* Across sources one record per headline and date, NewsCatcher's if there is
\* one.
CrossSourceDedup(S) ==
    {T \in SUBSET S :
        /\ \A r \in S : \E t \in T : StoryKey(t) = StoryKey(r)
        /\ \A t \in T, r \in S : StoryKey(t) = StoryKey(r) =>
            /\ r \in T => r = t
            /\ r.source = "newscatcher" => t.source = "newscatcher"}
=============================================================================
