------------------------- MODULE MarketCache_proofs --------------------------
(***************************************************************************)
(* Proofs about the store, for any number of processes, tickers, windows,  *)
(* retries and timeouts, whatever the terminal answers and wherever a      *)
(* process dies: the bars of each ticker are kept apart, stored days are   *)
(* lost only in races and by deaths in the middle of a rewrite, and what a *)
(* read lacks is between stored days.                                      *)
(***************************************************************************)
EXTENDS MarketCache, FiniteSetTheorems, WellFoundedInduction, SequenceTheorems, TLAPS

-----------------------------------------------------------------------------
(* The first ticker of a set *)

\* Among finite sets given for the elements of a nonempty set one is smallest.
LEMMA SmallestSet ==
    ASSUME NEW U, NEW S, S # {}, NEW f \in [S -> FiniteSubsetsOf(U)]
    PROVE  \E m \in S : \A d \in S : f[d] \subseteq f[m] => f[d] = f[m]
<1> DEFINE R == StrictSubsetOrdering(U)
           Chosen == {f[d] : d \in S}
<1>1. IsWellFoundedOn(R, FiniteSubsetsOf(U))
  BY FS_StrictSubsetOrderingWellFounded
<1>2. Chosen \subseteq FiniteSubsetsOf(U) /\ Chosen # {}
  OBVIOUS
<1>3. \A y, x \in SUBSET U : y \subseteq x /\ y # x => <<y, x>> \in R
  BY DEF StrictSubsetOrdering
<1>4. PICK x \in Chosen : \A y \in Chosen : ~ (<<y, x>> \in R)
  <2> HIDE DEF Chosen, R
  <2> QED BY <1>1, <1>2, WFMin, Zenon
<1>5. PICK m \in S : x = f[m]
  OBVIOUS
<1>6. \A d \in S : f[d] \in Chosen /\ f[d] \in SUBSET U
  BY DEF FiniteSubsetsOf
<1> HIDE DEF Chosen, R
<1>7. QED
  BY <1>3, <1>4, <1>5, <1>6

\* Some element of a nonempty set has the least number.
LEMMA LeastNumber ==
    ASSUME NEW S, S # {}, NEW f \in [S -> Nat]
    PROVE  \E m \in S : \A d \in S : f[m] <= f[d]
<1> DEFINE g == [d \in S |-> 0 .. f[d]]
           U == Nat
<1>1. \A d \in S : (0 .. f[d]) \in FiniteSubsetsOf(U)
  BY FS_Interval DEF FiniteSubsetsOf
<1>2. g \in [S -> FiniteSubsetsOf(U)]
  BY <1>1
<1>3. PICK m \in S : \A d \in S : g[d] \subseteq g[m] => g[d] = g[m]
  <2> HIDE DEF g, U
  <2> QED BY <1>2, SmallestSet
<1>4. \A d \in S : f[m] <= f[d]
  <2> SUFFICES ASSUME NEW d \in S, f[d] < f[m] PROVE FALSE
    OBVIOUS
  <2>1. 0 .. f[d] \subseteq 0 .. f[m] /\ f[m] \in 0 .. f[m] /\ f[m] \notin 0 .. f[d]
    OBVIOUS
  <2>2. g[d] = 0 .. f[d] /\ g[m] = 0 .. f[m]
    OBVIOUS
  <2> HIDE DEF g
  <2> QED BY <1>3, <2>1, <2>2
<1>5. QED
  BY <1>4

LEMMA TickersTyped ==
    /\ Len(Tickers) \in Nat \ {0} /\ DOMAIN Tickers = 1 .. Len(Tickers)
    /\ \A i \in 1 .. Len(Tickers) : Tickers[i] \in Names
    /\ \A t \in Names : \E i \in 1 .. Len(Tickers) : Tickers[i] = t
<1>1. /\ Tickers \in Seq(DOMAIN Vendor) /\ Tickers # <<>>
  BY MarketAssumption
<1>2. /\ Len(Tickers) \in Nat /\ DOMAIN Tickers = 1 .. Len(Tickers) /\ Len(Tickers) # 0
  BY <1>1, LenProperties, EmptySeq
<1>3. QED
  BY <1>2 DEF Names, ToSet

\* The ticker a process writes is one of those it has to write.
LEMMA TargetChosen ==
    ASSUME NEW s, s.to_write \subseteq Names, s.to_write # {}
    PROVE  Target(s) \in s.to_write /\ Target(s) \in Names
<1> DEFINE place == [t \in s.to_write |-> CHOOSE i \in 1 .. Len(Tickers) : Tickers[i] = t]
<1>1. \A t \in s.to_write : /\ place[t] \in 1 .. Len(Tickers) /\ Tickers[place[t]] = t
  BY TickersTyped
<1>2. place \in [s.to_write -> Nat]
  BY <1>1, TickersTyped
<1>3. PICK m \in s.to_write : \A u \in s.to_write : place[m] <= place[u]
  <2> HIDE DEF place
  <2> QED BY <1>2, LeastNumber
<1>4. ASSUME NEW u \in s.to_write, NEW i \in DOMAIN Tickers, NEW j \in DOMAIN Tickers,
             Tickers[i] = m, Tickers[j] = u
      PROVE  i <= j
  <2>1. i = place[m] /\ j = place[u]
    BY <1>1, <1>4, TickersTyped, MarketAssumption
  <2> HIDE DEF place
  <2> QED BY <1>3, <2>1
<1>5. \E t \in s.to_write : \A u \in s.to_write :
        \A i, j \in DOMAIN Tickers : Tickers[i] = t /\ Tickers[j] = u => i <= j
  BY <1>4
<1>6. QED
  BY <1>5 DEF Target

-----------------------------------------------------------------------------
(* The invariant *)

Phases == {"idle", "look", "send", "recv", "write", "truncate", "flush", "manifest",
           "replace", "serve", "done", "raised", "dead"}
WritePhases == {"write", "truncate", "flush", "manifest", "replace"}

Asked == [ticker : Names, last : BOOLEAN]
Event == [bars : SUBSET Bars, error : BOOLEAN, last : BOOLEAN]

AnyWindow == Windows \cup {[from |-> 0, to |-> 0]}
Lists == Seq(Names)
Requests == Seq(Asked)
Events == Seq(Event)
Attempts == 0 .. MaxRetries
Places == 1 .. Len(Tickers)

ProcType ==
    [phase : Phases, kind : {"read", "sync"}, win : AnyWindow, i : Places,
     missing : Lists, rest : Lists, attempt : Attempts, open : BOOLEAN,
     pending : Requests, queue : Events, part : SUBSET Bars, got : SUBSET Bars,
     partial : BOOLEAN, old : SUBSET Bars, new : SUBSET Bars, to_write : SUBSET Names,
     served : SUBSET Bars]

OfTicker(bars, t) == \A b \in bars : b.ticker = t

\* Nothing is under way on the session.
Quiet(s) == s.pending = <<>> /\ s.queue = <<>> /\ s.part = {}

\* A sync has at most one security under way, the one it will store.
OneAsked(s) ==
    \/ /\ s.queue = <<>> /\ Len(s.pending) = 1
       /\ s.pending[1].last /\ s.pending[1].ticker = Head(s.rest)
    \/ /\ s.pending = <<>> /\ Len(s.queue) = 1
       /\ s.queue[1].last /\ OfTicker(s.queue[1].bars, Head(s.rest))

Syncing(s) ==
    s.kind = "sync" =>
        /\ s.phase = "look" => Quiet(s) /\ s.got = {}
        /\ s.phase = "send" => Quiet(s) /\ s.got = {} /\ s.rest # <<>>
        /\ s.phase = "recv" => s.part = {} /\ s.got = {} /\ s.rest # <<>> /\ OneAsked(s)
        /\ s.phase \in WritePhases =>
            /\ Quiet(s) /\ s.rest # <<>> /\ s.to_write = {Head(s.rest)}
            /\ OfTicker(s.got, Head(s.rest))

\* Every ticker to be written has bars, and what is about to be written is
\* bars of the first of them.
Writing(s) ==
    /\ s.phase \in WritePhases =>
        /\ s.to_write # {}
        /\ \A t \in s.to_write : \E b \in s.got : b.ticker = t
    /\ s.phase \in {"truncate", "flush"} =>
        s.new # {} /\ OfTicker(s.new, Target(s)) /\ s.old \subseteq s.new

StateOK(s) == s \in ProcType /\ Syncing(s) /\ Writing(s)

FilesOK ==
    /\ file \in [Names -> [state : {"none", "torn", "good"}, bars : SUBSET Bars]]
    /\ stored \in [Names -> SUBSET Bars]
    /\ \A t \in Names : /\ file[t].state = "good" <=> file[t].bars # {}
                        /\ file[t].bars \subseteq stored[t]
    /\ FilesHoldTheirTicker

BookOK ==
    /\ manifest \subseteq Names /\ tmp \in [written : BOOLEAN, content : SUBSET Names]
    /\ starts \in 0 .. MaxStarts /\ cut \subseteq Names /\ raced \subseteq Names

StoreInv ==
    /\ proc \in [Procs -> ProcType]
    /\ \A p \in Procs : StateOK(proc[p])
    /\ FilesOK /\ BookOK

-----------------------------------------------------------------------------
(* What the helpers return *)

LEMMA MarketConstants ==
    /\ StartSlack \in Nat /\ EndSlack \in Nat /\ MaxRetries \in Nat
    /\ MaxChunk \in Nat \ {0} /\ MaxStarts \in Nat
  BY MarketAssumption

LEMMA IdleTyped == Idle \in ProcType
<1>1. <<>> \in Seq(Names) /\ <<>> \in Seq(Asked) /\ <<>> \in Seq(Event)
  BY EmptySeq
<1>2. 1 \in 1 .. Len(Tickers) /\ 0 \in 0 .. MaxRetries
  BY TickersTyped, MarketConstants
<1>3. QED
  BY <1>1, <1>2 DEF Idle, ProcType, Phases, AnyWindow, Lists, Requests, Events, Attempts, Places

\* Values that steps give to the parts of a process.
LEMMA FieldsTyped ==
    /\ \A phase \in {"look", "send", "recv", "serve", "done", "raised", "dead"} \cup WritePhases :
          phase \in Phases
    /\ <<>> \in Lists /\ <<>> \in Requests /\ <<>> \in Events
    /\ 0 \in Attempts /\ 1 \in Places
    /\ {} \in SUBSET Bars /\ {} \in SUBSET Names
<1>1. <<>> \in Seq(Names) /\ <<>> \in Seq(Asked) /\ <<>> \in Seq(Event)
  BY EmptySeq
<1>2. 1 \in 1 .. Len(Tickers) /\ 0 \in 0 .. MaxRetries
  BY TickersTyped, MarketConstants
<1>3. QED
  BY <1>1, <1>2 DEF Phases, WritePhases, Lists, Requests, Events, Attempts, Places

LEMMA OverOK ==
    ASSUME NEW s \in ProcType, NEW phase \in {"done", "raised"}
    PROVE  StateOK(Over(s, phase))
<1>1. Over(s, phase) \in ProcType /\ Over(s, phase).phase = phase
  BY IdleTyped DEF Over, ProcType, Phases
<1>2. QED
  BY <1>1 DEF StateOK, Syncing, Writing, WritePhases

LEMMA NextTickerOK ==
    ASSUME NEW s \in ProcType, s.kind = "sync", s.rest # <<>>, s.pending = <<>>, s.queue = <<>>
    PROVE  StateOK(NextTicker(s))
<1> DEFINE tail == Tail(s.rest)
<1>1. tail \in Lists
  BY HeadTailProperties DEF ProcType, Lists
<1>2. CASE tail = <<>>
  BY <1>2, OverOK DEF NextTicker
<1>3. CASE tail # <<>>
  <2> DEFINE x == [s EXCEPT !.phase = "send", !.rest = tail, !.attempt = 0, !.part = {},
                            !.got = {}, !.partial = FALSE]
  <2>1. NextTicker(s) = x
    BY <1>3 DEF NextTicker
  <2>2. x \in ProcType
    <3> HIDE DEF tail
    <3> QED BY <1>1, FieldsTyped DEF ProcType
  <2>3. /\ x.phase = "send" /\ x.rest = tail /\ x.part = {} /\ x.got = {}
        /\ x.pending = <<>> /\ x.queue = <<>>
    BY DEF ProcType
  <2> HIDE DEF x
  <2> QED BY <1>3, <2>1, <2>2, <2>3 DEF StateOK, Syncing, Writing, WritePhases, Quiet
<1>4. QED
  BY <1>2, <1>3

LEMMA FetchFailedOK ==
    ASSUME NEW s \in ProcType,
           s.kind = "sync" => s.rest # <<>> /\ s.pending = <<>> /\ s.queue = <<>>
    PROVE  StateOK(FetchFailed(s))
  BY NextTickerOK, OverOK DEF FetchFailed, Raise

LEMMA LookedOK ==
    ASSUME NEW s \in ProcType, s.phase = "look", Syncing(s),
           NEW i \in 1 .. Len(Tickers) + 1, NEW missing \in Lists
    PROVE  StateOK(Looked([s EXCEPT !.i = i, !.missing = missing]))
<1> DEFINE y == [s EXCEPT !.i = i, !.missing = missing]
<1>1. /\ y.i = i /\ y.missing = missing /\ y.kind = s.kind /\ y.phase = "look"
      /\ y.pending = s.pending /\ y.queue = s.queue /\ y.part = s.part /\ y.got = s.got
  BY DEF ProcType
<1>2. s.kind = "sync" => Quiet(s) /\ s.got = {}
  BY DEF Syncing
<1> SUFFICES StateOK(Looked(y))
  OBVIOUS
<1>3. CASE i <= Len(Tickers)
  <2>1. y \in ProcType
    <3>1. i \in Places
      BY <1>3, TickersTyped DEF Places
    <3> QED BY <3>1 DEF ProcType
  <2>2. Looked(y) = y
    BY <1>1, <1>3, TickersTyped DEF Looked
  <2> HIDE DEF y
  <2> QED BY <1>1, <1>2, <2>1, <2>2 DEF StateOK, Syncing, Writing, WritePhases, Quiet
<1>4. CASE i > Len(Tickers) /\ missing # <<>>
  <2> DEFINE z == [y EXCEPT !.phase = "send", !.rest = missing, !.i = 1,
                            !.missing = IF s.kind = "read" THEN missing ELSE <<>>]
  <2>1. Looked(y) = z
    BY <1>1, <1>4, TickersTyped DEF Looked, ProcType
  <2>2. z \in ProcType
    BY FieldsTyped DEF ProcType
  <2>3. /\ z.phase = "send" /\ z.rest = missing /\ z.kind = s.kind /\ z.pending = s.pending
        /\ z.queue = s.queue /\ z.part = s.part /\ z.got = s.got
    BY DEF ProcType
  <2> HIDE DEF y, z
  <2> QED BY <1>2, <1>4, <2>1, <2>2, <2>3 DEF StateOK, Syncing, Writing, WritePhases, Quiet
<1>5. CASE i > Len(Tickers) /\ missing = <<>>
  <2>1. CASE s.kind = "read"
    <3> DEFINE z == [y EXCEPT !.phase = "serve", !.i = 1]
    <3>1. Looked(y) = z
      BY <1>1, <1>5, <2>1, TickersTyped DEF Looked
    <3>2. z \in ProcType /\ z.phase = "serve"
      BY FieldsTyped DEF ProcType
    <3> HIDE DEF y, z
    <3> QED BY <3>1, <3>2 DEF StateOK, Syncing, Writing, WritePhases
  <2>2. CASE s.kind = "sync"
    <3>1. Looked(y) = Over(y, "done")
      BY <1>1, <1>5, <2>2, TickersTyped DEF Looked
    <3>2. Over(y, "done") = [Idle EXCEPT !.phase = "done", !.kind = s.kind]
      BY <1>1, <2>2 DEF Over
    <3>3. Over(s, "done") = [Idle EXCEPT !.phase = "done", !.kind = s.kind]
      BY <2>2 DEF Over
    <3> QED BY <3>1, <3>2, <3>3, OverOK
  <2> QED BY <2>1, <2>2 DEF ProcType
<1>6. QED
  BY <1>3, <1>4, <1>5, TickersTyped

LEMMA HeadIsFirst ==
    ASSUME NEW S, NEW q \in Seq(S), q # <<>>
    PROVE  Head(q) = q[1] /\ Head(q) \in S
<1>1. Len(q) \in Nat /\ Len(q) # 0
  BY LenProperties, EmptySeq
<1>2. Head(SubSeq(q, 1, Len(q))) = q[1]
  BY <1>1, HeadTailOfSubSeq
<1>3. SubSeq(q, 1, Len(q)) = q
  BY SubSeqFull
<1>4. QED
  BY <1>2, <1>3, HeadTailProperties

LEMMA SingleTail ==
    ASSUME NEW S, NEW q \in Seq(S), Len(q) = 1
    PROVE  q # <<>> /\ Tail(q) = <<>>
<1>1. q # <<>>
  BY EmptySeq
<1>2. Tail(q) \in Seq(S) /\ Len(Tail(q)) = 0
  BY <1>1, HeadTailProperties
<1>3. QED
  BY <1>1, <1>2, EmptySeq

LEMMA ChunkTyped ==
    ASSUME NEW s \in ProcType
    PROVE  /\ Chunk(s) \in Lists /\ AfterChunk(s) \in Lists
           /\ s.kind = "sync" /\ s.rest # <<>> =>
                Len(Chunk(s)) = 1 /\ Chunk(s)[1] = Head(s.rest)
<1> DEFINE size == IF s.kind = "sync" THEN 1 ELSE MaxChunk
           n == IF size < Len(s.rest) THEN size ELSE Len(s.rest)
<1>1. s.rest \in Seq(Names) /\ Len(s.rest) \in Nat /\ size \in Nat \ {0}
  BY MarketConstants, LenProperties DEF ProcType, Lists
<1>2. n \in 0 .. Len(s.rest) /\ Chunk(s) = SubSeq(s.rest, 1, n)
  BY <1>1 DEF Chunk
<1> HIDE DEF n
<1>3. Chunk(s) \in Seq(Names) /\ Len(Chunk(s)) = n
  BY <1>1, <1>2, SubSeqProperties
<1>4. AfterChunk(s) \in Seq(Names)
  BY <1>1, <1>2, <1>3, SubSeqProperties DEF AfterChunk
<1>7. Chunk(s) \in Lists /\ AfterChunk(s) \in Lists
  BY <1>3, <1>4 DEF Lists
<1>5. ASSUME s.kind = "sync", s.rest # <<>> 
      PROVE  Len(Chunk(s)) = 1 /\ Chunk(s)[1] = Head(s.rest)
  <2>1. Len(s.rest) \in Nat \ {0}
    BY <1>1, <1>5, EmptySeq
  <2>2. n = 1
    <3>1. n = IF 1 < Len(s.rest) THEN 1 ELSE Len(s.rest)
      BY <1>5 DEF n
    <3> DEFINE l == Len(s.rest)
    <3>2. l \in Nat /\ l # 0 /\ n = IF 1 < l THEN 1 ELSE l
      BY <1>1, <2>1, <3>1
    <3> HIDE DEF l
    <3> QED BY <3>2
  <2>3. \A k \in 1 .. 1 : s.rest[k] \in Names
    BY <1>1, <2>1, ElementOfSeq
  <2>4. SubSeq(s.rest, 1, 1)[1] = s.rest[1]
    BY <2>3, SubSeqProperties
  <2>5. Head(s.rest) = s.rest[1]
    BY <1>1, <1>5, HeadIsFirst
  <2> QED BY <1>2, <1>3, <2>2, <2>4, <2>5
<1>6. QED
  BY <1>5, <1>7

LEMMA SameTarget == \A s, x : x.to_write = s.to_write => Target(x) = Target(s)
  BY DEF Target

LEMMA BarsOfNames == \A b \in Bars : b.ticker \in Names
  BY DEF Bars

LEMMA FetchedOK ==
    ASSUME NEW s \in ProcType, s.phase = "recv",
           s.kind = "sync" => Quiet(s) /\ s.rest # <<>> /\ OfTicker(s.got, Head(s.rest))
    PROVE  StateOK(Fetched(s))
<1>1. CASE s.kind = "read" /\ s.rest # <<>>
  <2> DEFINE x == [s EXCEPT !.phase = "send", !.attempt = 0]
  <2>1. Fetched(s) = x
    BY <1>1 DEF Fetched
  <2>2. x \in ProcType
    BY FieldsTyped DEF ProcType
  <2>3. x.phase = "send" /\ x.kind = "read"
    BY <1>1 DEF ProcType
  <2> HIDE DEF x
  <2> QED BY <2>1, <2>2, <2>3 DEF StateOK, Syncing, Writing, WritePhases
<1>2. CASE ~ (s.kind = "read" /\ s.rest # <<>>) /\ s.got = {}
  <2>1. Fetched(s) = FetchFailed(s)
    BY <1>2 DEF Fetched
  <2> QED BY <2>1, FetchFailedOK DEF Quiet
<1>3. CASE ~ (s.kind = "read" /\ s.rest # <<>>) /\ s.got # {}
  <2> DEFINE tickers == IF s.kind = "sync" THEN {Head(s.rest)} ELSE {b.ticker : b \in s.got}
             x == [s EXCEPT !.phase = "write", !.to_write = tickers]
  <2>1. Fetched(s) = x
    BY <1>3 DEF Fetched
  <2>2. s.got \subseteq Bars
    BY DEF ProcType
  <2>3. \A t \in tickers : \E b \in s.got : b.ticker = t
    BY <1>3 DEF OfTicker
  <2>4. tickers # {} /\ tickers \subseteq Names
    <3>1. tickers # {}
      BY <1>3
    <3> HIDE DEF tickers
    <3> QED BY <2>2, <2>3, <3>1, BarsOfNames
  <2>5. s.kind = "sync" => tickers = {Head(s.rest)}
    OBVIOUS
  <2> HIDE DEF tickers
  <2>6. x \in ProcType
    <3>1. "write" \in Phases
      BY DEF Phases
    <3> QED BY <2>4, <3>1 DEF ProcType
  <2>7. /\ x.phase = "write" /\ x.to_write = tickers /\ x.kind = s.kind /\ x.rest = s.rest
        /\ x.got = s.got /\ x.pending = s.pending /\ x.queue = s.queue /\ x.part = s.part
    BY DEF ProcType
  <2> HIDE DEF x
  <2>8. Syncing(x)
    BY <2>5, <2>7 DEF Syncing, WritePhases, Quiet
  <2>9. Writing(x)
    BY <2>3, <2>4, <2>7 DEF Writing
  <2> QED BY <2>1, <2>6, <2>8, <2>9 DEF StateOK
<1>4. QED
  BY <1>1, <1>2, <1>3

LEMMA WrittenOK ==
    ASSUME NEW s, StateOK(s), s.phase = "replace"
    PROVE  StateOK(Written(s))
<1>1. /\ s \in ProcType /\ s.to_write # {} /\ s.to_write \subseteq Names
      /\ \A t \in s.to_write : \E b \in s.got : b.ticker = t
      /\ s.kind = "sync" => Quiet(s) /\ s.rest # <<>>
  BY DEF StateOK, Syncing, Writing, WritePhases, ProcType
<1> DEFINE left == s.to_write \ {Target(s)}
           clean == [s EXCEPT !.to_write = left, !.old = {}, !.new = {}]
<1>2. left \subseteq Names /\ left \subseteq s.to_write
  BY <1>1
<1> HIDE DEF left
<1>3. clean \in ProcType
  BY <1>1, <1>2, FieldsTyped DEF ProcType
<1>4. /\ clean.kind = s.kind /\ clean.rest = s.rest /\ clean.pending = s.pending
      /\ clean.queue = s.queue /\ clean.got = s.got /\ clean.to_write = left
  BY <1>1 DEF ProcType
<1>5. CASE s.kind = "sync"
  <2>1. Written(s) = NextTicker(clean)
    BY <1>5 DEF Written, left
  <2> HIDE DEF clean
  <2> QED BY <1>1, <1>3, <1>4, <1>5, <2>1, NextTickerOK DEF Quiet
<1>6. CASE s.kind # "sync" /\ left # {}
  <2> DEFINE x == [clean EXCEPT !.phase = "write"]
  <2>1. Written(s) = x
    BY <1>6 DEF Written, left
  <2> HIDE DEF clean
  <2>2. x \in ProcType
    BY <1>3, FieldsTyped DEF ProcType, WritePhases
  <2>3. x.phase = "write" /\ x.kind = s.kind /\ x.to_write = left /\ x.got = s.got
    BY <1>3, <1>4 DEF ProcType
  <2> HIDE DEF x
  <2> QED BY <1>1, <1>2, <1>6, <2>1, <2>2, <2>3 DEF StateOK, Syncing, Writing
<1>7. CASE s.kind # "sync" /\ left = {}
  <2>1. CASE \E t \in ToSet(s.missing) : \A b \in s.got : b.ticker # t
    <3>1. Written(s) = Raise(s)
      BY <1>7, <2>1 DEF Written, left
    <3> QED BY <1>1, <3>1, OverOK DEF Raise
  <2>2. CASE ~ \E t \in ToSet(s.missing) : \A b \in s.got : b.ticker # t
    <3> DEFINE x == [clean EXCEPT !.phase = "serve", !.i = 1, !.got = {}, !.missing = <<>>]
    <3>1. Written(s) = x
      BY <1>7, <2>2 DEF Written, left
    <3> HIDE DEF clean
    <3>2. x \in ProcType
      BY <1>3, FieldsTyped DEF ProcType
    <3>3. x.phase = "serve"
      BY <1>3 DEF ProcType
    <3> HIDE DEF x
    <3> QED BY <3>1, <3>2, <3>3 DEF StateOK, Syncing, Writing, WritePhases
  <2> QED BY <2>1, <2>2
<1>8. QED
  BY <1>5, <1>6, <1>7

-----------------------------------------------------------------------------
(* Every step keeps the invariant *)

LEMMA DiskSame ==
    ASSUME StoreInv, UNCHANGED Disk, starts' \in 0 .. MaxStarts
    PROVE  FilesOK' /\ BookOK'
<1>1. /\ file' = file /\ manifest' = manifest /\ tmp' = tmp
      /\ stored' = stored /\ cut' = cut /\ raced' = raced
  BY DEF Disk, History
<1>2. QED
  BY <1>1 DEF StoreInv, FilesOK, FilesHoldTheirTicker, BookOK

LEMMA MoveOK ==
    ASSUME StoreInv, NEW p \in Procs, NEW x, StateOK(x), Becomes(p, x), FilesOK', BookOK'
    PROVE  StoreInv'
<1>1. x \in ProcType /\ proc \in [Procs -> ProcType] /\ proc' = [proc EXCEPT ![p] = x]
  BY DEF StoreInv, StateOK, Becomes
<1>2. proc' \in [Procs -> ProcType]
  BY <1>1
<1>3. \A q \in Procs : proc'[q] = IF q = p THEN x ELSE proc[q]
  BY <1>1
<1>4. \A q \in Procs : StateOK(proc'[q])
  BY <1>3 DEF StoreInv
<1>5. QED
  BY <1>2, <1>4 DEF StoreInv

\* The steps of a process that leave the disk alone.
LEMMA QuietMoveOK ==
    ASSUME StoreInv, NEW p \in Procs, NEW x, StateOK(x), Becomes(p, x),
           UNCHANGED <<Disk, starts>>
    PROVE  StoreInv'
<1>1. UNCHANGED Disk /\ starts' = starts
  OBVIOUS
<1>2. starts' \in 0 .. MaxStarts
  BY <1>1 DEF StoreInv, BookOK
<1>3. QED
  BY <1>1, <1>2, DiskSame, MoveOK

LEMMA BeginKeeps == ASSUME StoreInv, NEW p \in Procs, Begin(p) PROVE StoreInv'
<1>1. PICK kind \in {"read", "sync"}, w \in Windows :
        Becomes(p, [Idle EXCEPT !.phase = "look", !.kind = kind, !.win = w])
  BY DEF Begin
<1> DEFINE x == [Idle EXCEPT !.phase = "look", !.kind = kind, !.win = w]
<1>2. x \in ProcType
  <2>1. w \in AnyWindow
    BY DEF AnyWindow
  <2> QED BY <2>1, IdleTyped, FieldsTyped DEF ProcType
<1>3. /\ x.phase = "look" /\ x.pending = <<>> /\ x.queue = <<>> /\ x.part = {} /\ x.got = {}
  BY DEF Idle
<1>4. Becomes(p, x)
  BY <1>1
<1> HIDE DEF x
<1>5. StateOK(x)
  BY <1>2, <1>3 DEF StateOK, Syncing, Writing, WritePhases, Quiet
<1>6. UNCHANGED Disk /\ starts' \in 0 .. MaxStarts
  BY MarketConstants DEF Begin, StoreInv, BookOK
<1>7. QED
  BY <1>4, <1>5, <1>6, DiskSame, MoveOK

LEMMA LookKeeps == ASSUME StoreInv, NEW p \in Procs, Look(p) PROVE StoreInv'
<1> DEFINE s == proc[p]
           t == Tickers[s.i]
           miss == file[t].state = "none" \/ ~Covers(file[t].bars, s.win)
           missing == IF miss THEN Append(s.missing, t) ELSE s.missing
<1>1. s \in ProcType /\ Syncing(s) /\ s.phase = "look"
  BY DEF StoreInv, StateOK, Look
<1>2. UNCHANGED <<Disk, starts>>
  BY DEF Look
<1>3. CASE file[t].state = "torn"
  <2>1. Becomes(p, Raise(s))
    BY <1>3 DEF Look
  <2> QED BY <1>1, <1>2, <2>1, OverOK, QuietMoveOK DEF Raise
<1>4. CASE file[t].state # "torn"
  <2>1. Becomes(p, Looked([s EXCEPT !.i = s.i + 1, !.missing = missing]))
    BY <1>4 DEF Look
  <2>2. s.i + 1 \in 1 .. Len(Tickers) + 1 /\ t \in Names
    BY <1>1, TickersTyped DEF ProcType, Places
  <2>3. missing \in Lists
    <3>1. s.missing \in Seq(Names)
      BY <1>1 DEF ProcType, Lists
    <3>2. Append(s.missing, t) \in Seq(Names)
      BY <2>2, <3>1, AppendProperties
    <3> QED BY <3>1, <3>2 DEF Lists
  <2> HIDE DEF missing
  <2>4. StateOK(Looked([s EXCEPT !.i = s.i + 1, !.missing = missing]))
    BY <1>1, <2>2, <2>3, LookedOK
  <2> QED BY <1>2, <2>1, <2>4, QuietMoveOK
<1>5. QED
  BY <1>3, <1>4

LEMMA SendKeeps == ASSUME StoreInv, NEW p \in Procs, Send(p) PROVE StoreInv'
<1> DEFINE s == proc[p]
           n == Len(Chunk(s))
           asked == [k \in DOMAIN Chunk(s) |-> [ticker |-> Chunk(s)[k], last |-> k = n]]
           x == [s EXCEPT !.phase = "recv", !.open = TRUE, !.pending = s.pending \o asked]
<1>1. StateOK(s) /\ s \in ProcType /\ Syncing(s) /\ s.phase = "send"
  BY DEF StoreInv, StateOK, Send
<1>2. UNCHANGED <<Disk, starts>>
  BY DEF Send
<1>3. s.kind = "sync" => Quiet(s) /\ s.got = {} /\ s.rest # <<>>
  BY <1>1 DEF Syncing
<1>4. CASE Becomes(p, FetchFailed(s))
  BY <1>1, <1>2, <1>3, <1>4, FetchFailedOK, QuietMoveOK DEF Quiet
<1>5. CASE Becomes(p, x)
  <2>1. Chunk(s) \in Seq(Names)
    BY <1>1, ChunkTyped DEF Lists
  <2>2. /\ n \in Nat /\ DOMAIN Chunk(s) = 1 .. n
        /\ \A k \in 1 .. n : Chunk(s)[k] \in Names
    BY <2>1, LenProperties, ElementOfSeq
  <2>3. asked \in [1 .. n -> Asked]
    <3> SUFFICES ASSUME NEW k \in 1 .. n
                 PROVE  [ticker |-> Chunk(s)[k], last |-> k = n] \in Asked
      BY <2>2
    <3>1. (k = n) \in BOOLEAN /\ Chunk(s)[k] \in Names
      BY <2>2
    <3> QED BY <3>1 DEF Asked
  <2>4. asked \in Seq(Asked) /\ Len(asked) = n
    <3> HIDE DEF asked
    <3>1. asked \in Seq(Asked)
      BY <2>2, <2>3, SeqDef
    <3>2. DOMAIN asked = 1 .. n /\ DOMAIN asked = 1 .. Len(asked) /\ Len(asked) \in Nat
      BY <2>3, <3>1, LenProperties
    <3> QED BY <2>2, <3>1, <3>2
  <2>5. n = 1 => asked[1].last /\ asked[1].ticker = Chunk(s)[1]
    <3>1. n = 1 => 1 \in DOMAIN Chunk(s)
      BY <2>2
    <3>2. n = 1 => asked[1] = [ticker |-> Chunk(s)[1], last |-> TRUE]
      BY <3>1
    <3> QED BY <3>2
  <2> DEFINE pending == s.pending \o asked
  <2> HIDE DEF asked
  <2>6. pending \in Seq(Asked)
    <3>1. s.pending \in Seq(Asked)
      BY <1>1 DEF ProcType, Requests
    <3> QED BY <2>4, <3>1, ConcatProperties
  <2>7. s.pending = <<>> => pending = asked
    BY <2>4, ConcatEmptySeq
  <2> HIDE DEF pending
  <2>8. x \in ProcType
    <3>1. pending \in Requests
      BY <2>6 DEF Requests
    <3>2. x = [s EXCEPT !.phase = "recv", !.open = TRUE, !.pending = pending]
      BY DEF pending
    <3> HIDE DEF x
    <3> QED BY <1>1, <3>1, <3>2, FieldsTyped DEF ProcType
  <2>9. /\ x.phase = "recv" /\ x.kind = s.kind /\ x.pending = pending /\ x.queue = s.queue
        /\ x.part = s.part /\ x.got = s.got /\ x.rest = s.rest
    BY <1>1 DEF ProcType, pending
  <2> HIDE DEF x
  <2>10. s.kind = "sync" => OneAsked(x)
    BY <1>1, <1>3, <2>4, <2>5, <2>7, <2>9, ChunkTyped DEF OneAsked, Quiet
  <2>11. StateOK(x)
    BY <1>3, <2>8, <2>9, <2>10 DEF StateOK, Syncing, Writing, WritePhases, Quiet
  <2> QED BY <1>2, <1>5, <2>11, QuietMoveOK
<1>6. QED
  BY <1>4, <1>5 DEF Send

LEMMA ReceiveKeeps == ASSUME StoreInv, NEW p \in Procs, Receive(p) PROVE StoreInv'
<1> DEFINE s == proc[p]
           event == Head(s.queue)
           queue == Tail(s.queue)
           part == s.part \cup event.bars
           partial == s.partial \/ event.error
           taken == [s EXCEPT !.queue = queue, !.part = part, !.partial = partial]
           rest == IF s.kind = "sync" THEN s.rest ELSE AfterChunk(taken)
           y == [taken EXCEPT !.got = s.got \cup part, !.part = {}, !.rest = rest]
<1>1. s \in ProcType /\ Syncing(s) /\ s.phase = "recv" /\ s.queue # <<>>
  BY DEF StoreInv, StateOK, Receive
<1>2. UNCHANGED <<Disk, starts>>
  BY DEF Receive
<1>3. s.queue \in Seq(Event)
  BY <1>1 DEF ProcType, Events
<1>4. event \in Event /\ event = s.queue[1] /\ queue \in Events
  BY <1>1, <1>3, HeadIsFirst, HeadTailProperties DEF Events
<1>5. part \in SUBSET Bars /\ partial \in BOOLEAN
  BY <1>1, <1>4 DEF ProcType, Event
<1>6. s.kind = "sync" =>
        /\ s.part = {} /\ s.got = {} /\ s.rest # <<>> /\ s.pending = <<>> /\ queue = <<>>
        /\ event.last /\ OfTicker(event.bars, Head(s.rest))
  BY <1>1, <1>3, <1>4, SingleTail DEF Syncing, OneAsked
<1> HIDE DEF queue, partial
<1>7. taken \in ProcType
  <2> HIDE DEF part
  <2> QED BY <1>1, <1>4, <1>5 DEF ProcType
<1>8. /\ taken.phase = "recv" /\ taken.kind = s.kind /\ taken.part = part
      /\ taken.got = s.got /\ taken.rest = s.rest /\ taken.pending = s.pending
      /\ taken.queue = queue
  BY <1>1 DEF ProcType
<1>9. CASE ~event.last
  <2>1. Becomes(p, taken)
    BY <1>9 DEF Receive, queue, partial
  <2> HIDE DEF taken
  <2>2. StateOK(taken)
    BY <1>6, <1>7, <1>8, <1>9 DEF StateOK, Syncing, Writing, WritePhases
  <2> QED BY <1>2, <2>1, <2>2, QuietMoveOK
<1>10. CASE event.last
  <2>1. Becomes(p, Fetched(y))
    <3>1. Becomes(p, Fetched([taken EXCEPT !.got = @ \cup taken.part, !.part = {},
                                !.rest = IF s.kind = "sync" THEN @ ELSE AfterChunk(s)]))
      BY <1>10 DEF Receive, queue, partial
    <3>2. AfterChunk(taken) = AfterChunk(s)
      <4> HIDE DEF taken
      <4> QED BY <1>8 DEF AfterChunk, Chunk
    <3>3. y = [taken EXCEPT !.got = @ \cup taken.part, !.part = {},
                            !.rest = IF s.kind = "sync" THEN @ ELSE AfterChunk(s)]
      <4> HIDE DEF taken, part
      <4> QED BY <1>7, <1>8, <3>2 DEF ProcType
    <3> QED BY <3>1, <3>3
  <2>2. rest \in Lists
    <3> HIDE DEF taken
    <3> QED BY <1>1, <1>7, ChunkTyped DEF ProcType
  <2>3. y \in ProcType
    <3> HIDE DEF taken, part, rest
    <3>1. taken.got \in SUBSET Bars
      BY <1>7 DEF ProcType
    <3>2. s.got \cup part \in SUBSET Bars
      BY <1>5, <1>8, <3>1
    <3> QED BY <1>7, <2>2, <3>2, FieldsTyped DEF ProcType
  <2>4. /\ y.phase = "recv" /\ y.kind = s.kind /\ y.part = {} /\ y.got = s.got \cup part
        /\ y.rest = rest /\ y.pending = s.pending /\ y.queue = queue
    <3> HIDE DEF taken, part, rest
    <3> QED BY <1>7, <1>8 DEF ProcType
  <2>5. s.kind = "sync" => rest = s.rest
    OBVIOUS
  <2>6. s.kind = "sync" => OfTicker(s.got \cup part, Head(s.rest))
    BY <1>6 DEF OfTicker
  <2> HIDE DEF y, part, rest, taken
  <2>7. StateOK(Fetched(y))
    BY <1>6, <2>3, <2>4, <2>5, <2>6, FetchedOK DEF Quiet
  <2> QED BY <1>2, <2>1, <2>7, QuietMoveOK
<1>11. QED
  BY <1>9, <1>10

LEMMA AnswerKeeps == ASSUME StoreInv, NEW p \in Procs, Answer(p) PROVE StoreInv'
<1> DEFINE s == proc[p]
           asked == Head(s.pending)
           all == In(s.win, {b \in Bars : b.ticker = asked.ticker})
           pending == Tail(s.pending)
<1>1. s \in ProcType /\ Syncing(s) /\ Writing(s) /\ s.pending # <<>>
  BY DEF StoreInv, StateOK, Answer
<1>2. UNCHANGED <<Disk, starts>>
  BY DEF Answer
<1>3. PICK bars \in {all, {}, {b \in all : \E c \in all : c.day > b.day}} :
        Becomes(p, [s EXCEPT !.pending = pending,
          !.queue = Append(s.queue, [bars |-> bars, error |-> bars # all, last |-> asked.last])])
  BY DEF Answer
<1>4. s.pending \in Seq(Asked) /\ s.queue \in Seq(Event)
  BY <1>1 DEF ProcType, Requests, Events
<1>5. asked \in Asked /\ asked = s.pending[1] /\ pending \in Requests
  BY <1>1, <1>4, HeadIsFirst, HeadTailProperties DEF Requests
<1>6. bars \in SUBSET Bars /\ OfTicker(bars, asked.ticker)
  <2>1. all \subseteq {b \in Bars : b.ticker = asked.ticker}
    BY DEF In
  <2> HIDE DEF all
  <2>2. bars \subseteq all
    OBVIOUS
  <2> QED BY <2>1, <2>2 DEF OfTicker
<1> DEFINE e == [bars |-> bars, error |-> bars # all, last |-> asked.last]
           queue == Append(s.queue, e)
<1>7. e \in Event /\ e.bars = bars /\ e.last = asked.last
  <2>1. (bars # all) \in BOOLEAN /\ asked.last \in BOOLEAN
    BY <1>5 DEF Asked
  <2> HIDE DEF all
  <2> QED BY <1>6, <2>1 DEF Event
<1> HIDE DEF e
<1>8. /\ queue \in Events
      /\ s.queue = <<>> => Len(queue) = 1 /\ queue[1] = e
  <2>1. queue \in Seq(Event) /\ Len(queue) = Len(s.queue) + 1 /\ queue[Len(s.queue) + 1] = e
    BY <1>4, <1>7, AppendProperties
  <2>2. s.queue = <<>> => Len(s.queue) = 0
    OBVIOUS
  <2> HIDE DEF queue
  <2> QED BY <2>1, <2>2 DEF Events
<1> DEFINE x == [s EXCEPT !.pending = pending, !.queue = queue]
<1>9. Becomes(p, x)
  BY <1>3 DEF e
<1> HIDE DEF queue
<1>10. s.kind = "sync" /\ s.phase = "recv" => pending = <<>>
  <2>1. s.kind = "sync" /\ s.phase = "recv" => Len(s.pending) = 1
    BY <1>1 DEF Syncing, OneAsked
  <2> QED BY <1>4, <2>1, SingleTail
<1> HIDE DEF pending
<1>11. x \in ProcType
  BY <1>1, <1>5, <1>8 DEF ProcType
<1>12. /\ x.phase = s.phase /\ x.kind = s.kind /\ x.rest = s.rest /\ x.part = s.part
       /\ x.got = s.got /\ x.to_write = s.to_write /\ x.new = s.new /\ x.old = s.old
       /\ x.pending = pending /\ x.queue = queue
  BY <1>1 DEF ProcType
<1> HIDE DEF x
<1>13. Writing(x)
  BY <1>1, <1>12, SameTarget DEF Writing
<1>14. Syncing(x)
  <2> SUFFICES ASSUME s.kind = "sync" PROVE Syncing(x)
    BY <1>12 DEF Syncing
  <2>1. s.phase \notin {"look", "send"} \cup WritePhases
    BY <1>1 DEF Syncing, Quiet
  <2>2. CASE s.phase = "recv"
    <3>1. /\ s.part = {} /\ s.got = {} /\ s.rest # <<>> /\ s.queue = <<>>
          /\ s.pending[1].last /\ s.pending[1].ticker = Head(s.rest)
      BY <1>1, <2>2 DEF Syncing, OneAsked
    <3>2. Len(queue) = 1 /\ queue[1].last /\ OfTicker(queue[1].bars, Head(s.rest))
      BY <1>5, <1>6, <1>7, <1>8, <3>1
    <3>3. OneAsked(x)
      BY <1>10, <1>12, <2>2, <3>2 DEF OneAsked
    <3> QED BY <1>12, <2>2, <3>1, <3>3 DEF Syncing, WritePhases
  <2>3. CASE s.phase # "recv"
    BY <1>12, <2>1, <2>3 DEF Syncing
  <2> QED BY <2>2, <2>3
<1>15. QED
  BY <1>2, <1>9, <1>11, <1>13, <1>14, QuietMoveOK DEF StateOK

LEMMA TimeoutKeeps == ASSUME StoreInv, NEW p \in Procs, Timeout(p) PROVE StoreInv'
<1> DEFINE s == proc[p]
           d == Dropped(s)
           x == [d EXCEPT !.phase = "send", !.attempt = s.attempt + 1]
<1>1. s \in ProcType /\ Syncing(s) /\ s.phase = "recv"
  BY DEF StoreInv, StateOK, Timeout
<1>2. UNCHANGED <<Disk, starts>>
  BY DEF Timeout
<1>3. s.kind = "sync" => s.got = {} /\ s.rest # <<>>
  BY <1>1 DEF Syncing
<1>4. d \in ProcType
  BY <1>1, FieldsTyped DEF ProcType, Dropped
<1>5. /\ d.kind = s.kind /\ d.rest = s.rest /\ d.got = s.got /\ d.attempt = s.attempt /\ Quiet(d)
  BY <1>1 DEF ProcType, Dropped, Quiet
<1>6. CASE s.attempt >= MaxRetries
  <2>1. Becomes(p, FetchFailed(d))
    BY <1>6 DEF Timeout
  <2> HIDE DEF d
  <2> QED BY <1>2, <1>3, <1>4, <1>5, <2>1, FetchFailedOK, QuietMoveOK DEF Quiet
<1>7. CASE ~ (s.attempt >= MaxRetries)
  <2>1. Becomes(p, [d EXCEPT !.phase = "send", !.attempt = @ + 1])
    BY <1>7 DEF Timeout
  <2>2. s.attempt + 1 \in Attempts
    BY <1>1, <1>7, MarketConstants DEF ProcType, Attempts
  <2> HIDE DEF d
  <2>3. Becomes(p, x)
    BY <1>5, <2>1
  <2>4. x \in ProcType
    BY <1>4, <2>2, FieldsTyped DEF ProcType
  <2>5. /\ x.phase = "send" /\ x.kind = s.kind /\ x.rest = s.rest /\ x.got = s.got /\ Quiet(x)
    BY <1>4, <1>5 DEF ProcType, Quiet
  <2> HIDE DEF x
  <2>6. StateOK(x)
    BY <1>3, <2>4, <2>5 DEF StateOK, Syncing, Writing, WritePhases
  <2> QED BY <1>2, <2>3, <2>6, QuietMoveOK
<1>8. QED
  BY <1>6, <1>7

\* What a process that is writing writes.
LEMMA WriterFacts ==
    ASSUME NEW s, StateOK(s), s.phase \in WritePhases
    PROVE  /\ Target(s) \in Names /\ \E b \in s.got : b.ticker = Target(s)
           /\ s.kind = "sync" => OfTicker(s.got, Target(s))
<1>1. /\ s.to_write \subseteq Names /\ s.to_write # {}
      /\ \A t \in s.to_write : \E b \in s.got : b.ticker = t
      /\ s.kind = "sync" => s.to_write = {Head(s.rest)} /\ OfTicker(s.got, Head(s.rest))
  BY DEF StateOK, Syncing, Writing, ProcType
<1>2. Target(s) \in s.to_write /\ Target(s) \in Names
  BY <1>1, TargetChosen
<1>3. QED
  BY <1>1, <1>2

\* A step from one phase of the writing to the next.
LEMMA WriteOn ==
    ASSUME NEW s, StateOK(s), s.phase \in WritePhases,
           NEW phase \in {"flush", "manifest", "replace"},
           phase = "flush" => s.phase = "truncate"
    PROVE  StateOK([s EXCEPT !.phase = phase])
<1> DEFINE x == [s EXCEPT !.phase = phase]
<1>1. s \in ProcType /\ Syncing(s) /\ Writing(s)
  BY DEF StateOK
<1>2. x \in ProcType
  BY <1>1 DEF ProcType, Phases
<1>3. /\ x.phase = phase /\ x.kind = s.kind /\ x.rest = s.rest /\ x.part = s.part
      /\ x.got = s.got /\ x.to_write = s.to_write /\ x.new = s.new /\ x.old = s.old
      /\ x.pending = s.pending /\ x.queue = s.queue
  BY <1>1 DEF ProcType
<1> HIDE DEF x
<1> SUFFICES StateOK(x)
  BY DEF x
<1>4. Syncing(x)
  BY <1>1, <1>3 DEF Syncing, WritePhases, Quiet
<1>5. Writing(x)
  BY <1>1, <1>3, SameTarget DEF Writing, WritePhases
<1>6. QED
  BY <1>2, <1>4, <1>5 DEF StateOK

LEMMA ReadOldKeeps == ASSUME StoreInv, NEW p \in Procs, ReadOld(p) PROVE StoreInv'
<1> DEFINE s == proc[p]
           t == Target(s)
           fresh == IF s.kind = "sync" THEN s.got ELSE {b \in s.got : b.ticker = t}
           new == file[t].bars \cup fresh
           x == [s EXCEPT !.phase = "truncate", !.old = file[t].bars, !.new = new]
<1>1. StateOK(s) /\ s \in ProcType /\ Syncing(s) /\ Writing(s) /\ s.phase = "write"
  BY DEF StoreInv, StateOK, ReadOld
<1>2. UNCHANGED <<Disk, starts>>
  BY DEF ReadOld
<1>3. /\ t \in Names /\ \E b \in s.got : b.ticker = t
      /\ s.kind = "sync" => OfTicker(s.got, t)
  BY <1>1, WriterFacts DEF WritePhases
<1>4. file[t].bars \in SUBSET Bars /\ OfTicker(file[t].bars, t)
  BY <1>3 DEF StoreInv, FilesOK, FilesHoldTheirTicker, OfTicker
<1>5. fresh \in SUBSET Bars /\ fresh # {} /\ OfTicker(fresh, t)
  BY <1>1, <1>3 DEF ProcType, OfTicker
<1> HIDE DEF fresh
<1>6. /\ new \in SUBSET Bars /\ new # {} /\ OfTicker(new, t)
      /\ file[t].bars \subseteq new
  BY <1>4, <1>5 DEF OfTicker
<1>7. CASE file[t].state = "torn"
  <2>1. Becomes(p, Raise(s))
    BY <1>7 DEF ReadOld
  <2> QED BY <1>1, <1>2, <2>1, OverOK, QuietMoveOK DEF Raise
<1>8. CASE file[t].state # "torn"
  <2>1. Becomes(p, x)
    BY <1>8 DEF ReadOld, fresh
  <2> HIDE DEF new
  <2>2. x \in ProcType
    <3>1. "truncate" \in Phases
      BY DEF Phases
    <3> QED BY <1>1, <1>4, <1>6, <3>1 DEF ProcType
  <2>3. /\ x.phase = "truncate" /\ x.kind = s.kind /\ x.rest = s.rest /\ x.part = s.part
        /\ x.got = s.got /\ x.to_write = s.to_write /\ x.new = new /\ x.old = file[t].bars
        /\ x.pending = s.pending /\ x.queue = s.queue
    BY <1>1 DEF ProcType
  <2> HIDE DEF x
  <2>4. Syncing(x)
    BY <1>1, <2>3 DEF Syncing, WritePhases, Quiet
  <2>5. Writing(x)
    BY <1>1, <1>6, <2>3, SameTarget DEF Writing, WritePhases
  <2> QED BY <1>2, <2>1, <2>2, <2>4, <2>5, QuietMoveOK DEF StateOK
<1>9. QED
  BY <1>7, <1>8

LEMMA TruncateKeeps == ASSUME StoreInv, NEW p \in Procs, Truncate(p) PROVE StoreInv'
<1> DEFINE s == proc[p]
           t == Target(s)
<1>1. StateOK(s) /\ s.phase = "truncate" /\ "truncate" \in WritePhases
  BY DEF StoreInv, Truncate, WritePhases
<1>2. Becomes(p, [s EXCEPT !.phase = "flush"]) /\ UNCHANGED <<manifest, tmp, starts, stored, cut>>
  BY DEF Truncate
<1>3. t \in Names
  BY <1>1, WriterFacts
<1>4. FilesOK'
  <2>1. file' = [file EXCEPT ![t] = [state |-> "torn", bars |-> {}]]
    BY DEF Truncate
  <2>2. file \in [Names -> [state : {"none", "torn", "good"}, bars : SUBSET Bars]]
    BY DEF StoreInv, FilesOK
  <2>3. file' \in [Names -> [state : {"none", "torn", "good"}, bars : SUBSET Bars]]
    BY <2>1, <2>2
  <2>4. \A u \in Names : file'[u] = IF u = t THEN [state |-> "torn", bars |-> {}] ELSE file[u]
    BY <2>1, <2>2
  <2> QED BY <1>2, <2>3, <2>4 DEF StoreInv, FilesOK, FilesHoldTheirTicker
<1>5. BookOK'
  BY <1>2, <1>3 DEF Truncate, StoreInv, BookOK
<1>6. StateOK([s EXCEPT !.phase = "flush"])
  BY <1>1, WriteOn
<1>7. QED
  BY <1>2, <1>4, <1>5, <1>6, MoveOK

LEMMA FlushKeeps == ASSUME StoreInv, NEW p \in Procs, Flush(p) PROVE StoreInv'
<1> DEFINE s == proc[p]
           t == Target(s)
<1>1. StateOK(s) /\ s.phase = "flush" /\ "flush" \in WritePhases
  BY DEF StoreInv, Flush, WritePhases
<1>2. Becomes(p, [s EXCEPT !.phase = "manifest"]) /\ UNCHANGED <<manifest, tmp, starts, cut>>
  BY DEF Flush
<1>3. t \in Names
  BY <1>1, WriterFacts
<1>4. FilesOK'
  <2>1. file' = [file EXCEPT ![t] = [state |-> "good", bars |-> s.new]]
    BY DEF Flush
  <2>2. s.new \in SUBSET Bars /\ s.new # {} /\ OfTicker(s.new, t)
    BY <1>1 DEF StateOK, Writing, ProcType
  <2>3. file \in [Names -> [state : {"none", "torn", "good"}, bars : SUBSET Bars]]
    BY DEF StoreInv, FilesOK
  <2>4. file' \in [Names -> [state : {"none", "torn", "good"}, bars : SUBSET Bars]]
    BY <2>1, <2>2, <2>3
  <2>5. \A u \in Names : file'[u] = IF u = t THEN [state |-> "good", bars |-> s.new] ELSE file[u]
    BY <2>1, <2>3
  <2>6. /\ stored' \in [Names -> SUBSET Bars]
        /\ \A u \in Names : stored'[u] = IF u = t THEN stored[u] \cup s.new ELSE stored[u]
    BY <2>2 DEF Flush, StoreInv, FilesOK
  <2>7. \A u \in Names : /\ file'[u].state = "good" <=> file'[u].bars # {}
                         /\ file'[u].bars \subseteq stored'[u]
                         /\ \A b \in file'[u].bars : b.ticker = u
    <3> SUFFICES ASSUME NEW u \in Names
                 PROVE  /\ file'[u].state = "good" <=> file'[u].bars # {}
                        /\ file'[u].bars \subseteq stored'[u]
                        /\ \A b \in file'[u].bars : b.ticker = u
      OBVIOUS
    <3>1. CASE u = t
      <4>1. /\ file'[u].state = "good" /\ file'[u].bars = s.new
            /\ stored'[u] = stored[u] \cup s.new
        BY <2>5, <2>6, <3>1
      <4> QED BY <2>2, <3>1, <4>1 DEF OfTicker
    <3>2. CASE u # t
      <4>1. file'[u] = file[u] /\ stored'[u] = stored[u]
        BY <2>5, <2>6, <3>2
      <4> QED BY <4>1 DEF StoreInv, FilesOK, FilesHoldTheirTicker
    <3> QED BY <3>1, <3>2
  <2> QED BY <2>4, <2>6, <2>7 DEF FilesOK, FilesHoldTheirTicker
<1>5. BookOK'
  BY <1>2, <1>3 DEF Flush, StoreInv, BookOK
<1>6. StateOK([s EXCEPT !.phase = "manifest"])
  BY <1>1, WriteOn
<1>7. QED
  BY <1>2, <1>4, <1>5, <1>6, MoveOK

LEMMA UpdateManifestKeeps == ASSUME StoreInv, NEW p \in Procs, UpdateManifest(p) PROVE StoreInv'
<1> DEFINE s == proc[p]
           t == Target(s)
<1>1. StateOK(s) /\ s.phase = "manifest" /\ "manifest" \in WritePhases
  BY DEF StoreInv, UpdateManifest, WritePhases
<1>2. /\ Becomes(p, [s EXCEPT !.phase = "replace"])
      /\ UNCHANGED <<file, manifest, starts, stored, cut, raced>>
      /\ tmp' = [written |-> TRUE, content |-> manifest \cup {t}]
  BY DEF UpdateManifest, History
<1>3. t \in Names
  BY <1>1, WriterFacts
<1>4. FilesOK' /\ BookOK'
  BY <1>2, <1>3 DEF StoreInv, FilesOK, FilesHoldTheirTicker, BookOK
<1>5. StateOK([s EXCEPT !.phase = "replace"])
  BY <1>1, WriteOn
<1>6. QED
  BY <1>2, <1>4, <1>5, MoveOK

LEMMA ReplaceKeeps == ASSUME StoreInv, NEW p \in Procs, Replace(p) PROVE StoreInv'
<1> DEFINE s == proc[p]
<1>1. StateOK(s) /\ s.phase = "replace" /\ s \in ProcType
  BY DEF StoreInv, StateOK, Replace
<1>2. PICK x \in {Written(s), Raise(s)} : Becomes(p, x)
  BY DEF Replace
<1>3. StateOK(x)
  BY <1>1, WrittenOK, OverOK DEF Raise
<1>4. FilesOK' /\ BookOK'
  <2>1. UNCHANGED <<file, starts, stored, cut, raced>>
    BY DEF Replace, History
  <2>2. NoTmp \in [written : BOOLEAN, content : SUBSET Names]
    BY DEF NoTmp
  <2>3. (manifest' = tmp.content /\ tmp' = NoTmp) \/ (manifest' = manifest /\ tmp' = tmp)
    BY DEF Replace
  <2>4. manifest' \subseteq Names /\ tmp' \in [written : BOOLEAN, content : SUBSET Names]
    BY <2>2, <2>3 DEF StoreInv, BookOK
  <2> QED BY <2>1, <2>4 DEF StoreInv, FilesOK, FilesHoldTheirTicker, BookOK
<1>5. QED
  BY <1>2, <1>3, <1>4, MoveOK

LEMMA ServeKeeps == ASSUME StoreInv, NEW p \in Procs, Serve(p) PROVE StoreInv'
<1> DEFINE s == proc[p]
           t == Tickers[s.i]
           served == s.served \cup In(s.win, file[t].bars)
           x == [s EXCEPT !.i = s.i + 1, !.served = served]
<1>1. s \in ProcType /\ s.phase = "serve"
  BY DEF StoreInv, StateOK, Serve
<1>2. UNCHANGED <<Disk, starts>>
  BY DEF Serve
<1>3. s.i \in 1 .. Len(Tickers) /\ t \in Names
  BY <1>1, TickersTyped DEF ProcType, Places
<1>4. served \in SUBSET Bars
  BY <1>1, <1>3 DEF StoreInv, FilesOK, ProcType, In
<1> HIDE DEF served
<1>5. CASE file[t].state = "torn"
  <2>1. Becomes(p, Raise(s))
    BY <1>5 DEF Serve
  <2> QED BY <1>1, <1>2, <2>1, OverOK, QuietMoveOK DEF Raise
<1>6. CASE file[t].state # "torn" /\ s.i = Len(Tickers)
  <2>1. Becomes(p, Over(x, "done"))
    BY <1>6 DEF Serve, served
  <2>2. Over(x, "done") \in ProcType /\ Over(x, "done").phase = "done"
    <3>1. /\ x.kind = s.kind /\ x.win = s.win /\ x.partial = s.partial /\ x.served = served
      BY <1>1 DEF ProcType
    <3> HIDE DEF x
    <3> QED BY <1>1, <1>4, <3>1, IdleTyped, FieldsTyped DEF Over, ProcType
  <2>3. StateOK(Over(x, "done"))
    BY <2>2 DEF StateOK, Syncing, Writing, WritePhases
  <2> QED BY <1>2, <2>1, <2>3, QuietMoveOK
<1>7. CASE file[t].state # "torn" /\ s.i # Len(Tickers)
  <2>1. Becomes(p, x)
    BY <1>7 DEF Serve, served
  <2>2. s.i + 1 \in Places
    BY <1>3, <1>7, TickersTyped DEF Places
  <2>3. x \in ProcType /\ x.phase = "serve"
    BY <1>1, <1>4, <2>2 DEF ProcType
  <2> HIDE DEF x
  <2>4. StateOK(x)
    BY <2>3 DEF StateOK, Syncing, Writing, WritePhases
  <2> QED BY <1>2, <2>1, <2>4, QuietMoveOK
<1>8. QED
  BY <1>5, <1>6, <1>7

LEMMA DieKeeps == ASSUME StoreInv, NEW p \in Procs, Die(p) PROVE StoreInv'
<1> DEFINE x == [Idle EXCEPT !.phase = "dead"]
<1>1. x \in ProcType /\ x.phase = "dead"
  BY IdleTyped, FieldsTyped DEF ProcType
<1>2. Becomes(p, x) /\ UNCHANGED <<file, manifest, tmp, starts, stored, raced>>
  BY DEF Die
<1> HIDE DEF x
<1>3. cut' \subseteq Names
  <2>1. StateOK(proc[p])
    BY DEF StoreInv
  <2>2. proc[p].phase = "flush" => Target(proc[p]) \in Names
    BY <2>1, WriterFacts DEF WritePhases
  <2> QED BY <2>2 DEF Die, StoreInv, BookOK
<1>4. FilesOK' /\ BookOK'
  BY <1>2, <1>3 DEF StoreInv, FilesOK, FilesHoldTheirTicker, BookOK
<1>5. QED
  BY <1>1, <1>2, <1>4, MoveOK DEF StateOK, Syncing, Writing, WritePhases

-----------------------------------------------------------------------------
(* The tickers apart *)

LEMMA StoreInvHolds == Spec => []StoreInv
<1>1. Init => StoreInv
  <2> SUFFICES ASSUME Init PROVE StoreInv
    OBVIOUS
  <2>1. Idle \in ProcType /\ Idle.phase = "idle"
    BY IdleTyped DEF Idle
  <2>2. StateOK(Idle)
    BY <2>1 DEF StateOK, Syncing, Writing, WritePhases
  <2>3. proc = [p \in Procs |-> Idle]
    BY DEF Init
  <2>4. FilesOK /\ BookOK
    BY MarketConstants DEF Init, FilesOK, BookOK, FilesHoldTheirTicker, NoFile, NoTmp
  <2> QED BY <2>1, <2>2, <2>3, <2>4 DEF StoreInv
<1>2. StoreInv /\ [Next]_vars => StoreInv'
  <2> SUFFICES ASSUME StoreInv, [Next]_vars PROVE StoreInv'
    OBVIOUS
  <2>1. CASE UNCHANGED vars
    BY <2>1 DEF vars, StoreInv, FilesOK, BookOK, FilesHoldTheirTicker
  <2>2. ASSUME NEW p \in Procs, Begin(p) \/ Step(p) \/ Answer(p) \/ Die(p)
        PROVE  StoreInv'
    BY <2>2, BeginKeeps, AnswerKeeps, DieKeeps, LookKeeps, SendKeeps, ReceiveKeeps, TimeoutKeeps,
       ReadOldKeeps, TruncateKeeps, FlushKeeps, UpdateManifestKeeps, ReplaceKeeps, ServeKeeps
       DEF Step
  <2> QED BY <2>1, <2>2 DEF Next
<1>3. QED
  BY <1>1, <1>2, PTL DEF Spec

\* Type correctness of the store, its manifest and every process.
THEOREM TypeCorrect == Spec => []TypeOK
<1>1. StoreInv => TypeOK
  <2> SUFFICES ASSUME StoreInv PROVE TypeOK
    OBVIOUS
  <2>1. \A p \in Procs :
        /\ proc[p].attempt \in 0 .. MaxRetries /\ proc[p].i \in 1 .. Len(Tickers)
        /\ proc[p].got \subseteq Bars /\ proc[p].served \subseteq Bars
        /\ proc[p].old \subseteq Bars /\ proc[p].new \subseteq Bars
    BY DEF StoreInv, StateOK, ProcType, Attempts, Places
  <2>2. FilesOK /\ BookOK
    BY DEF StoreInv
  <2>3. \A t \in Names :
            /\ file[t].state \in {"none", "torn", "good"} /\ file[t].bars \subseteq Bars
            /\ file[t].state = "good" <=> file[t].bars # {}
            /\ stored[t] \subseteq Bars
    <3> SUFFICES ASSUME NEW t \in Names
                 PROVE  /\ file[t].state \in {"none", "torn", "good"} /\ file[t].bars \subseteq Bars
                        /\ file[t].state = "good" <=> file[t].bars # {}
                        /\ stored[t] \subseteq Bars
      OBVIOUS
    <3>1. file[t] \in [state : {"none", "torn", "good"}, bars : SUBSET Bars]
      BY <2>2 DEF FilesOK
    <3>2. stored[t] \in SUBSET Bars
      BY <2>2 DEF FilesOK
    <3>3. file[t].state = "good" <=> file[t].bars # {}
      BY <2>2, Zenon DEF FilesOK
    <3> QED BY <3>1, <3>2, <3>3
  <2> QED BY <2>1, <2>2, <2>3 DEF TypeOK, BookOK
<1>2. QED
  BY <1>1, StoreInvHolds, PTL

\* No bar is ever stored under another ticker (barstore.py:70-85,
\* bloomberg_desktop.py:185-190): a late answer dies with its session.
THEOREM TickersApart == Spec => []FilesHoldTheirTicker
<1>1. StoreInv => FilesHoldTheirTicker
  BY DEF StoreInv, FilesOK
<1>2. QED
  BY <1>1, StoreInvHolds, PTL

-----------------------------------------------------------------------------
(* The stored days *)

Rewrites(s, t) == s.phase = "flush" /\ Target(s) = t

\* But for races: what can be read is all that was stored, a file is open for
\* one process only, which holds what was stored, and without a death a file is
\* torn only while it is open.
Kept(t) ==
    /\ file[t].state # "torn" => file[t].bars = stored[t]
    /\ \A p \in Procs : Rewrites(proc[p], t) => file[t].state = "torn" /\ stored[t] = proc[p].old
    /\ \A p, q \in Procs : Rewrites(proc[p], t) /\ Rewrites(proc[q], t) => p = q
    /\ file[t].state = "torn" /\ t \notin cut => \E p \in Procs : Rewrites(proc[p], t)

KeptInv == \A t \in Names \ raced : Kept(t)

\* The phase a process comes to.
LEMMA PhaseAfter ==
    /\ \A s, phase : Over(s, phase).phase = phase
    /\ \A s \in ProcType : FetchFailed(s).phase \in {"send", "done", "raised"}
    /\ \A s \in ProcType : Fetched(s).phase \in {"send", "done", "raised", "write"}
    /\ \A s \in ProcType : Written(s).phase \in {"send", "done", "raised", "write", "serve"}
<1>1. ASSUME NEW s, NEW phase PROVE Over(s, phase).phase = phase
  BY DEF Over, Idle
<1>2. ASSUME NEW s \in ProcType PROVE NextTicker(s).phase \in {"send", "done"}
  BY <1>1 DEF NextTicker, ProcType
<1>3. ASSUME NEW s \in ProcType PROVE FetchFailed(s).phase \in {"send", "done", "raised"}
  BY <1>1, <1>2 DEF FetchFailed, Raise
<1>4. ASSUME NEW s \in ProcType
      PROVE  Fetched(s).phase \in {"send", "done", "raised", "write"}
  BY <1>3 DEF Fetched, ProcType
<1>5. ASSUME NEW s \in ProcType
      PROVE  Written(s).phase \in {"send", "done", "raised", "write", "serve"}
  <2> DEFINE clean == [s EXCEPT !.to_write = s.to_write \ {Target(s)}, !.old = {}, !.new = {}]
  <2>1. clean \in ProcType
    BY DEF ProcType
  <2>2. /\ NextTicker(clean).phase \in {"send", "done"} /\ Raise(s).phase = "raised"
        /\ [clean EXCEPT !.phase = "write"].phase = "write"
        /\ [clean EXCEPT !.phase = "serve", !.i = 1, !.got = {}, !.missing = <<>>].phase = "serve"
    <3>1. /\ [clean EXCEPT !.phase = "write"].phase = "write"
          /\ [clean EXCEPT !.phase = "serve", !.i = 1, !.got = {}, !.missing = <<>>].phase = "serve"
      BY <2>1 DEF ProcType
    <3> QED BY <1>1, <1>2, <2>1, <3>1 DEF Raise
  <2> HIDE DEF clean
  <2> QED BY <2>2 DEF Written, clean
<1>6. QED
  BY <1>1, <1>3, <1>4, <1>5

LEMMA LookedPhase ==
    ASSUME NEW s \in ProcType, s.phase = "look",
           NEW i \in 1 .. Len(Tickers) + 1, NEW missing
    PROVE  Looked([s EXCEPT !.i = i, !.missing = missing]).phase \in {"look", "send", "serve", "done"}
<1> DEFINE y == [s EXCEPT !.i = i, !.missing = missing]
           sending == [y EXCEPT !.phase = "send", !.rest = y.missing, !.i = 1,
                                !.missing = IF y.kind = "read" THEN @ ELSE <<>>]
           serving == [y EXCEPT !.phase = "serve", !.i = 1]
<1>1. y.i = i /\ y.missing = missing /\ y.phase = "look"
  BY DEF ProcType
<1>2. sending.phase = "send" /\ serving.phase = "serve"
  BY DEF ProcType
<1>3. Over(y, "done").phase = "done"
  BY PhaseAfter
<1>4. Len(Tickers) \in Nat
  BY TickersTyped
<1>5. \/ i <= Len(Tickers) /\ Looked(y) = y
      \/ i > Len(Tickers) /\ missing # <<>> /\ Looked(y) = sending
      \/ i > Len(Tickers) /\ missing = <<>> /\ Looked(y) = IF y.kind = "read" THEN serving
                                                              ELSE Over(y, "done")
  <2> HIDE DEF y
  <2>1. i <= Len(Tickers) \/ i > Len(Tickers)
    BY <1>4
  <2>2. CASE i <= Len(Tickers)
    <3>1. ~(i > Len(Tickers))
      BY <1>4, <2>2
    <3> QED BY <1>1, <2>2, <3>1 DEF Looked
  <2>3. CASE i > Len(Tickers)
    <3>1. ~(i <= Len(Tickers))
      BY <1>4, <2>3
    <3> QED BY <1>1, <2>3, <3>1 DEF Looked
  <2> QED BY <2>1, <2>2, <2>3
<1> HIDE DEF y, sending, serving
<1>6. Looked(y).phase \in {"look", "send", "serve", "done"}
  BY <1>1, <1>2, <1>3, <1>5
<1>7. QED
  BY <1>6 DEF y

\* A step of a process that neither opens a file, nor writes, nor dies.
LEMMA KeptMove ==
    ASSUME KeptInv, StoreInv, NEW p \in Procs, NEW x, Becomes(p, x),
           UNCHANGED <<file, stored, cut, raced>>,
           x.phase = "flush" <=> proc[p].phase = "flush",
           x.phase = "flush" => x.old = proc[p].old /\ x.to_write = proc[p].to_write
    PROVE  KeptInv'
<1>1. \A q \in Procs : proc'[q] = IF q = p THEN x ELSE proc[q]
  BY DEF StoreInv, Becomes
<1>2. ASSUME NEW t \in Names
      PROVE  \A q \in Procs : /\ Rewrites(proc'[q], t) <=> Rewrites(proc[q], t)
                              /\ Rewrites(proc[q], t) => proc'[q].old = proc[q].old
  BY <1>1, SameTarget DEF Rewrites
<1>3. QED
  BY <1>2 DEF KeptInv, Kept

\* Opening a file that is as it was read: it is torn, and open for this process.
LEMMA KeptTruncate == ASSUME KeptInv, StoreInv, NEW p \in Procs, Truncate(p) PROVE KeptInv'
<1> DEFINE s == proc[p]
           x == [s EXCEPT !.phase = "flush"]
<1>1. s \in ProcType /\ StateOK(s) /\ s.phase = "truncate" /\ s.phase \in WritePhases
  BY DEF StoreInv, StateOK, Truncate, WritePhases
<1>2. PICK u \in Names : u = Target(s)
  BY <1>1, WriterFacts
<1>3. /\ x.phase = "flush" /\ x.old = s.old /\ Target(x) = u
  <2>1. x.phase = "flush" /\ x.old = s.old /\ x.to_write = s.to_write
    BY <1>1 DEF ProcType
  <2> HIDE DEF x
  <2> QED BY <1>2, <2>1, SameTarget
<1>4. Becomes(p, x)
  BY DEF Truncate
<1> HIDE DEF x
<1>5. \A q \in Procs : proc'[q] = IF q = p THEN x ELSE proc[q]
  BY <1>4 DEF StoreInv, Becomes
<1>6. /\ stored' = stored /\ cut' = cut /\ raced \subseteq raced'
      /\ u \in raced' \/ (file[u].state # "torn" /\ file[u].bars = s.old)
  BY <1>2 DEF Truncate
<1>7. \A t \in Names : file'[t] = IF t = u THEN [state |-> "torn", bars |-> {}] ELSE file[t]
  BY <1>2 DEF Truncate, StoreInv, FilesOK
<1>8. \A t \in Names : ~Rewrites(s, t)
  BY <1>1 DEF Rewrites
<1>9. \A t \in Names : Rewrites(x, t) <=> t = u
  BY <1>3 DEF Rewrites
<1>10. ASSUME NEW t \in Names \ raced', t # u PROVE Kept(t)'
  <2>1. Kept(t)
    BY <1>6, <1>10 DEF KeptInv
  <2>2. \A q \in Procs : /\ Rewrites(proc'[q], t) <=> Rewrites(proc[q], t)
                         /\ Rewrites(proc[q], t) => proc'[q].old = proc[q].old
    BY <1>5, <1>8, <1>9, <1>10
  <2> QED BY <1>6, <1>7, <1>10, <2>1, <2>2 DEF Kept
<1>11. ASSUME u \notin raced' PROVE Kept(u)'
  <2>1. Kept(u) /\ file[u].state # "torn" /\ file[u].bars = s.old
    BY <1>2, <1>6, <1>11 DEF KeptInv
  <2>2. \A q \in Procs : ~Rewrites(proc[q], u)
    BY <2>1 DEF Kept
  <2>3. \A q \in Procs : Rewrites(proc'[q], u) <=> q = p
    BY <1>2, <1>5, <1>9, <2>2
  <2>4. stored[u] = x.old
    BY <1>3, <2>1 DEF Kept
  <2>5. file'[u].state = "torn"
    BY <1>2, <1>7
  <2> QED BY <1>5, <1>6, <2>3, <2>4, <2>5 DEF Kept
<1>12. QED
  BY <1>10, <1>11 DEF KeptInv

\* Writing a file that nobody wrote meanwhile: it holds all that was stored.
LEMMA KeptFlush == ASSUME KeptInv, StoreInv, NEW p \in Procs, Flush(p) PROVE KeptInv'
<1> DEFINE s == proc[p]
           x == [s EXCEPT !.phase = "manifest"]
<1>1. s \in ProcType /\ StateOK(s) /\ s.phase = "flush" /\ s.phase \in WritePhases
  BY DEF StoreInv, StateOK, Flush, WritePhases
<1>2. PICK u \in Names : u = Target(s)
  BY <1>1, WriterFacts
<1>3. x.phase = "manifest"
  BY <1>1 DEF ProcType
<1>4. Becomes(p, x)
  BY DEF Flush
<1> HIDE DEF x
<1>5. \A q \in Procs : proc'[q] = IF q = p THEN x ELSE proc[q]
  BY <1>4 DEF StoreInv, Becomes
<1>6. cut' = cut /\ raced \subseteq raced'
  BY DEF Flush
<1>7. \A t \in Names :
        /\ file'[t] = IF t = u THEN [state |-> "good", bars |-> s.new] ELSE file[t]
        /\ stored'[t] = IF t = u THEN stored[t] \cup s.new ELSE stored[t]
  BY <1>2 DEF Flush, StoreInv, FilesOK
<1>8. \A t \in Names : ~Rewrites(x, t) /\ (Rewrites(s, t) <=> t = u)
  BY <1>1, <1>2, <1>3 DEF Rewrites
<1>9. ASSUME NEW t \in Names \ raced', t # u PROVE Kept(t)'
  <2>1. Kept(t)
    BY <1>6, <1>9 DEF KeptInv
  <2>2. \A q \in Procs : /\ Rewrites(proc'[q], t) <=> Rewrites(proc[q], t)
                         /\ Rewrites(proc[q], t) => proc'[q].old = proc[q].old
    BY <1>5, <1>8, <1>9
  <2> QED BY <1>6, <1>7, <1>9, <2>1, <2>2 DEF Kept
<1>10. ASSUME u \notin raced' PROVE Kept(u)'
  <2>1. Kept(u)
    BY <1>2, <1>6, <1>10 DEF KeptInv
  <2>2. stored[u] = s.old /\ \A q \in Procs : Rewrites(proc[q], u) => q = p
    BY <1>8, <2>1, <1>2 DEF Kept
  <2>3. \A q \in Procs : ~Rewrites(proc'[q], u)
    BY <1>2, <1>5, <1>8, <2>2
  <2>4. /\ file'[u].state = "good" /\ file'[u].bars = s.new
        /\ stored'[u] = s.new
    <3>1. s.old \subseteq s.new
      BY <1>1 DEF StateOK, Writing
    <3> QED BY <1>2, <1>7, <2>2, <3>1
  <2> QED BY <2>3, <2>4 DEF Kept
<1>11. QED
  BY <1>9, <1>10 DEF KeptInv

\* A death leaves an open file torn, and is remembered.
LEMMA KeptDie == ASSUME KeptInv, StoreInv, NEW p \in Procs, Die(p) PROVE KeptInv'
<1> DEFINE x == [Idle EXCEPT !.phase = "dead"]
<1>1. x.phase = "dead" /\ Becomes(p, x)
  BY DEF Die, Idle
<1> HIDE DEF x
<1>2. \A q \in Procs : proc'[q] = IF q = p THEN x ELSE proc[q]
  BY <1>1 DEF StoreInv, Becomes
<1>3. /\ file' = file /\ stored' = stored /\ raced' = raced
      /\ cut' = IF proc[p].phase = "flush" THEN cut \cup {Target(proc[p])} ELSE cut
  BY DEF Die
<1>4. ASSUME NEW t \in Names \ raced PROVE Kept(t)'
  <2>1. Kept(t)
    BY DEF KeptInv
  <2>2. \A q \in Procs : Rewrites(proc'[q], t) =>
            q # p /\ Rewrites(proc[q], t) /\ proc'[q].old = proc[q].old
    BY <1>1, <1>2 DEF Rewrites
  <2>3. \A q \in Procs : Rewrites(proc[q], t) => Rewrites(proc'[q], t) \/ t \in cut'
    BY <1>2, <1>3 DEF Rewrites
  <2>4. file[t].state = "torn" /\ t \notin cut' => \E q \in Procs : Rewrites(proc'[q], t)
    BY <1>3, <2>1, <2>3 DEF Kept
  <2> QED BY <1>3, <2>1, <2>2, <2>4 DEF Kept
<1>5. QED
  BY <1>3, <1>4 DEF KeptInv

LEMMA KeptNext == ASSUME KeptInv, StoreInv, [Next]_vars PROVE KeptInv'
<1>1. CASE UNCHANGED vars
  BY <1>1 DEF vars, KeptInv, Kept
<1>2. ASSUME NEW p \in Procs, Begin(p) PROVE KeptInv'
  <2>1. PICK kind \in {"read", "sync"}, w \in Windows :
            Becomes(p, [Idle EXCEPT !.phase = "look", !.kind = kind, !.win = w])
    BY <1>2 DEF Begin
  <2> DEFINE x == [Idle EXCEPT !.phase = "look", !.kind = kind, !.win = w]
  <2>2. x.phase = "look" /\ Becomes(p, x)
    BY <2>1 DEF Idle
  <2> HIDE DEF x
  <2>3. proc[p].phase # "flush" /\ UNCHANGED <<file, stored, cut, raced>>
    BY <1>2 DEF Begin, Disk, History
  <2> QED BY <2>2, <2>3, KeptMove
<1>3. ASSUME NEW p \in Procs,
             Look(p) \/ Send(p) \/ Receive(p) \/ Timeout(p) \/ ReadOld(p) \/ UpdateManifest(p)
             \/ Replace(p) \/ Serve(p)
      PROVE  KeptInv'
  <2> DEFINE s == proc[p]
  <2>1. s \in ProcType /\ StateOK(s)
    BY DEF StoreInv, StateOK
  <2>2. s.phase # "flush" /\ UNCHANGED <<file, stored, cut, raced>>
    BY <1>3 DEF Look, Send, Receive, Timeout, ReadOld, UpdateManifest, Replace, Serve, Disk, History
  <2>3. \E x : Becomes(p, x) /\ x.phase # "flush"
    <3>1. CASE Look(p)
      <4> DEFINE miss == LET t == Tickers[s.i]
                         IN  file[t].state = "none" \/ ~Covers(file[t].bars, s.win)
                 missing == IF miss THEN Append(s.missing, Tickers[s.i]) ELSE s.missing
      <4>1. \/ Becomes(p, Raise(s))
            \/ Becomes(p, Looked([s EXCEPT !.i = s.i + 1, !.missing = missing]))
        BY <3>1 DEF Look
      <4>2. s.phase = "look" /\ s.i + 1 \in 1 .. Len(Tickers) + 1
        BY <2>1, <3>1, TickersTyped DEF Look, ProcType, Places
      <4> HIDE DEF missing, s
      <4>3. /\ Looked([s EXCEPT !.i = s.i + 1, !.missing = missing]).phase
                  \in {"look", "send", "serve", "done"}
            /\ Raise(s).phase = "raised"
        BY <2>1, <4>2, LookedPhase, PhaseAfter DEF Raise
      <4> QED BY <4>1, <4>3
    <3>2. CASE Send(p)
      <4>1. PICK pending : \/ Becomes(p, [s EXCEPT !.phase = "recv", !.open = TRUE,
                                                   !.pending = pending])
                           \/ Becomes(p, FetchFailed(s))
        BY <3>2 DEF Send
      <4>2. [s EXCEPT !.phase = "recv", !.open = TRUE, !.pending = pending].phase = "recv"
        BY <2>1 DEF ProcType
      <4> HIDE DEF s
      <4> QED BY <2>1, <4>1, <4>2, PhaseAfter
    <3>3. CASE Receive(p)
      <4> DEFINE event == Head(s.queue)
                 taken == [s EXCEPT !.queue = Tail(@), !.part = @ \cup event.bars,
                                    !.partial = @ \/ event.error]
                 whole == [taken EXCEPT !.got = @ \cup taken.part, !.part = {},
                                        !.rest = IF s.kind = "sync" THEN @ ELSE AfterChunk(s)]
      <4>1. Becomes(p, IF ~event.last THEN taken ELSE Fetched(whole)) /\ s.phase = "recv"
        BY <3>3 DEF Receive
      <4>2. taken.phase = "recv"
        BY <2>1, <4>1 DEF ProcType
      <4>3. whole \in ProcType
        <5>1. s.queue # <<>>
          BY <3>3 DEF Receive
        <5>2. event \in Event /\ Tail(s.queue) \in Events
          BY <2>1, <5>1, HeadIsFirst, HeadTailProperties DEF ProcType, Events
        <5>3. AfterChunk(s) \in Lists
          BY <2>1, ChunkTyped
        <5> HIDE DEF event
        <5> QED BY <2>1, <5>2, <5>3 DEF ProcType, Event
      <4>4. Fetched(whole).phase # "flush"
        <5> HIDE DEF whole
        <5> QED BY <4>3, PhaseAfter
      <4> HIDE DEF taken, whole
      <4> QED BY <4>1, <4>2, <4>4
    <3>4. CASE Timeout(p)
      <4>1. Becomes(p, IF s.attempt >= MaxRetries THEN FetchFailed(Dropped(s))
                       ELSE [Dropped(s) EXCEPT !.phase = "send", !.attempt = @ + 1])
        BY <3>4 DEF Timeout
      <4>2. Dropped(s) \in ProcType
        BY <2>1, FieldsTyped DEF Dropped, ProcType
      <4>3. [Dropped(s) EXCEPT !.phase = "send", !.attempt = @ + 1].phase = "send"
        BY <4>2 DEF ProcType
      <4>4. FetchFailed(Dropped(s)).phase # "flush"
        BY <4>2, PhaseAfter
      <4> HIDE DEF s
      <4> QED BY <4>1, <4>3, <4>4
    <3>5. CASE ReadOld(p)
      <4>1. PICK old, new : \/ Becomes(p, Raise(s))
                            \/ Becomes(p, [s EXCEPT !.phase = "truncate", !.old = old, !.new = new])
        BY <3>5 DEF ReadOld
      <4>2. [s EXCEPT !.phase = "truncate", !.old = old, !.new = new].phase = "truncate"
        BY <2>1 DEF ProcType
      <4>3. Raise(s).phase = "raised"
        BY PhaseAfter DEF Raise
      <4> HIDE DEF s
      <4> QED BY <4>1, <4>2, <4>3
    <3>6. CASE UpdateManifest(p)
      <4>1. Becomes(p, [s EXCEPT !.phase = "replace"]) /\ [s EXCEPT !.phase = "replace"].phase = "replace"
        BY <2>1, <3>6 DEF UpdateManifest, ProcType
      <4> HIDE DEF s
      <4> QED BY <4>1
    <3>7. CASE Replace(p)
      <4>1. Becomes(p, Written(s)) \/ Becomes(p, Raise(s))
        BY <3>7 DEF Replace
      <4>2. Written(s).phase # "flush" /\ Raise(s).phase # "flush"
        BY <2>1, PhaseAfter DEF Raise
      <4> QED BY <4>1, <4>2
    <3>8. CASE Serve(p)
      <4>1. PICK served : LET x == [s EXCEPT !.i = s.i + 1, !.served = served]
                          IN  Becomes(p, Raise(s)) \/ Becomes(p, Over(x, "done")) \/ Becomes(p, x)
        BY <3>8 DEF Serve
      <4> DEFINE x == [s EXCEPT !.i = s.i + 1, !.served = served]
      <4>2. x.phase = s.phase
        BY <2>1 DEF ProcType
      <4>3. Over(x, "done").phase = "done" /\ Raise(s).phase = "raised"
        BY PhaseAfter DEF Raise
      <4>4. Becomes(p, Raise(s)) \/ Becomes(p, Over(x, "done")) \/ Becomes(p, x)
        BY <4>1
      <4> HIDE DEF x
      <4> QED BY <2>2, <4>2, <4>3, <4>4
    <3> QED BY <1>3, <3>1, <3>2, <3>3, <3>4, <3>5, <3>6, <3>7, <3>8
  <2> QED BY <2>2, <2>3, KeptMove
<1>4. ASSUME NEW p \in Procs, Answer(p) PROVE KeptInv'
  <2>1. PICK pending, queue : Becomes(p, [proc[p] EXCEPT !.pending = pending, !.queue = queue])
    BY <1>4 DEF Answer
  <2> DEFINE x == [proc[p] EXCEPT !.pending = pending, !.queue = queue]
  <2>2. x.phase = proc[p].phase /\ x.old = proc[p].old /\ x.to_write = proc[p].to_write
    BY DEF StoreInv, ProcType
  <2>3. Becomes(p, x)
    BY <2>1
  <2> HIDE DEF x
  <2>4. UNCHANGED <<file, stored, cut, raced>>
    BY <1>4 DEF Answer, Disk, History
  <2> QED BY <2>2, <2>3, <2>4, KeptMove
<1>5. QED
  BY <1>1, <1>2, <1>3, <1>4, KeptTruncate, KeptFlush, KeptDie DEF Next, Step

LEMMA KeptInvHolds == Spec => []KeptInv
<1>1. Init => KeptInv
  <2> SUFFICES ASSUME Init PROVE KeptInv
    OBVIOUS
  <2>1. \A p \in Procs, t \in Names : ~Rewrites(proc[p], t)
    BY DEF Init, Idle, Rewrites
  <2>2. \A t \in Names : file[t].state = "none" /\ file[t].bars = stored[t]
    BY DEF Init, NoFile
  <2> QED BY <2>1, <2>2 DEF KeptInv, Kept
<1>2. QED
  BY <1>1, KeptNext, StoreInvHolds, PTL DEF Spec

\* What was ever stored for a ticker is in its file or in the hands of the one
\* process that rewrites it (barstore.py:76-87), unless a process died rewriting
\* the file or overwrote what it had not read.
THEOREM OnlyDeathsAndRacesLose == Spec => []StoredDaysKept
<1>1. StoreInv /\ KeptInv => StoredDaysKept
  <2> SUFFICES ASSUME StoreInv, KeptInv, NEW t \in Names \ (raced \cup cut)
               PROVE  \/ stored[t] \subseteq file[t].bars
                      \/ \E p \in Procs : /\ proc[p].phase = "flush" /\ Target(proc[p]) = t
                                          /\ stored[t] \subseteq proc[p].new
    BY DEF StoredDaysKept
  <2>1. Kept(t)
    BY DEF KeptInv
  <2>2. CASE file[t].state = "torn"
    <3>1. PICK p \in Procs : Rewrites(proc[p], t)
      BY <2>1, <2>2 DEF Kept
    <3>2. stored[t] = proc[p].old /\ proc[p].old \subseteq proc[p].new
      BY <2>1, <3>1 DEF Kept, Rewrites, StoreInv, StateOK, Writing
    <3> QED BY <3>1, <3>2 DEF Rewrites
  <2>3. CASE file[t].state # "torn"
    BY <2>1, <2>3 DEF Kept
  <2> QED BY <2>2, <2>3
<1>2. QED
  BY <1>1, StoreInvHolds, KeptInvHolds, PTL

-----------------------------------------------------------------------------
(* What a read knows of the files *)

\* Bars hold every day of the window the terminal has for the ticker.
Complete(bars, w, t) == \A d \in Vendor[t] : d \in w.from .. w.to => [ticker |-> t, day |-> d] \in bars

\* Every missing day is between two stored ones.
Inside(s, t, files) ==
    \A d \in Unserved(s, t) : \E a, b \in Days(files[t]) : a < d /\ d < b

\* The tickers that were not found missing have the ends of the window.
Found(s, files, race) ==
    \A t \in Names \ (ToSet(s.missing) \cup race) : Covers(files[t], s.win)

\* The chunks before brought everything, or an error.
Collected(s) ==
    s.partial \/ \A t \in ToSet(s.missing) \ ToSet(s.rest) : Complete(s.got, s.win, t)

\* The securities of the chunk are received, queued or pending, in its order,
\* and only the last of them is marked as the last.
Answering(s) ==
    LET c == Chunk(s)
        n == Len(c)
        k == Len(s.pending)
        m == Len(s.queue)
    IN  /\ k + m \in 1 .. n
        /\ \A j \in 1 .. k : /\ s.pending[j].ticker = c[n - k + j]
                             /\ s.pending[j].last <=> j = k
        /\ \A j \in 1 .. m : /\ s.queue[j].last <=> k = 0 /\ j = m
                             /\ ~s.queue[j].error =>
                                    Complete(s.queue[j].bars, s.win, c[n - k - m + j])
        /\ ~s.partial => \A j \in 1 .. n - k - m : Complete(s.part, s.win, c[j])

\* What was received is in the files, but for the tickers still to be written.
Stored(s, files, race) ==
    /\ \A b \in s.got : b.ticker \notin s.to_write \cup race => b \in files[b.ticker]
    /\ s.phase \in {"truncate", "flush"} => \A b \in s.got : b.ticker = Target(s) => b \in s.new
    /\ s.phase \in {"manifest", "replace"} => \A b \in s.got :
            b.ticker = Target(s) /\ b.ticker \notin race => b \in files[b.ticker]

\* The tickers before the i-th.
Before(i) == {Tickers[j] : j \in {j \in Places : j < i}}

Reading(s, files, race) ==
    s.kind = "read" =>
    /\ s.phase = "look" =>
        /\ Quiet(s)
        /\ \A t \in Before(s.i) \ (ToSet(s.missing) \cup race) : Covers(files[t], s.win)
    /\ s.phase \in {"send", "recv"} => s.rest # <<>> /\ Collected(s) /\ Found(s, files, race)
    /\ s.phase = "send" => Quiet(s)
    /\ s.phase = "recv" => Answering(s)
    /\ s.phase \in WritePhases =>
        s.rest = <<>> /\ Collected(s) /\ Found(s, files, race) /\ Stored(s, files, race)
    /\ s.phase = "serve" =>
        /\ \A t \in Names \ race : s.partial \/ Covers(files[t], s.win)
                                             \/ Complete(files[t], s.win, t)
        /\ \A t \in Before(s.i) \ race : s.partial \/ Inside(s, t, files)
    /\ s.phase = "done" => \A t \in Names \ race : s.partial \/ Inside(s, t, files)

ReadsInv == \A p \in Procs : Reading(proc[p], stored, raced)

-----------------------------------------------------------------------------
(* What a file covers stays covered *)

LEMMA DaysTyped ==
    /\ \A w \in AnyWindow : w.from \in Int /\ w.to \in Int
    /\ \A t \in Names : Vendor[t] \subseteq Int
    /\ \A b \in Bars : b.day \in Int
<1>1. \A w \in AnyWindow : w.from \in Int /\ w.to \in Int
  <2>1. \A w \in Windows : w.from \in Int /\ w.to \in Int
    BY DayAssumption
  <2> QED BY <2>1 DEF AnyWindow
<1>2. Names \subseteq DOMAIN Vendor
  <2>1. \A i \in 1 .. Len(Tickers) : Tickers[i] \in DOMAIN Vendor
    BY MarketAssumption, ElementOfSeq
  <2> QED BY <2>1, TickersTyped
<1>3. \A t \in Names : Vendor[t] \subseteq Int
  BY <1>2, DayAssumption
<1>4. \A b \in Bars : b.day \in Int
  BY <1>3 DEF Bars
<1>5. QED
  BY <1>1, <1>3, <1>4

LEMMA CoversMore ==
    ASSUME NEW bars, NEW more, bars \subseteq more, NEW w, Covers(bars, w)
    PROVE  Covers(more, w)
<1>1. Days(bars) \subseteq Days(more)
  BY DEF Days
<1>2. QED
  BY <1>1 DEF Covers

LEMMA CompleteMore ==
    ASSUME NEW bars, NEW more, bars \subseteq more, NEW w, NEW t, Complete(bars, w, t)
    PROVE  Complete(more, w, t)
  BY DEF Complete

LEMMA InsideMore ==
    ASSUME NEW s, NEW t, NEW files, NEW grown, files[t] \subseteq grown[t],
           Inside(s, t, files)
    PROVE  Inside(s, t, grown)
<1>1. Days(files[t]) \subseteq Days(grown[t])
  BY DEF Days
<1>2. QED
  BY <1>1 DEF Inside

\* Read and stored to both ends of the window: what is missing is inside.
LEMMA EndsEnclose ==
    ASSUME NEW s, s.win \in AnyWindow, NEW t \in Names, NEW files,
           files[t] \subseteq Bars, OfTicker(files[t], t),
           In(s.win, files[t]) \subseteq s.served,
           Covers(files[t], s.win) \/ Complete(files[t], s.win, t)
    PROVE  Inside(s, t, files)
<1> DEFINE bars == files[t]
           from == s.win.from
           to == s.win.to
<1> SUFFICES ASSUME NEW d \in Unserved(s, t)
             PROVE  \E a, b \in Days(bars) : a < d /\ d < b
  BY DEF Inside
<1>1. from \in Int /\ to \in Int /\ d \in Int /\ StartSlack \in Nat /\ EndSlack \in Nat
  BY DaysTyped, MarketConstants DEF Unserved
<1>2. /\ d \in Vendor[t] /\ d \in from + StartSlack .. to - EndSlack
      /\ [ticker |-> t, day |-> d] \notin s.served
  BY DEF Unserved
<1>3. d \in from .. to
  BY <1>1, <1>2
<1>4. [ticker |-> t, day |-> d] \notin bars
  BY <1>2, <1>3 DEF In
<1>5. d \notin Days(bars)
  <2> SUFFICES ASSUME NEW b \in bars, b.day = d PROVE FALSE
    BY DEF Days
  <2>1. b \in Bars /\ b.ticker = t
    BY DEF OfTicker
  <2>2. b = [ticker |-> b.ticker, day |-> b.day]
    BY <2>1 DEF Bars
  <2> QED BY <1>4, <2>1, <2>2
<1>6. Covers(bars, s.win)
  BY <1>2, <1>3, <1>4 DEF Complete
<1>7. PICK a \in Days(bars), b \in Days(bars) : a <= from + StartSlack /\ b >= to - EndSlack
  BY <1>6 DEF Covers
<1>8. a \in Int /\ b \in Int
  BY DaysTyped DEF Days
<1>9. a # d /\ b # d
  BY <1>5
<1> HIDE DEF from, to, bars
<1>10. a < d /\ d < b
  BY <1>1, <1>2, <1>7, <1>8, <1>9
<1>11. QED
  BY <1>10

\* What a read knows stays true: what was ever stored only grows.
LEMMA ReadingStays ==
    ASSUME NEW s, StateOK(s), NEW files, NEW race, Reading(s, files, race),
           NEW grown, NEW wider, race \subseteq wider,
           \A t \in Names : files[t] \subseteq grown[t]
    PROVE  Reading(s, grown, wider)
<1>1. s \in ProcType /\ Syncing(s) /\ Writing(s)
  BY DEF StateOK
<1> SUFFICES ASSUME s.kind = "read" PROVE Reading(s, grown, wider)
  BY DEF Reading
<1>2. \A t \in Names \ wider : files[t] \subseteq grown[t] /\ t \notin race
  OBVIOUS
<1>3. \A t \in Names \ wider : Covers(files[t], s.win) => Covers(grown[t], s.win)
  BY <1>2, CoversMore
<1>4. \A t \in Names \ wider :
        Complete(files[t], s.win, t) => Complete(grown[t], s.win, t)
  BY <1>2, CompleteMore
<1>5. \A t \in Names \ wider : Inside(s, t, files) => Inside(s, t, grown)
  BY <1>2, InsideMore
<1>6. Found(s, files, race) => Found(s, grown, wider)
  BY <1>2, <1>3 DEF Found
<1>7. Stored(s, files, race) => Stored(s, grown, wider)
  <2>1. \A b \in s.got : b.ticker \in Names
    BY <1>1, BarsOfNames DEF ProcType
  <2>2. \A b \in s.got : b.ticker \notin wider /\ b \in files[b.ticker] => b \in grown[b.ticker]
    BY <1>2, <2>1
  <2>3. \A b \in s.got : b.ticker \notin wider => b.ticker \notin race
    OBVIOUS
  <2> QED BY <2>2, <2>3 DEF Stored
<1>8. Before(s.i) \subseteq Names
  BY TickersTyped DEF Before, Places
<1>9. QED
  BY <1>2, <1>3, <1>4, <1>5, <1>6, <1>7, <1>8 DEF Reading

-----------------------------------------------------------------------------
(* Every step keeps what the reads know *)

\* A sync stays a sync, and what is over knows nothing.
LEMMA KindKept ==
    ASSUME NEW s \in ProcType
    PROVE  /\ \A phase : Over(s, phase).kind = s.kind
           /\ FetchFailed(s).kind = s.kind
           /\ Fetched(s).kind = s.kind /\ Written(s).kind = s.kind
<1>1. \A x \in ProcType : \A phase : Over(x, phase).kind = x.kind
  BY DEF Over, Idle
<1>2. \A x \in ProcType : x.kind = "sync" => NextTicker(x).kind = "sync"
  <2> SUFFICES ASSUME NEW x \in ProcType, x.kind = "sync" PROVE NextTicker(x).kind = "sync"
    OBVIOUS
  <2>1. CASE Tail(x.rest) = <<>>
    BY <1>1, <2>1 DEF NextTicker
  <2>2. CASE Tail(x.rest) # <<>>
    BY <2>2 DEF NextTicker, ProcType
  <2> QED BY <2>1, <2>2
<1>3. \A x \in ProcType : FetchFailed(x).kind = x.kind
  BY <1>1, <1>2 DEF FetchFailed, Raise, ProcType
<1>4. Fetched(s).kind = s.kind
  <2>1. CASE s.kind = "read" /\ s.rest # <<>>
    BY <2>1 DEF Fetched, ProcType
  <2>2. CASE ~ (s.kind = "read" /\ s.rest # <<>>) /\ s.got = {}
    BY <1>3, <2>2 DEF Fetched
  <2>3. CASE ~ (s.kind = "read" /\ s.rest # <<>>) /\ s.got # {}
    <3> DEFINE tickers == IF s.kind = "sync" THEN {Head(s.rest)} ELSE {b.ticker : b \in s.got}
    <3>1. Fetched(s) = [s EXCEPT !.phase = "write", !.to_write = tickers]
      BY <2>3 DEF Fetched
    <3> HIDE DEF tickers
    <3> QED BY <3>1 DEF ProcType
  <2> QED BY <2>1, <2>2, <2>3
<1>5. Written(s).kind = s.kind
  <2> DEFINE left == s.to_write \ {Target(s)}
             clean == [s EXCEPT !.to_write = left, !.old = {}, !.new = {}]
  <2>1. clean \in ProcType /\ clean.kind = s.kind
    <3>1. left \in SUBSET Names
      BY DEF ProcType
    <3> HIDE DEF left
    <3> QED BY <3>1, FieldsTyped DEF ProcType
  <2>2. \/ s.kind = "sync" /\ Written(s) = NextTicker(clean)
        \/ Written(s) = Raise(s)
        \/ Written(s) = [clean EXCEPT !.phase = "write"]
        \/ Written(s) = [clean EXCEPT !.phase = "serve", !.i = 1, !.got = {}, !.missing = <<>>]
    BY DEF Written
  <2> HIDE DEF clean
  <2>3. /\ [clean EXCEPT !.phase = "write"].kind = s.kind
        /\ [clean EXCEPT !.phase = "serve", !.i = 1, !.got = {}, !.missing = <<>>].kind = s.kind
    BY <2>1 DEF ProcType
  <2>4. Raise(s).kind = s.kind
    BY <1>1 DEF Raise
  <2>5. s.kind = "sync" => NextTicker(clean).kind = s.kind
    BY <1>2, <2>1
  <2> QED BY <2>2, <2>3, <2>4, <2>5
<1>6. QED
  BY <1>1, <1>3, <1>4, <1>5

LEMMA LookedKind ==
    ASSUME NEW s \in ProcType, s.kind = "sync",
           NEW i \in 1 .. Len(Tickers) + 1, NEW missing
    PROVE  Looked([s EXCEPT !.i = i, !.missing = missing]).kind = "sync"
<1> DEFINE y == [s EXCEPT !.i = i, !.missing = missing]
<1>1. y.i = i /\ y.missing = missing /\ y.kind = "sync"
  BY DEF ProcType
<1>2. [y EXCEPT !.phase = "send", !.rest = y.missing, !.i = 1,
                !.missing = IF y.kind = "read" THEN @ ELSE <<>>].kind = "sync"
  BY DEF ProcType
<1>3. Over(y, "done").kind = "sync"
  BY <1>1 DEF Over, Idle
<1> HIDE DEF y
<1> SUFFICES Looked(y).kind = "sync"
  BY DEF y
<1>4. CASE i <= Len(Tickers)
  <2>1. Looked(y) = y
    BY <1>1, <1>4, TickersTyped DEF Looked
  <2> QED BY <1>1, <2>1
<1>5. CASE i > Len(Tickers) /\ missing # <<>>
  BY <1>1, <1>2, <1>5, TickersTyped DEF Looked
<1>6. CASE i > Len(Tickers) /\ missing = <<>>
  BY <1>1, <1>3, <1>6, TickersTyped DEF Looked
<1>7. QED
  BY <1>4, <1>5, <1>6, TickersTyped

LEMMA SyncKnows ==
    ASSUME NEW s, NEW files, NEW race,
           s.kind = "sync" \/ s.phase \in {"idle", "raised", "dead"}
    PROVE  Reading(s, files, race)
  BY DEF Reading, WritePhases

LEMMA RaiseKnows ==
    ASSUME NEW s \in ProcType, NEW files, NEW race
    PROVE  Reading(Raise(s), files, race)
<1>1. Raise(s).phase = "raised"
  BY DEF Raise, Over, Idle
<1>2. QED
  BY <1>1, SyncKnows

LEMMA BeforeStep ==
    /\ Before(1) = {} /\ Before(Len(Tickers) + 1) = Names
    /\ \A i \in Places : Before(i + 1) = Before(i) \cup {Tickers[i]}
    /\ \A i \in Places : Before(i) \subseteq Names
  BY TickersTyped DEF Before, Places

LEMMA ToSetOf ==
    ASSUME NEW S, NEW q \in Seq(S)
    PROVE  /\ ToSet(q) = {q[i] : i \in 1 .. Len(q)} /\ ToSet(<<>>) = {}
           /\ \A e \in S : ToSet(Append(q, e)) = ToSet(q) \cup {e}
<1>1. Len(q) \in Nat /\ DOMAIN q = 1 .. Len(q)
  BY LenProperties
<1>2. \A e \in S : /\ DOMAIN Append(q, e) = 1 .. Len(q) + 1
                   /\ Append(q, e)[Len(q) + 1] = e
                   /\ \A i \in 1 .. Len(q) : Append(q, e)[i] = q[i]
  <2> SUFFICES ASSUME NEW e \in S
               PROVE  /\ DOMAIN Append(q, e) = 1 .. Len(q) + 1
                      /\ Append(q, e)[Len(q) + 1] = e
                      /\ \A i \in 1 .. Len(q) : Append(q, e)[i] = q[i]
    OBVIOUS
  <2>1. Append(q, e) \in Seq(S) /\ Len(Append(q, e)) = Len(q) + 1
    BY AppendProperties
  <2> QED BY <2>1, AppendProperties, LenProperties
<1>3. ToSet(<<>>) = {}
  BY DEF ToSet
<1>4. \A e \in S : ToSet(Append(q, e)) = ToSet(q) \cup {e}
  <2> SUFFICES ASSUME NEW e \in S PROVE ToSet(Append(q, e)) = ToSet(q) \cup {e}
    OBVIOUS
  <2> DEFINE n == Len(q)
             a == Append(q, e)
  <2>1. n \in Nat /\ DOMAIN q = 1 .. n /\ DOMAIN a = 1 .. n + 1
    BY <1>1, <1>2
  <2>2. a[n + 1] = e /\ \A i \in 1 .. n : a[i] = q[i]
    BY <1>2
  <2> HIDE DEF n, a
  <2>3. ToSet(a) = ToSet(q) \cup {e}
    BY <2>1, <2>2 DEF ToSet
  <2> QED BY <2>3 DEF a
<1>5. QED
  BY <1>1, <1>3, <1>4 DEF ToSet

\* What a process that goes on knows, after a step that leaves the disk alone.
LEMMA BeginReads ==
    ASSUME StoreInv, NEW p \in Procs, Begin(p)
    PROVE  \E x : Becomes(p, x) /\ Reading(x, stored, raced)
<1>1. PICK kind \in {"read", "sync"}, w \in Windows :
        Becomes(p, [Idle EXCEPT !.phase = "look", !.kind = kind, !.win = w])
  BY DEF Begin
<1> DEFINE x == [Idle EXCEPT !.phase = "look", !.kind = kind, !.win = w]
<1>2. x.phase = "look" /\ x.i = 1 /\ Quiet(x)
  BY DEF Idle, Quiet
<1>3. Becomes(p, x)
  BY <1>1
<1> HIDE DEF x
<1>4. Reading(x, stored, raced)
  BY <1>2, BeforeStep DEF Reading, WritePhases
<1>5. QED
  BY <1>3, <1>4

LEMMA LookReads ==
    ASSUME StoreInv, ReadsInv, NEW p \in Procs, Look(p)
    PROVE  \E x : Becomes(p, x) /\ Reading(x, stored, raced)
<1> DEFINE s == proc[p]
           t == Tickers[s.i]
           miss == file[t].state = "none" \/ ~Covers(file[t].bars, s.win)
           missing == IF miss THEN Append(s.missing, t) ELSE s.missing
           y == [s EXCEPT !.i = s.i + 1, !.missing = missing]
<1>1. s \in ProcType /\ s.phase = "look" /\ Reading(s, stored, raced)
  BY DEF StoreInv, StateOK, Look, ReadsInv
<1>2. CASE file[t].state = "torn"
  <2>1. Becomes(p, Raise(s))
    BY <1>2 DEF Look
  <2> QED BY <1>1, <2>1, RaiseKnows
<1>3. CASE file[t].state # "torn"
  <2>1. Becomes(p, Looked(y))
    BY <1>3 DEF Look
  <2>2. s.i \in Places /\ t \in Names /\ s.missing \in Seq(Names)
    BY <1>1, TickersTyped DEF ProcType, Places, Lists
  <2>3. /\ missing \in Seq(Names)
        /\ ToSet(missing) = IF miss THEN ToSet(s.missing) \cup {t} ELSE ToSet(s.missing)
    <3>1. /\ Append(s.missing, t) \in Seq(Names)
          /\ ToSet(Append(s.missing, t)) = ToSet(s.missing) \cup {t}
      BY <2>2, ToSetOf, AppendProperties
    <3> HIDE DEF miss
    <3> QED BY <2>2, <3>1
  <2>4. ~miss => Covers(stored[t], s.win)
    <3>1. file[t].bars \subseteq stored[t]
      BY <2>2 DEF StoreInv, FilesOK
    <3> QED BY <3>1, CoversMore
  <2> HIDE DEF miss
  <2>5. /\ y.i = s.i + 1 /\ y.missing = missing /\ y.kind = s.kind /\ y.phase = "look"
        /\ y.win = s.win /\ y.rest = s.rest
        /\ y.pending = s.pending /\ y.queue = s.queue /\ y.part = s.part
    BY <1>1 DEF ProcType
  <2>6. CASE s.kind = "sync"
    <3>1. Looked(y).kind = "sync"
      <4>1. s.i + 1 \in 1 .. Len(Tickers) + 1
        BY <2>2, TickersTyped DEF Places
      <4> QED BY <1>1, <2>6, <4>1, LookedKind
    <3> QED BY <2>1, <3>1, SyncKnows
  <2>7. CASE s.kind = "read"
    <3>1. Quiet(s) /\ \A u \in Before(s.i) \ (ToSet(s.missing) \cup raced) :
                          Covers(stored[u], s.win)
      BY <1>1, <2>7 DEF Reading
    <3>2. \A u \in Before(y.i) \ (ToSet(y.missing) \cup raced) : Covers(stored[u], y.win)
      <4> HIDE DEF t
      <4>1. Before(y.i) = Before(s.i) \cup {t}
        BY <2>2, <2>5, BeforeStep DEF t
      <4> HIDE DEF y, missing
      <4> QED BY <2>3, <2>4, <2>5, <3>1, <4>1
    <3>3. Quiet(y)
      BY <2>5, <3>1 DEF Quiet
    <3>4. CASE y.i <= Len(Tickers)
      <4>1. Looked(y) = y
        <5>1. y.i > Len(Tickers) <=> FALSE
          BY <2>2, <2>5, <3>4, TickersTyped DEF Places
        <5> HIDE DEF y
        <5> QED BY <3>4, <5>1 DEF Looked
      <4> HIDE DEF y
      <4> QED BY <2>1, <2>5, <3>2, <3>3, <4>1 DEF Reading, WritePhases
    <3>5. CASE y.i > Len(Tickers)
      <4>1. Before(y.i) = Names
        <5>1. y.i = Len(Tickers) + 1
          BY <2>2, <2>5, <3>5, TickersTyped DEF Places
        <5> QED BY <5>1, BeforeStep
      <4>2. Found(y, stored, raced)
        <5> HIDE DEF y
        <5> QED BY <3>2, <4>1 DEF Found
      <4>3. CASE missing # <<>>
        <5> DEFINE z == [y EXCEPT !.phase = "send", !.rest = missing, !.i = 1]
        <5>1. Looked(y) = z
          <6>1. Looked(y) = [y EXCEPT !.phase = "send", !.rest = y.missing, !.i = 1,
                                      !.missing = IF y.kind = "read" THEN @ ELSE <<>>]
            BY <2>5, <3>5, <4>3, TickersTyped DEF Looked
          <6>2. [y EXCEPT !.phase = "send", !.rest = y.missing, !.i = 1,
                          !.missing = IF y.kind = "read" THEN @ ELSE <<>>] = z
            BY <1>1, <2>5, <2>7 DEF ProcType
          <6> QED BY <6>1, <6>2
        <5>2. /\ z.phase = "send" /\ z.kind = "read" /\ z.rest = missing /\ z.missing = missing
              /\ z.win = y.win /\ z.pending = y.pending /\ z.queue = y.queue /\ z.part = y.part
          BY <1>1, <2>7 DEF ProcType
        <5> HIDE DEF z, y, missing
        <5>3. Quiet(z) /\ Collected(z) /\ Found(z, stored, raced)
          BY <2>5, <3>3, <4>2, <5>2 DEF Quiet, Collected, Found
        <5>4. Reading(z, stored, raced)
          BY <4>3, <5>2, <5>3 DEF Reading, WritePhases
        <5> QED BY <2>1, <5>1, <5>4
      <4>4. CASE missing = <<>>
        <5> DEFINE z == [y EXCEPT !.phase = "serve", !.i = 1]
        <5>1. Looked(y) = z
          BY <2>5, <2>7, <3>5, <4>4, TickersTyped DEF Looked
        <5>2. z.phase = "serve" /\ z.i = 1 /\ z.win = y.win
          BY <1>1 DEF ProcType
        <5>3. ToSet(y.missing) = {}
          BY <2>2, <2>5, <4>4, ToSetOf
        <5> HIDE DEF z, y, missing
        <5>4. Reading(z, stored, raced)
          BY <4>2, <5>2, <5>3, BeforeStep DEF Reading, WritePhases, Found
        <5> QED BY <2>1, <5>1, <5>4
      <4> QED BY <4>3, <4>4
    <3>6. y.i <= Len(Tickers) \/ y.i > Len(Tickers)
      BY <2>2, <2>5, TickersTyped DEF Places
    <3> QED BY <3>4, <3>5, <3>6
  <2> QED BY <1>1, <2>6, <2>7 DEF ProcType
<1>4. QED
  BY <1>2, <1>3

\* The chunk is the first securities that are left.
LEMMA ChunkIsFirst ==
    ASSUME NEW s \in ProcType
    PROVE  /\ Len(Chunk(s)) \in 0 .. Len(s.rest) /\ Len(s.rest) \in Nat
           /\ s.rest # <<>> => Len(Chunk(s)) > 0
           /\ DOMAIN Chunk(s) = 1 .. Len(Chunk(s))
           /\ \A k \in 1 .. Len(Chunk(s)) : Chunk(s)[k] \in Names
           /\ ToSet(s.rest) \subseteq ToSet(Chunk(s)) \cup ToSet(AfterChunk(s))
<1> DEFINE size == IF s.kind = "sync" THEN 1 ELSE MaxChunk
           n == IF size < Len(s.rest) THEN size ELSE Len(s.rest)
           l == Len(s.rest)
<1>1. s.rest \in Seq(Names) /\ l \in Nat /\ size \in Nat \ {0} /\ DOMAIN s.rest = 1 .. l
  BY MarketConstants, LenProperties DEF ProcType, Lists
<1>2. n \in 0 .. l /\ Chunk(s) = SubSeq(s.rest, 1, n) /\ (l # 0 => n > 0)
  BY <1>1 DEF Chunk
<1> HIDE DEF n, l
<1>3. \A k \in 1 .. l : s.rest[k] \in Names
  BY <1>1, ElementOfSeq DEF l
<1>4. Chunk(s) \in Seq(Names) /\ Len(Chunk(s)) = n /\ \A k \in 1 .. n : Chunk(s)[k] = s.rest[k]
  <2>1. SubSeq(s.rest, 1, n) \in Seq(Names) /\ Len(SubSeq(s.rest, 1, n)) = n
    BY <1>1, <1>2, SubSeqProperties DEF l
  <2>2. \A k \in 1 .. n : SubSeq(s.rest, 1, n)[k] = s.rest[k]
    BY <1>1, <1>2, <1>3, SubSeqProperties DEF l
  <2> QED BY <1>2, <2>1, <2>2
<1>5. /\ AfterChunk(s) = SubSeq(s.rest, n + 1, l) /\ Len(AfterChunk(s)) = l - n
      /\ AfterChunk(s) \in Seq(Names)
      /\ \A k \in 1 .. l - n : AfterChunk(s)[k] = s.rest[n + k]
  <2>1. AfterChunk(s) = SubSeq(s.rest, n + 1, l)
    BY <1>4 DEF AfterChunk, l
  <2>2. \A k \in (n + 1) .. l : s.rest[k] \in Names
    BY <1>1, <1>2, <1>3
  <2>3. SubSeq(s.rest, n + 1, l) \in Seq(Names)
    BY <1>1, <1>2, <2>2, SubSeqProperties DEF l
  <2>4. Len(SubSeq(s.rest, n + 1, l)) = l - n
    BY <1>1, <1>2, <2>2, SubSeqProperties DEF l
  <2>5. \A k \in 1 .. l - n : SubSeq(s.rest, n + 1, l)[k] = s.rest[n + k]
    BY <1>1, <1>2, <2>2, SubSeqProperties DEF l
  <2> QED BY <2>1, <2>3, <2>4, <2>5
<1>6. DOMAIN Chunk(s) = 1 .. n /\ DOMAIN AfterChunk(s) = 1 .. l - n
  BY <1>4, <1>5, LenProperties
<1>7. ToSet(s.rest) \subseteq ToSet(Chunk(s)) \cup ToSet(AfterChunk(s))
  <2> SUFFICES ASSUME NEW k \in 1 .. l
               PROVE  s.rest[k] \in ToSet(Chunk(s)) \cup ToSet(AfterChunk(s))
    BY <1>1 DEF ToSet
  <2>1. CASE k <= n
    <3>1. k \in 1 .. n
      BY <1>1, <1>2, <2>1
    <3>2. Chunk(s)[k] \in ToSet(Chunk(s))
      BY <1>6, <3>1 DEF ToSet
    <3> QED BY <1>4, <3>1, <3>2
  <2>2. CASE k > n
    <3>1. k - n \in 1 .. l - n /\ n + (k - n) = k
      BY <1>1, <1>2, <2>2
    <3> QED BY <1>5, <1>6, <3>1 DEF ToSet
  <2> QED BY <1>1, <1>2, <2>1, <2>2
<1>8. s.rest # <<>> => l # 0
  BY <1>1, EmptySeq DEF l
<1>9. QED
  BY <1>1, <1>2, <1>3, <1>4, <1>6, <1>7, <1>8 DEF l

LEMMA SendReads ==
    ASSUME StoreInv, ReadsInv, NEW p \in Procs, Send(p)
    PROVE  \E x : Becomes(p, x) /\ Reading(x, stored, raced)
<1> DEFINE s == proc[p]
           n == Len(Chunk(s))
           asked == [k \in DOMAIN Chunk(s) |-> [ticker |-> Chunk(s)[k], last |-> k = n]]
           x == [s EXCEPT !.phase = "recv", !.open = TRUE, !.pending = s.pending \o asked]
<1>1. s \in ProcType /\ s.phase = "send" /\ Reading(s, stored, raced)
  BY DEF StoreInv, StateOK, Send, ReadsInv
<1>2. x.kind = s.kind
  BY <1>1 DEF ProcType
<1>3. CASE s.kind = "sync"
  <2>1. \/ Becomes(p, FetchFailed(s)) /\ FetchFailed(s).kind = "sync"
        \/ Becomes(p, x) /\ x.kind = "sync"
    BY <1>1, <1>2, <1>3, KindKept DEF Send
  <2> QED BY <2>1, SyncKnows
<1>4. CASE s.kind = "read"
  <2>1. CASE Becomes(p, FetchFailed(s))
    <3>1. FetchFailed(s) = Raise(s)
      BY <1>4 DEF FetchFailed
    <3> QED BY <1>1, <2>1, <3>1, RaiseKnows
  <2>2. CASE Becomes(p, x)
    <3>1. /\ s.rest # <<>> /\ Collected(s) /\ Found(s, stored, raced)
          /\ s.pending = <<>> /\ s.queue = <<>> /\ s.part = {}
      BY <1>1, <1>4 DEF Reading, Quiet
    <3>2. /\ n \in Nat /\ n > 0 /\ DOMAIN Chunk(s) = 1 .. n
          /\ \A k \in 1 .. n : Chunk(s)[k] \in Names
      BY <1>1, <3>1, ChunkIsFirst
    <3>3. asked \in [1 .. n -> Asked]
      <4> SUFFICES ASSUME NEW k \in 1 .. n
                   PROVE  [ticker |-> Chunk(s)[k], last |-> k = n] \in Asked
        BY <3>2
      <4>1. (k = n) \in BOOLEAN /\ Chunk(s)[k] \in Names
        BY <3>2
      <4> QED BY <4>1 DEF Asked
    <3>4. \A k \in 1 .. n : asked[k].ticker = Chunk(s)[k] /\ (asked[k].last <=> k = n)
      BY <3>2
    <3> HIDE DEF asked
    <3>5. asked \in Seq(Asked) /\ Len(asked) = n
      <4>1. asked \in Seq(Asked)
        BY <3>2, <3>3, SeqDef
      <4>2. DOMAIN asked = 1 .. n /\ DOMAIN asked = 1 .. Len(asked) /\ Len(asked) \in Nat
        BY <3>3, <4>1, LenProperties
      <4> QED BY <3>2, <4>1, <4>2
    <3>6. s.pending \o asked = asked
      BY <3>1, <3>5, ConcatEmptySeq
    <3> DEFINE y == [s EXCEPT !.phase = "recv", !.open = TRUE, !.pending = asked]
    <3>7. x = y
      BY <3>6
    <3>8. /\ y.phase = "recv" /\ y.kind = "read" /\ y.pending = asked /\ y.queue = <<>>
          /\ y.part = {} /\ y.got = s.got /\ y.rest = s.rest /\ y.missing = s.missing
          /\ y.win = s.win /\ y.partial = s.partial
      BY <1>1, <1>4, <3>1 DEF ProcType
    <3> HIDE DEF x, y
    <3>9. Chunk(y) = Chunk(s)
      BY <1>4, <3>8 DEF Chunk
    <3>10. Answering(y)
      <4> DEFINE k == Len(y.pending)
                 m == Len(y.queue)
      <4>1. k = n /\ m = 0 /\ Len(Chunk(y)) = n
        BY <3>5, <3>8, <3>9
      <4>2. \A j \in 1 .. n : n - n + j = j
        BY <3>2
      <4> QED BY <3>2, <3>4, <3>8, <3>9, <4>1, <4>2 DEF Answering
    <3>11. Collected(y) /\ Found(y, stored, raced)
      BY <3>1, <3>8 DEF Collected, Found
    <3>12. Reading(y, stored, raced)
      BY <3>1, <3>8, <3>10, <3>11 DEF Reading, WritePhases
    <3> QED BY <2>2, <3>7, <3>12
  <2> QED BY <2>1, <2>2 DEF Send
<1>5. QED
  BY <1>1, <1>3, <1>4 DEF ProcType

LEMMA AnswerReads ==
    ASSUME StoreInv, ReadsInv, NEW p \in Procs, Answer(p)
    PROVE  \E x : Becomes(p, x) /\ Reading(x, stored, raced)
<1> DEFINE s == proc[p]
           asked == Head(s.pending)
           all == In(s.win, {b \in Bars : b.ticker = asked.ticker})
           pending == Tail(s.pending)
<1>1. s \in ProcType /\ s.pending # <<>> /\ Reading(s, stored, raced)
  BY DEF StoreInv, StateOK, Answer, ReadsInv
<1>2. PICK bars \in {all, {}, {b \in all : \E c \in all : c.day > b.day}} :
        Becomes(p, [s EXCEPT !.pending = pending,
          !.queue = Append(s.queue, [bars |-> bars, error |-> bars # all, last |-> asked.last])])
  BY DEF Answer
<1> DEFINE e == [bars |-> bars, error |-> bars # all, last |-> asked.last]
           queue == Append(s.queue, e)
           x == [s EXCEPT !.pending = pending, !.queue = queue]
<1>3. Becomes(p, x)
  BY <1>2
<1>4. e.bars = bars /\ e.last = asked.last /\ (~e.error => bars = all)
  OBVIOUS
<1>5. s.pending \in Seq(Asked) /\ s.queue \in Seq(Event)
  BY <1>1 DEF ProcType, Requests, Events
<1>6. asked \in Asked /\ asked = s.pending[1]
  BY <1>1, <1>5, HeadIsFirst
<1>7. Complete(all, s.win, asked.ticker)
  <2> SUFFICES ASSUME NEW d \in Vendor[asked.ticker], d \in s.win.from .. s.win.to
               PROVE  [ticker |-> asked.ticker, day |-> d] \in all
    BY DEF Complete
  <2>1. asked.ticker \in Names
    BY <1>6 DEF Asked
  <2>2. [ticker |-> asked.ticker, day |-> d] \in Bars
    BY <2>1 DEF Bars
  <2> QED BY <2>2 DEF In
<1>8. e \in Event
  <2>1. bars \in SUBSET Bars
    <3>1. all \subseteq Bars
      BY DEF In
    <3> HIDE DEF all
    <3> QED BY <3>1
  <2>2. (bars # all) \in BOOLEAN /\ asked.last \in BOOLEAN
    BY <1>6 DEF Asked
  <2> HIDE DEF all
  <2> QED BY <2>1, <2>2 DEF Event
<1> HIDE DEF e, all
<1> DEFINE k == Len(s.pending)
           m == Len(s.queue)
<1>9. /\ k \in Nat \ {0} /\ m \in Nat /\ pending \in Seq(Asked) /\ Len(pending) = k - 1
      /\ \A j \in 1 .. k - 1 : pending[j] = s.pending[j + 1]
  <2>1. k \in Nat /\ m \in Nat /\ k # 0
    BY <1>1, <1>5, LenProperties, EmptySeq
  <2>2. pending \in Seq(Asked) /\ Len(pending) = k - 1
    BY <1>1, <1>5, HeadTailProperties
  <2>3. \A j \in 1 .. Len(pending) : pending[j] = s.pending[j + 1]
    BY <1>1, <1>5, HeadTailProperties
  <2> QED BY <2>1, <2>2, <2>3
<1>10. /\ queue \in Seq(Event) /\ Len(queue) = m + 1 /\ queue[m + 1] = e
       /\ \A j \in 1 .. m : queue[j] = s.queue[j]
  BY <1>5, <1>8, AppendProperties
<1> HIDE DEF queue, pending
<1>11. /\ x.phase = s.phase /\ x.kind = s.kind /\ x.win = s.win /\ x.i = s.i
       /\ x.missing = s.missing /\ x.rest = s.rest /\ x.part = s.part /\ x.got = s.got
       /\ x.partial = s.partial /\ x.to_write = s.to_write /\ x.new = s.new
       /\ x.served = s.served /\ x.pending = pending /\ x.queue = queue
  BY <1>1 DEF ProcType
<1> HIDE DEF x
<1>12. CASE s.kind = "sync"
  BY <1>3, <1>11, <1>12, SyncKnows
<1>13. CASE s.kind = "read"
  <2>1. s.phase \notin {"look", "send"}
    BY <1>1, <1>13 DEF Reading, Quiet
  <2>2. /\ Collected(s) => Collected(x)
        /\ Found(s, stored, raced) => Found(x, stored, raced)
        /\ Stored(s, stored, raced) => Stored(x, stored, raced)
        /\ \A t : Inside(s, t, stored) => Inside(x, t, stored)
    BY <1>11, SameTarget DEF Collected, Found, Stored, Inside, Unserved
  <2>3. Answering(s) => Answering(x)
    <3> SUFFICES ASSUME Answering(s) PROVE Answering(x)
      OBVIOUS
    <3> DEFINE c == Chunk(s)
               n == Len(c)
    <3>1. Chunk(x) = c
      BY <1>11 DEF Chunk
    <3>2. n \in Nat
      BY <1>1, ChunkIsFirst
    <3>3. /\ k + m \in 1 .. n
          /\ \A j \in 1 .. k : /\ s.pending[j].ticker = c[n - k + j]
                               /\ s.pending[j].last <=> j = k
          /\ \A j \in 1 .. m : /\ s.queue[j].last <=> k = 0 /\ j = m
                               /\ ~s.queue[j].error =>
                                      Complete(s.queue[j].bars, s.win, c[n - k - m + j])
          /\ ~s.partial => \A j \in 1 .. n - k - m : Complete(s.part, s.win, c[j])
      BY DEF Answering
    <3> HIDE DEF n, c, k, m
    <3>4. /\ (k - 1) + (m + 1) \in 1 .. n
          /\ n - (k - 1) - (m + 1) = n - k - m
      BY <1>9, <3>2, <3>3
    <3>5. \A j \in 1 .. k - 1 : /\ pending[j].ticker = c[n - (k - 1) + j]
                                /\ pending[j].last <=> j = k - 1
      <4> SUFFICES ASSUME NEW j \in 1 .. k - 1
                   PROVE  /\ pending[j].ticker = c[n - (k - 1) + j]
                          /\ pending[j].last <=> j = k - 1
        OBVIOUS
      <4>1. j + 1 \in 1 .. k /\ n - k + (j + 1) = n - (k - 1) + j /\ (j + 1 = k <=> j = k - 1)
        BY <1>9, <3>2
      <4>2. pending[j] = s.pending[j + 1]
        BY <1>9
      <4> QED BY <3>3, <4>1, <4>2
    <3>6. \A j \in 1 .. m + 1 : /\ queue[j].last <=> k - 1 = 0 /\ j = m + 1
                                /\ ~queue[j].error =>
                                     Complete(queue[j].bars, s.win, c[n - (k - 1) - (m + 1) + j])
      <4>1. ASSUME NEW j \in 1 .. m
            PROVE  /\ ~queue[j].last /\ ~ (k - 1 = 0 /\ j = m + 1)
                   /\ ~queue[j].error =>
                        Complete(queue[j].bars, s.win, c[n - (k - 1) - (m + 1) + j])
        <5>1. k # 0 /\ j # m + 1 /\ queue[j] = s.queue[j]
          BY <1>9, <1>10
        <5>2. n - (k - 1) - (m + 1) + j = n - k - m + j
          BY <1>9, <3>2
        <5> QED BY <3>3, <5>1, <5>2
      <4>2. /\ queue[m + 1].last <=> k - 1 = 0
            /\ ~queue[m + 1].error =>
                 Complete(queue[m + 1].bars, s.win, c[n - (k - 1) - (m + 1) + (m + 1)])
        <5>1. 1 \in 1 .. k /\ n - k + 1 = n - (k - 1) - (m + 1) + (m + 1) /\ (1 = k <=> k - 1 = 0)
          BY <1>9, <3>2
        <5>2. asked.ticker = c[n - k + 1] /\ (asked.last <=> 1 = k)
          BY <1>6, <3>3, <5>1
        <5> HIDE DEF asked
        <5> QED BY <1>4, <1>7, <1>10, <5>1, <5>2
      <4>3. \A j \in 1 .. m + 1 : j \in 1 .. m \/ j = m + 1
        BY <1>9
      <4> QED BY <4>1, <4>2, <4>3
    <3>7. Len(x.pending) = k - 1 /\ Len(x.queue) = m + 1 /\ Len(Chunk(x)) = n
      BY <1>9, <1>10, <1>11, <3>1 DEF n, c
    <3> QED BY <1>11, <3>1, <3>3, <3>4, <3>5, <3>6, <3>7 DEF Answering
  <2>4. Reading(x, stored, raced)
    BY <1>1, <1>11, <1>13, <2>1, <2>2, <2>3 DEF Reading, WritePhases
  <2> QED BY <1>3, <2>4
<1>14. QED
  BY <1>1, <1>12, <1>13 DEF ProcType

LEMMA TimeoutReads ==
    ASSUME StoreInv, ReadsInv, NEW p \in Procs, Timeout(p)
    PROVE  \E x : Becomes(p, x) /\ Reading(x, stored, raced)
<1> DEFINE s == proc[p]
           d == Dropped(s)
           x == [d EXCEPT !.phase = "send", !.attempt = s.attempt + 1]
<1>1. s \in ProcType /\ s.phase = "recv" /\ Reading(s, stored, raced)
  BY DEF StoreInv, StateOK, Timeout, ReadsInv
<1>2. d \in ProcType
  BY <1>1, FieldsTyped DEF ProcType, Dropped
<1>3. /\ d.kind = s.kind /\ d.rest = s.rest /\ d.got = s.got /\ d.attempt = s.attempt
      /\ d.missing = s.missing /\ d.win = s.win /\ d.partial = s.partial /\ Quiet(d)
  BY <1>1 DEF ProcType, Dropped, Quiet
<1>4. \/ Becomes(p, FetchFailed(d))
      \/ Becomes(p, [d EXCEPT !.phase = "send", !.attempt = @ + 1])
  BY DEF Timeout
<1> HIDE DEF d
<1>5. Becomes(p, FetchFailed(d)) \/ Becomes(p, x)
  BY <1>3, <1>4
<1>6. /\ x.phase = "send" /\ x.kind = s.kind /\ x.rest = s.rest /\ x.got = s.got
      /\ x.missing = s.missing /\ x.win = s.win /\ x.partial = s.partial /\ Quiet(x)
  BY <1>2, <1>3 DEF ProcType, Quiet
<1> HIDE DEF x
<1>7. CASE s.kind = "sync"
  <2>1. FetchFailed(d).kind = "sync" /\ x.kind = "sync"
    BY <1>2, <1>3, <1>6, <1>7, KindKept
  <2> QED BY <1>5, <2>1, SyncKnows
<1>8. CASE s.kind = "read"
  <2>1. Reading(FetchFailed(d), stored, raced)
    <3>1. FetchFailed(d) = Raise(d)
      BY <1>3, <1>8 DEF FetchFailed
    <3> QED BY <1>2, <3>1, RaiseKnows
  <2>2. s.rest # <<>> /\ Collected(s) /\ Found(s, stored, raced)
    BY <1>1, <1>8 DEF Reading
  <2>3. Collected(x) /\ Found(x, stored, raced)
    BY <1>6, <2>2 DEF Collected, Found
  <2>4. Reading(x, stored, raced)
    BY <1>6, <1>8, <2>2, <2>3 DEF Reading, WritePhases
  <2> QED BY <1>5, <2>1, <2>4
<1>9. QED
  BY <1>1, <1>7, <1>8 DEF ProcType

LEMMA ReceiveReads ==
    ASSUME StoreInv, ReadsInv, NEW p \in Procs, Receive(p)
    PROVE  \E x : Becomes(p, x) /\ Reading(x, stored, raced)
<1> DEFINE s == proc[p]
           event == Head(s.queue)
           queue == Tail(s.queue)
           part == s.part \cup event.bars
           partial == s.partial \/ event.error
           taken == [s EXCEPT !.queue = queue, !.part = part, !.partial = partial]
           rest == IF s.kind = "sync" THEN s.rest ELSE AfterChunk(s)
           y == [taken EXCEPT !.got = s.got \cup part, !.part = {}, !.rest = rest]
           k == Len(s.pending)
           m == Len(s.queue)
           c == Chunk(s)
           n == Len(c)
<1>1. s \in ProcType /\ s.phase = "recv" /\ s.queue # <<>> /\ Reading(s, stored, raced)
  BY DEF StoreInv, StateOK, Receive, ReadsInv
<1>2. s.queue \in Seq(Event) /\ s.pending \in Seq(Asked)
  BY <1>1 DEF ProcType, Events, Requests
<1>3. event \in Event /\ event = s.queue[1] /\ queue \in Events
  BY <1>1, <1>2, HeadIsFirst, HeadTailProperties DEF Events
<1>4. part \in SUBSET Bars /\ partial \in BOOLEAN
  BY <1>1, <1>3 DEF ProcType, Event
<1>5. /\ k \in Nat /\ m \in Nat \ {0} /\ n \in Nat /\ Len(queue) = m - 1
      /\ \A j \in 1 .. m - 1 : queue[j] = s.queue[j + 1]
      /\ k = 0 => s.pending = <<>>
      /\ m = 1 => queue = <<>>
  <2>1. k \in Nat /\ m \in Nat /\ m # 0 /\ n \in Nat /\ (k = 0 => s.pending = <<>>)
    BY <1>1, <1>2, LenProperties, EmptySeq, ChunkIsFirst
  <2>2. queue \in Seq(Event) /\ Len(queue) = m - 1
    BY <1>1, <1>2, HeadTailProperties
  <2>3. \A j \in 1 .. Len(queue) : queue[j] = s.queue[j + 1]
    BY <1>1, <1>2, HeadTailProperties
  <2>4. m = 1 => queue = <<>>
    BY <1>2, SingleTail
  <2> QED BY <2>1, <2>2, <2>3, <2>4
<1>6. rest \in Lists
  BY <1>1, ChunkTyped DEF ProcType
<1> HIDE DEF queue, part, partial, rest
<1>7. taken \in ProcType
  BY <1>1, <1>3, <1>4 DEF ProcType
<1>8. /\ taken.phase = "recv" /\ taken.kind = s.kind /\ taken.part = part /\ taken.got = s.got
      /\ taken.rest = s.rest /\ taken.pending = s.pending /\ taken.queue = queue
      /\ taken.missing = s.missing /\ taken.win = s.win /\ taken.partial = partial
  BY <1>1 DEF ProcType
<1>9. y \in ProcType
  <2>1. s.got \cup part \in SUBSET Bars
    BY <1>1, <1>4 DEF ProcType
  <2> HIDE DEF taken
  <2> QED BY <1>6, <1>7, <2>1, FieldsTyped DEF ProcType
<1>10. /\ y.phase = "recv" /\ y.kind = s.kind /\ y.part = {} /\ y.got = s.got \cup part
       /\ y.rest = rest /\ y.pending = s.pending /\ y.queue = queue
       /\ y.missing = s.missing /\ y.win = s.win /\ y.partial = partial
  <2> HIDE DEF taken
  <2> QED BY <1>7, <1>8 DEF ProcType
<1>11. IF ~event.last THEN Becomes(p, taken) ELSE Becomes(p, Fetched(y))
  <2>1. Becomes(p, IF ~event.last THEN taken
                   ELSE Fetched([taken EXCEPT !.got = @ \cup taken.part, !.part = {},
                                   !.rest = IF s.kind = "sync" THEN @ ELSE AfterChunk(s)]))
    BY DEF Receive, queue, part, partial
  <2>2. y = [taken EXCEPT !.got = @ \cup taken.part, !.part = {},
                          !.rest = IF s.kind = "sync" THEN @ ELSE AfterChunk(s)]
    <3> HIDE DEF taken
    <3> QED BY <1>7, <1>8 DEF ProcType, rest
  <2> HIDE DEF taken, y
  <2> QED BY <2>1, <2>2
<1> HIDE DEF taken, y
<1>12. CASE s.kind = "sync"
  <2>1. taken.kind = "sync" /\ Fetched(y).kind = "sync"
    BY <1>8, <1>9, <1>10, <1>12, KindKept
  <2> QED BY <1>11, <2>1, SyncKnows
<1>13. CASE s.kind = "read"
  <2>1. s.rest # <<>> /\ Collected(s) /\ Found(s, stored, raced) /\ Answering(s)
    BY <1>1, <1>13 DEF Reading
  <2>2. /\ k + m \in 1 .. n
        /\ \A j \in 1 .. k : /\ s.pending[j].ticker = c[n - k + j]
                             /\ s.pending[j].last <=> j = k
        /\ \A j \in 1 .. m : /\ s.queue[j].last <=> k = 0 /\ j = m
                             /\ ~s.queue[j].error =>
                                    Complete(s.queue[j].bars, s.win, c[n - k - m + j])
        /\ ~s.partial => \A j \in 1 .. n - k - m : Complete(s.part, s.win, c[j])
    BY <2>1 DEF Answering
  <2>3. DOMAIN c = 1 .. n
    BY <1>1, ChunkIsFirst
  <2> HIDE DEF k, m, n, c
  <2>4. ~partial => \A j \in 1 .. n - k - m + 1 : Complete(part, s.win, c[j])
    <3> SUFFICES ASSUME ~partial, NEW j \in 1 .. n - k - m + 1
                 PROVE  Complete(part, s.win, c[j])
      OBVIOUS
    <3>1. ~s.partial /\ ~event.error
      BY DEF partial
    <3>2. s.part \subseteq part /\ event.bars \subseteq part
      BY DEF part
    <3>3. CASE j \in 1 .. n - k - m
      <4>1. Complete(s.part, s.win, c[j])
        BY <2>2, <3>1, <3>3
      <4> QED BY <3>2, <4>1, CompleteMore
    <3>4. CASE j = n - k - m + 1
      <4>1. Complete(event.bars, s.win, c[j])
        <5>1. 1 \in 1 .. m
          BY <1>5
        <5> HIDE DEF event
        <5> QED BY <1>3, <2>2, <3>1, <3>4, <5>1
      <4> QED BY <3>2, <4>1, CompleteMore
    <3>5. j \in 1 .. n - k - m \/ j = n - k - m + 1
      BY <1>5
    <3> QED BY <3>3, <3>4, <3>5
  <2>5. event.last <=> k = 0 /\ m = 1
    <3>1. 1 \in 1 .. m
      BY <1>5
    <3> HIDE DEF event
    <3> QED BY <1>3, <2>2, <3>1
  <2>6. CASE ~event.last
    <3>1. Chunk(taken) = c
      BY <1>8 DEF Chunk, c
    <3>2. k + (m - 1) \in 1 .. n /\ n - k - (m - 1) = n - k - m + 1
      <4>1. ~ (k = 0 /\ m = 1)
        BY <2>5, <2>6
      <4> QED BY <1>5, <2>2, <4>1
    <3>3. \A j \in 1 .. m - 1 : /\ queue[j].last <=> k = 0 /\ j = m - 1
                                /\ ~queue[j].error =>
                                     Complete(queue[j].bars, s.win, c[n - k - (m - 1) + j])
      <4> SUFFICES ASSUME NEW j \in 1 .. m - 1
                   PROVE  /\ queue[j].last <=> k = 0 /\ j = m - 1
                          /\ ~queue[j].error =>
                               Complete(queue[j].bars, s.win, c[n - k - (m - 1) + j])
        OBVIOUS
      <4>1. /\ j + 1 \in 1 .. m /\ n - k - m + (j + 1) = n - k - (m - 1) + j
            /\ j + 1 = m <=> j = m - 1
        BY <1>5
      <4>2. queue[j] = s.queue[j + 1]
        BY <1>5
      <4> QED BY <2>2, <4>1, <4>2
    <3>4. Answering(taken)
      <4>1. Len(taken.pending) = k /\ Len(taken.queue) = m - 1 /\ Len(Chunk(taken)) = n
        BY <1>5, <1>8, <3>1 DEF k, n
      <4> QED BY <1>8, <2>2, <2>4, <3>1, <3>2, <3>3, <4>1 DEF Answering
    <3>5. Collected(taken) /\ Found(taken, stored, raced)
      <4>1. s.partial => partial
        BY DEF partial
      <4> QED BY <1>8, <2>1, <4>1 DEF Collected, Found
    <3>6. Reading(taken, stored, raced)
      BY <1>8, <2>1, <3>4, <3>5 DEF Reading, WritePhases
    <3> QED BY <1>11, <2>6, <3>6
  <2>7. CASE event.last
    <3>1. k = 0 /\ m = 1
      BY <2>5, <2>7
    <3>2. Quiet(y)
      BY <1>5, <1>10, <3>1 DEF Quiet
    <3>3. Found(y, stored, raced)
      BY <1>10, <2>1 DEF Found
    <3>4. Collected(y)
      <4> SUFFICES ASSUME ~partial, NEW t \in ToSet(s.missing) \ ToSet(rest)
                   PROVE  Complete(s.got \cup part, s.win, t)
        BY <1>10 DEF Collected
      <4>1. CASE t \notin ToSet(s.rest)
        <5>1. Complete(s.got, s.win, t)
          BY <2>1, <4>1 DEF Collected, partial
        <5> QED BY <5>1, CompleteMore
      <4>2. CASE t \in ToSet(s.rest)
        <5>1. t \in ToSet(c)
          BY <1>1, <1>13, <4>2, ChunkIsFirst DEF rest, c
        <5>2. PICK j \in 1 .. n : t = c[j]
          BY <2>3, <5>1 DEF ToSet
        <5>3. j \in 1 .. n - k - m + 1
          BY <1>5, <3>1
        <5>4. Complete(part, s.win, t)
          BY <2>4, <5>2, <5>3
        <5> QED BY <5>4, CompleteMore
      <4> QED BY <4>1, <4>2
    <3>5. CASE y.rest # <<>>
      <4> DEFINE z == [y EXCEPT !.phase = "send", !.attempt = 0]
      <4>1. Fetched(y) = z
        BY <1>10, <1>13, <3>5 DEF Fetched
      <4>2. /\ z.phase = "send" /\ z.kind = "read" /\ z.rest = y.rest /\ z.missing = y.missing
            /\ z.win = y.win /\ z.got = y.got /\ z.partial = y.partial
            /\ z.pending = y.pending /\ z.queue = y.queue /\ z.part = y.part
        BY <1>9, <1>10, <1>13 DEF ProcType
      <4> HIDE DEF z
      <4>3. Quiet(z) /\ Collected(z) /\ Found(z, stored, raced)
        BY <3>2, <3>3, <3>4, <4>2 DEF Quiet, Collected, Found
      <4>4. Reading(z, stored, raced)
        BY <3>5, <4>2, <4>3 DEF Reading, WritePhases
      <4> QED BY <1>11, <2>7, <4>1, <4>4
    <3>6. CASE y.rest = <<>> /\ y.got = {}
      <4>1. Fetched(y) = Raise(y)
        BY <1>10, <1>13, <3>6 DEF Fetched, FetchFailed
      <4> QED BY <1>9, <1>11, <2>7, <4>1, RaiseKnows
    <3>7. CASE y.rest = <<>> /\ y.got # {}
      <4> DEFINE tickers == {b.ticker : b \in y.got}
                 z == [y EXCEPT !.phase = "write", !.to_write = tickers]
      <4>1. Fetched(y) = z
        BY <1>10, <1>13, <3>7 DEF Fetched
      <4>2. \A b \in y.got : b.ticker \in tickers
        OBVIOUS
      <4> HIDE DEF tickers
      <4>3. /\ z.phase = "write" /\ z.kind = "read" /\ z.rest = y.rest /\ z.missing = y.missing
            /\ z.win = y.win /\ z.got = y.got /\ z.partial = y.partial /\ z.to_write = tickers
        BY <1>9, <1>10, <1>13 DEF ProcType
      <4> HIDE DEF z
      <4>4. Collected(z) /\ Found(z, stored, raced)
        BY <3>3, <3>4, <4>3 DEF Collected, Found
      <4>5. Stored(z, stored, raced)
        BY <4>2, <4>3 DEF Stored
      <4>6. Reading(z, stored, raced)
        BY <3>7, <4>3, <4>4, <4>5 DEF Reading, WritePhases
      <4> QED BY <1>11, <2>7, <4>1, <4>6
    <3> QED BY <3>5, <3>6, <3>7
  <2> QED BY <2>6, <2>7
<1>14. QED
  BY <1>1, <1>12, <1>13 DEF ProcType

LEMMA ReadOldReads ==
    ASSUME StoreInv, ReadsInv, NEW p \in Procs, ReadOld(p)
    PROVE  \E x : Becomes(p, x) /\ Reading(x, stored, raced)
<1> DEFINE s == proc[p]
           t == Target(s)
           fresh == IF s.kind = "sync" THEN s.got ELSE {b \in s.got : b.ticker = t}
           new == file[t].bars \cup fresh
           x == [s EXCEPT !.phase = "truncate", !.old = file[t].bars, !.new = new]
<1>1. s \in ProcType /\ s.phase = "write" /\ Reading(s, stored, raced)
  BY DEF StoreInv, StateOK, ReadOld, ReadsInv
<1>2. Becomes(p, Raise(s)) \/ Becomes(p, x)
  BY DEF ReadOld
<1>3. s.kind = "read" => \A b \in s.got : b.ticker = t => b \in new
  OBVIOUS
<1> HIDE DEF new
<1>4. /\ x.phase = "truncate" /\ x.kind = s.kind /\ x.rest = s.rest /\ x.missing = s.missing
      /\ x.win = s.win /\ x.got = s.got /\ x.partial = s.partial /\ x.to_write = s.to_write
      /\ x.new = new
  BY <1>1 DEF ProcType
<1> HIDE DEF x
<1>5. ASSUME s.kind = "read" PROVE Reading(x, stored, raced)
  <2>1. s.rest = <<>> /\ Collected(s) /\ Found(s, stored, raced) /\ Stored(s, stored, raced)
    BY <1>1, <1>5 DEF Reading, WritePhases
  <2>2. Collected(x) /\ Found(x, stored, raced)
    BY <1>4, <2>1 DEF Collected, Found
  <2>3. Stored(x, stored, raced)
    <3>1. Target(x) = t
      BY <1>4, SameTarget
    <3> HIDE DEF t
    <3> QED BY <1>3, <1>4, <1>5, <2>1, <3>1 DEF Stored
  <2> QED BY <1>4, <2>1, <2>2, <2>3 DEF Reading, WritePhases
<1>6. s.kind = "sync" => Reading(x, stored, raced)
  BY <1>4, SyncKnows
<1>7. QED
  BY <1>1, <1>2, <1>5, <1>6, RaiseKnows DEF ProcType

\* A step from one phase of the writing to the next.
LEMMA WriteOnReads ==
    ASSUME NEW s \in ProcType, NEW files, NEW race, Reading(s, files, race),
           s.phase \in WritePhases, NEW phase \in WritePhases,
           s.kind = "read" /\ phase \in {"truncate", "flush"} => s.phase = "truncate",
           s.kind = "read" /\ phase \in {"manifest", "replace"} =>
                \A b \in s.got : b.ticker = Target(s) /\ b.ticker \notin race =>
                                    b \in files[b.ticker]
    PROVE  Reading([s EXCEPT !.phase = phase], files, race)
<1> DEFINE x == [s EXCEPT !.phase = phase]
<1>1. /\ x.phase = phase /\ x.kind = s.kind /\ x.rest = s.rest /\ x.missing = s.missing
      /\ x.win = s.win /\ x.got = s.got /\ x.partial = s.partial /\ x.to_write = s.to_write
      /\ x.new = s.new
  BY DEF ProcType
<1> HIDE DEF x
<1> SUFFICES Reading(x, files, race)
  BY DEF x
<1>2. ASSUME s.kind = "read" PROVE Reading(x, files, race)
  <2>1. s.rest = <<>> /\ Collected(s) /\ Found(s, files, race) /\ Stored(s, files, race)
    BY <1>2 DEF Reading
  <2>2. Collected(x) /\ Found(x, files, race)
    BY <1>1, <2>1 DEF Collected, Found
  <2>3. Stored(x, files, race)
    <3>1. Target(x) = Target(s)
      BY <1>1, SameTarget
    <3> QED BY <1>1, <1>2, <2>1, <3>1 DEF Stored
  <2> QED BY <1>1, <2>1, <2>2, <2>3 DEF Reading, WritePhases
<1>3. s.kind = "sync" => Reading(x, files, race)
  BY <1>1, SyncKnows
<1>4. QED
  BY <1>2, <1>3 DEF ProcType

LEMMA RacedGrows == ASSUME [Next]_vars PROVE raced \subseteq raced'
<1>1. ASSUME NEW p \in Procs, Begin(p) \/ Step(p) \/ Answer(p) \/ Die(p), ~Truncate(p), ~Flush(p)
      PROVE  raced' = raced
  BY <1>1 DEF Begin, Step, Answer, Die, Look, Send, Receive, Timeout, ReadOld, UpdateManifest,
              Replace, Serve, Disk, History
<1>2. ASSUME NEW p \in Procs, Truncate(p) \/ Flush(p) PROVE raced \subseteq raced'
  BY <1>2 DEF Truncate, Flush
<1>3. QED
  BY <1>1, <1>2 DEF Next, vars

LEMMA StoredGrows ==
    ASSUME StoreInv, [Next]_vars PROVE \A t \in Names : stored[t] \subseteq stored'[t]
<1>1. ASSUME NEW p \in Procs, Begin(p) \/ Step(p) \/ Answer(p) \/ Die(p), ~Flush(p)
      PROVE  stored' = stored
  BY <1>1 DEF Begin, Step, Answer, Die, Look, Send, Receive, Timeout, ReadOld, Truncate,
              UpdateManifest, Replace, Serve, Disk, History
<1>2. ASSUME NEW p \in Procs, Flush(p), NEW t \in Names PROVE stored[t] \subseteq stored'[t]
  BY <1>2 DEF Flush, StoreInv, FilesOK
<1>3. QED
  BY <1>1, <1>2 DEF Next, vars

\* Whatever step is taken, what a process knew before it still holds.
LEMMA StillReads ==
    ASSUME StoreInv, ReadsInv, [Next]_vars, NEW q \in Procs
    PROVE  Reading(proc[q], stored', raced')
<1>1. StateOK(proc[q]) /\ Reading(proc[q], stored, raced)
  BY DEF StoreInv, ReadsInv
<1>2. \A t \in Names : stored[t] \subseteq stored'[t]
  BY StoredGrows
<1>3. raced \subseteq raced'
  BY RacedGrows
<1>4. QED
  BY <1>1, <1>2, <1>3, ReadingStays

LEMMA WritingReads ==
    ASSUME StoreInv, ReadsInv, [Next]_vars, NEW p \in Procs,
           Truncate(p) \/ Flush(p) \/ UpdateManifest(p)
    PROVE  \E x : Becomes(p, x) /\ Reading(x, stored', raced')
<1> DEFINE s == proc[p]
<1>1. s \in ProcType /\ StateOK(s) /\ Reading(s, stored', raced') /\ Reading(s, stored, raced)
  BY StillReads DEF StoreInv, StateOK, ReadsInv
<1>2. CASE Truncate(p)
  <2>1. s.phase = "truncate" /\ Becomes(p, [s EXCEPT !.phase = "flush"])
    BY <1>2 DEF Truncate
  <2>2. Reading([s EXCEPT !.phase = "flush"], stored', raced')
    <3>1. s.phase \in WritePhases /\ "flush" \in WritePhases
      BY <2>1 DEF WritePhases
    <3> HIDE DEF s
    <3> QED BY <1>1, <2>1, <3>1, WriteOnReads
  <2> QED BY <2>1, <2>2
<1>3. CASE Flush(p)
  <2> DEFINE t == Target(s)
  <2>1. /\ s.phase = "flush" /\ Becomes(p, [s EXCEPT !.phase = "manifest"])
        /\ stored' = [stored EXCEPT ![t] = stored[t] \cup s.new]
    BY <1>3 DEF Flush
  <2>2. s.phase \in WritePhases /\ "manifest" \in WritePhases
    BY <2>1 DEF WritePhases
  <2>3. s.new \subseteq stored'[t]
    <3>1. t \in Names
      BY <1>1, <2>2, WriterFacts
    <3>2. stored \in [Names -> SUBSET Bars]
      BY DEF StoreInv, FilesOK
    <3> HIDE DEF t
    <3> QED BY <2>1, <3>1, <3>2
  <2>4. s.kind = "read" => \A b \in s.got : b.ticker = t => b \in stored'[b.ticker]
    <3> SUFFICES ASSUME s.kind = "read", NEW b \in s.got, b.ticker = t
                 PROVE  b \in s.new
      BY <2>3
    <3>1. Stored(s, stored, raced)
      BY <1>1, <2>2 DEF Reading
    <3> QED BY <2>1, <3>1 DEF Stored
  <2>5. Reading([s EXCEPT !.phase = "manifest"], stored', raced')
    <3> HIDE DEF s
    <3> QED BY <1>1, <2>1, <2>2, <2>4, WriteOnReads
  <2> QED BY <2>1, <2>5
<1>4. CASE UpdateManifest(p)
  <2>1. s.phase = "manifest" /\ Becomes(p, [s EXCEPT !.phase = "replace"])
    BY <1>4 DEF UpdateManifest
  <2>2. s.phase \in WritePhases /\ "replace" \in WritePhases
    BY <2>1 DEF WritePhases
  <2>3. s.kind = "read" => \A b \in s.got : b.ticker = Target(s) /\ b.ticker \notin raced' =>
                                              b \in stored'[b.ticker]
    <3> SUFFICES ASSUME s.kind = "read"
                 PROVE  Stored(s, stored', raced')
      BY <2>1 DEF Stored
    <3> QED BY <1>1, <2>2 DEF Reading
  <2>4. Reading([s EXCEPT !.phase = "replace"], stored', raced')
    <3> HIDE DEF s
    <3> QED BY <1>1, <2>1, <2>2, <2>3, WriteOnReads
  <2> QED BY <2>1, <2>4
<1>5. QED
  BY <1>2, <1>3, <1>4

LEMMA ReplaceReads ==
    ASSUME StoreInv, ReadsInv, [Next]_vars, NEW p \in Procs, Replace(p)
    PROVE  \E x : Becomes(p, x) /\ Reading(x, stored', raced')
<1> DEFINE s == proc[p]
           left == s.to_write \ {Target(s)}
           clean == [s EXCEPT !.to_write = left, !.old = {}, !.new = {}]
<1>1. /\ s \in ProcType /\ StateOK(s) /\ s.phase = "replace" /\ s.phase \in WritePhases
      /\ Reading(s, stored', raced')
  BY StillReads DEF StoreInv, StateOK, Replace, WritePhases
<1>2. Becomes(p, Written(s)) \/ Becomes(p, Raise(s))
  BY DEF Replace
<1>3. CASE s.kind = "sync"
  <2>1. Written(s).kind = "sync"
    BY <1>1, <1>3, KindKept
  <2> QED BY <1>1, <1>2, <2>1, SyncKnows, RaiseKnows
<1>4. CASE s.kind = "read"
  <2>1. /\ s.rest = <<>> /\ Collected(s) /\ Found(s, stored', raced') /\ Stored(s, stored', raced')
    BY <1>1, <1>4 DEF Reading
  <2>2. \A b \in s.got : b.ticker \notin left \cup raced' => b \in stored'[b.ticker]
    BY <1>1, <2>1 DEF Stored
  <2>3. left \in SUBSET Names
    BY <1>1 DEF ProcType
  <2>4. \/ left # {} /\ Written(s) = [clean EXCEPT !.phase = "write"]
        \/ Written(s) = Raise(s)
        \/ left = {} /\ Written(s) = [clean EXCEPT !.phase = "serve", !.i = 1, !.got = {},
                                                   !.missing = <<>>]
    BY <1>4 DEF Written
  <2> HIDE DEF left
  <2>5. CASE Written(s) = [clean EXCEPT !.phase = "write"]
    <3> DEFINE z == [clean EXCEPT !.phase = "write"]
    <3>1. /\ z.phase = "write" /\ z.kind = "read" /\ z.rest = s.rest /\ z.missing = s.missing
          /\ z.win = s.win /\ z.got = s.got /\ z.partial = s.partial /\ z.to_write = left
      BY <1>1, <1>4 DEF ProcType
    <3>2. Written(s) = z
      BY <2>5
    <3> HIDE DEF z
    <3>3. Collected(z) /\ Found(z, stored', raced')
      BY <2>1, <3>1 DEF Collected, Found
    <3>4. Stored(z, stored', raced')
      BY <2>2, <3>1 DEF Stored
    <3>5. Reading(z, stored', raced')
      BY <2>1, <3>1, <3>3, <3>4 DEF Reading, WritePhases
    <3> QED BY <1>1, <1>2, <3>2, <3>5, RaiseKnows
  <2>6. CASE left = {} /\ Written(s) = [clean EXCEPT !.phase = "serve", !.i = 1, !.got = {},
                                                     !.missing = <<>>]
    <3> DEFINE z == [clean EXCEPT !.phase = "serve", !.i = 1, !.got = {}, !.missing = <<>>]
    <3>1. z.phase = "serve" /\ z.i = 1 /\ z.win = s.win /\ z.partial = s.partial
      BY <1>1 DEF ProcType
    <3>2. Written(s) = z
      BY <2>6
    <3> HIDE DEF z
    <3>3. ASSUME NEW t \in Names \ raced', ~s.partial, ~Covers(stored'[t], s.win)
          PROVE  Complete(stored'[t], s.win, t)
      <4>1. t \in ToSet(s.missing)
        BY <2>1, <3>3 DEF Found
      <4>2. t \notin ToSet(s.rest)
        BY <1>1, <2>1, ToSetOf DEF ProcType, Lists
      <4>3. Complete(s.got, s.win, t)
        BY <2>1, <3>3, <4>1, <4>2 DEF Collected
      <4>4. \A b \in s.got : b.ticker = t => b \in stored'[t]
        BY <2>2, <2>6, <3>3
      <4> HIDE DEF s
      <4> QED BY <4>3, <4>4 DEF Complete
    <3>4. Reading(z, stored', raced')
      BY <3>1, <3>3, BeforeStep DEF Reading, WritePhases
    <3> QED BY <1>1, <1>2, <3>2, <3>4, RaiseKnows
  <2>7. CASE Written(s) = Raise(s)
    BY <1>1, <1>2, <2>7, RaiseKnows
  <2> QED BY <2>4, <2>5, <2>6, <2>7
<1>5. QED
  BY <1>1, <1>3, <1>4 DEF ProcType

LEMMA ServeReads ==
    ASSUME StoreInv, KeptInv, ReadsInv, NEW p \in Procs, Serve(p)
    PROVE  \E x : Becomes(p, x) /\ Reading(x, stored, raced)
<1> DEFINE s == proc[p]
           t == Tickers[s.i]
           served == s.served \cup In(s.win, file[t].bars)
           x == [s EXCEPT !.i = s.i + 1, !.served = served]
<1>1. s \in ProcType /\ s.phase = "serve" /\ Reading(s, stored, raced)
  BY DEF StoreInv, StateOK, Serve, ReadsInv
<1>2. s.i \in Places /\ t \in Names /\ s.win \in AnyWindow
  BY <1>1, TickersTyped DEF ProcType, Places
<1>3. IF file[t].state = "torn" THEN Becomes(p, Raise(s))
      ELSE IF s.i = Len(Tickers) THEN Becomes(p, Over(x, "done")) ELSE Becomes(p, x)
  BY DEF Serve
<1>4. s.served \subseteq served /\ In(s.win, file[t].bars) \subseteq served
  OBVIOUS
<1> HIDE DEF served
<1>5. /\ x.phase = "serve" /\ x.kind = s.kind /\ x.i = s.i + 1 /\ x.win = s.win
      /\ x.partial = s.partial /\ x.served = served
  BY <1>1 DEF ProcType
<1> HIDE DEF x
<1>6. CASE s.kind = "sync"
  <2>1. Over(x, "done").kind = "sync" /\ x.kind = "sync"
    BY <1>5, <1>6 DEF Over, Idle
  <2> QED BY <1>1, <1>3, <2>1, SyncKnows, RaiseKnows
<1>7. CASE s.kind = "read"
  <2>1. /\ \A u \in Names \ raced : s.partial \/ Covers(stored[u], s.win)
                                              \/ Complete(stored[u], s.win, u)
        /\ \A u \in Before(s.i) \ raced : s.partial \/ Inside(s, u, stored)
    BY <1>1, <1>7 DEF Reading
  <2>2. \A u : Inside(s, u, stored) => Inside(x, u, stored)
    <3>1. \A u : Unserved(x, u) \subseteq Unserved(s, u)
      BY <1>4, <1>5 DEF Unserved
    <3> QED BY <3>1 DEF Inside
  <2>3. t \notin raced /\ file[t].state # "torn" => s.partial \/ Inside(x, t, stored)
    <3> SUFFICES ASSUME t \notin raced, file[t].state # "torn", ~s.partial
                 PROVE  Inside(x, t, stored)
      OBVIOUS
    <3>1. Covers(stored[t], x.win) \/ Complete(stored[t], x.win, t)
      BY <1>2, <1>5, <2>1
    <3>2. stored[t] = file[t].bars
      BY <1>2 DEF KeptInv, Kept
    <3>3. stored[t] \subseteq Bars /\ OfTicker(stored[t], t)
      BY <1>2, <3>2 DEF StoreInv, FilesOK, FilesHoldTheirTicker, OfTicker
    <3>4. In(x.win, stored[t]) \subseteq x.served /\ x.win \in AnyWindow
      BY <1>2, <1>4, <1>5, <3>2
    <3> HIDE DEF t
    <3> QED BY <1>2, <3>1, <3>3, <3>4, EndsEnclose
  <2>4. Before(x.i) = Before(s.i) \cup {t}
    BY <1>2, <1>5, BeforeStep
  <2>5. file[t].state # "torn" => \A u \in Before(x.i) \ raced : x.partial \/ Inside(x, u, stored)
    BY <1>5, <2>1, <2>2, <2>3, <2>4
  <2>6. file[t].state # "torn" => Reading(x, stored, raced)
    BY <1>5, <2>1, <2>5 DEF Reading, WritePhases
  <2>7. ASSUME s.i = Len(Tickers), file[t].state # "torn" PROVE Reading(Over(x, "done"), stored, raced)
    <3> DEFINE z == Over(x, "done")
    <3>1. z.phase = "done" /\ z.win = x.win /\ z.partial = x.partial /\ z.served = x.served
      BY <1>5, <1>7 DEF Over, Idle
    <3> HIDE DEF z
    <3>2. Before(x.i) = Names
      BY <1>5, <2>7, BeforeStep
    <3>3. \A u : Inside(x, u, stored) => Inside(z, u, stored)
      BY <3>1 DEF Inside, Unserved
    <3>4. Reading(z, stored, raced)
      BY <2>5, <2>7, <3>1, <3>2, <3>3 DEF Reading, WritePhases
    <3> QED BY <3>4 DEF z
  <2> QED BY <1>1, <1>3, <2>6, <2>7, RaiseKnows
<1>8. QED
  BY <1>1, <1>6, <1>7 DEF ProcType

LEMMA ReadsNext == ASSUME StoreInv, KeptInv, ReadsInv, [Next]_vars PROVE ReadsInv'
<1>1. \A q \in Procs : Reading(proc[q], stored', raced')
  BY StillReads
<1>2. proc \in [Procs -> ProcType]
  BY DEF StoreInv
<1>3. ASSUME NEW p \in Procs, NEW x, Becomes(p, x), Reading(x, stored', raced')
      PROVE  ReadsInv'
  <2>1. \A q \in Procs : proc'[q] = IF q = p THEN x ELSE proc[q]
    BY <1>2, <1>3 DEF Becomes
  <2> QED BY <1>1, <1>3, <2>1 DEF ReadsInv
<1>4. CASE UNCHANGED vars
  BY <1>4 DEF vars, ReadsInv
<1>5. ASSUME NEW p \in Procs,
             Begin(p) \/ Look(p) \/ Send(p) \/ Receive(p) \/ Timeout(p) \/ ReadOld(p)
             \/ Serve(p) \/ Answer(p)
      PROVE  ReadsInv'
  <2>1. \E x : Becomes(p, x) /\ Reading(x, stored, raced)
    BY <1>5, BeginReads, LookReads, SendReads, ReceiveReads, TimeoutReads, ReadOldReads,
       ServeReads, AnswerReads
  <2>2. stored' = stored /\ raced' = raced
    BY <1>5 DEF Begin, Look, Send, Receive, Timeout, ReadOld, Serve, Answer, Disk, History
  <2> QED BY <1>3, <2>1, <2>2
<1>6. ASSUME NEW p \in Procs, Truncate(p) \/ Flush(p) \/ UpdateManifest(p) \/ Replace(p)
      PROVE  ReadsInv'
  <2>1. \E x : Becomes(p, x) /\ Reading(x, stored', raced')
    BY <1>6, WritingReads, ReplaceReads
  <2> QED BY <1>3, <2>1
<1>7. ASSUME NEW p \in Procs, Die(p) PROVE ReadsInv'
  <2> DEFINE x == [Idle EXCEPT !.phase = "dead"]
  <2>1. x.phase = "dead"
    BY DEF Idle
  <2>2. Becomes(p, x)
    BY <1>7 DEF Die
  <2> HIDE DEF x
  <2> QED BY <1>3, <2>1, <2>2, SyncKnows
<1>8. QED
  BY <1>4, <1>5, <1>6, <1>7 DEF Next, Step

\* What a read does not get back of its window lies between stored days, unless
\* the terminal's answer was partial or two writers met on the file
\* (barstore.py:117-146).
THEOREM NoGapAtTheEnds == Spec => []GapsAreInside
<1>1. Init => ReadsInv
  <2> SUFFICES ASSUME Init, NEW p \in Procs PROVE Reading(proc[p], stored, raced)
    BY DEF ReadsInv
  <2>1. proc[p].phase = "idle"
    BY DEF Init, Idle
  <2> QED BY <2>1, SyncKnows
<1>2. ReadsInv => GapsAreInside
  BY DEF ReadsInv, Reading, GapsAreInside, Inside
<1>3. QED
  BY <1>1, <1>2, ReadsNext, StoreInvHolds, KeptInvHolds, PTL DEF Spec
=============================================================================
