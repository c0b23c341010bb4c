----------------------------- MODULE MarketCache ----------------------------
(***************************************************************************)
(* Daily bars: the Bloomberg Desktop session (data/bloomberg_desktop.py),  *)
(* the store of one parquet file per ticker with its manifest and the      *)
(* cache-first provider over both (data/barstore.py), used by research,    *)
(* evaluation and backtest processes, and `bloomberg sync`                 *)
(* (cli/bloomberg.py).                                                     *)
(*                                                                         *)
(* Processes share the store's directory without a lock; each has its own  *)
(* session.  A process may die at any step.  The terminal answers the      *)
(* requests of a session in order, or not at all.                          *)
(***************************************************************************)
EXTENDS Integers, Sequences, FiniteSets, SequencesExt

CONSTANTS
    Procs,
    Tickers,        \* a sequence: sync_universe()
    Vendor,         \* [ticker -> days the terminal has a bar for]
    Windows,        \* the [from, to] that are asked for
    StartSlack, EndSlack,   \* tolerated days at the edges (7 and 4)
    MaxChunk,       \* max_securities_per_request
    MaxRetries,
    MaxStarts       \* bound on the commands that are run

ASSUME MarketAssumption ==
    /\ StartSlack \in Nat /\ EndSlack \in Nat /\ MaxRetries \in Nat
    /\ MaxChunk \in Nat \ {0} /\ MaxStarts \in Nat
    /\ Tickers \in Seq(DOMAIN Vendor) /\ Tickers # <<>>
    /\ \A i, j \in DOMAIN Tickers : Tickers[i] = Tickers[j] => i = j
    /\ \A w \in Windows : w.from <= w.to

ASSUME DayAssumption ==
    /\ \A t \in DOMAIN Vendor : Vendor[t] \subseteq Int
    /\ \A w \in Windows : w \in [from : Int, to : Int]

VARIABLES
    file,       \* [ticker -> parquet file]
    manifest,       \* tickers it has an entry for
    tmp,
    proc,       \* state of every process
    starts,
    stored,     \* history: [ticker -> bars ever written to its file]
    cut,        \* history: tickers whose file a process died rewriting
    raced       \* history: tickers whose file was overwritten by a process
                \* that had not read what it held

vars == <<file, manifest, tmp, proc, starts, stored, cut, raced>>

Names == ToSet(Tickers)
Bars == UNION {{[ticker |-> t, day |-> d] : d \in Vendor[t]} : t \in Names}

NoFile == [state |-> "none", bars |-> {}]
NoTmp == [written |-> FALSE, content |-> {}]

\* rest: securities still to be fetched; part: bars of this attempt; got: bars
\* of the chunks before; pending, queue: the session's unanswered securities
\* and undelivered events.
Idle == [phase |-> "idle", kind |-> "read", win |-> [from |-> 0, to |-> 0], i |-> 1,
         missing |-> <<>>, rest |-> <<>>, attempt |-> 0, open |-> FALSE,
         pending |-> <<>>, queue |-> <<>>, part |-> {}, got |-> {}, partial |-> FALSE,
         old |-> {}, new |-> {}, to_write |-> {}, served |-> {}]

Init ==
    /\ file = [t \in Names |-> NoFile]
    /\ manifest = {} /\ tmp = NoTmp
    /\ proc = [p \in Procs |-> Idle]
    /\ starts = 0
    /\ stored = [t \in Names |-> {}] /\ cut = {} /\ raced = {}

Days(bars) == {b.day : b \in bars}
In(w, bars) == {b \in bars : b.day \in w.from .. w.to}

\* Variant of the mutant runs: the end of the window is not compared.
CoversStart(bars, w) == \E d \in Days(bars) : d <= w.from + StartSlack

\* The first and last stored day against the window, nothing in between.
Covers(bars, w) ==
    /\ \E d \in Days(bars) : d <= w.from + StartSlack
    /\ \E d \in Days(bars) : d >= w.to - EndSlack

History == <<stored, cut, raced>>
Disk == <<file, manifest, tmp, History>>
Becomes(p, state) == proc' = [proc EXCEPT ![p] = state]

\* What is left of a process for an observer: the result of a read.
Over(s, phase) ==
    IF s.kind = "read" /\ phase = "done"
    THEN [Idle EXCEPT !.phase = phase, !.win = s.win, !.partial = s.partial, !.served = s.served]
    ELSE [Idle EXCEPT !.phase = phase, !.kind = s.kind]
Raise(s) == Over(s, "raised")

-----------------------------------------------------------------------------
(* Which tickers have to be fetched *)

Begin(p) ==
    /\ proc[p].phase \in {"idle", "done", "raised", "dead"} /\ starts < MaxStarts
    /\ \E kind \in {"read", "sync"}, w \in Windows :
        Becomes(p, [Idle EXCEPT !.phase = "look", !.kind = kind, !.win = w])
    /\ starts' = starts + 1
    /\ UNCHANGED Disk

\* All tickers looked at: serve, stop, or start fetching.
Looked(s) ==
    CASE s.i <= Len(Tickers) -> s
      [] s.i > Len(Tickers) /\ s.missing # <<>> ->
            [s EXCEPT !.phase = "send", !.rest = s.missing, !.i = 1,
                      !.missing = IF s.kind = "read" THEN @ ELSE <<>>]
      [] s.i > Len(Tickers) /\ s.missing = <<>> ->
            IF s.kind = "read" THEN [s EXCEPT !.phase = "serve", !.i = 1] ELSE Over(s, "done")

\* Reading a torn file raises, in a sync as well.
Look(p) ==
    LET s == proc[p]
        t == Tickers[s.i]
    IN  /\ s.phase = "look"
        /\ Becomes(p,
            IF file[t].state = "torn" THEN Raise(s)
            ELSE LET miss == file[t].state = "none" \/ ~Covers(file[t].bars, s.win)
                 IN  Looked([s EXCEPT !.i = @ + 1,
                                !.missing = IF miss THEN Append(@, t) ELSE @]))
        /\ UNCHANGED <<Disk, starts>>

-----------------------------------------------------------------------------
(* The session *)

\* A sync asks for one security at a time.
Chunk(s) ==
    LET size == IF s.kind = "sync" THEN 1 ELSE MaxChunk
    IN  SubSeq(s.rest, 1, IF size < Len(s.rest) THEN size ELSE Len(s.rest))

AfterChunk(s) == SubSeq(s.rest, Len(Chunk(s)) + 1, Len(s.rest))

\* The next ticker of a sync.
NextTicker(s) ==
    LET rest == Tail(s.rest)
    IN  IF rest = <<>> THEN Over(s, "done")
        ELSE [s EXCEPT !.phase = "send", !.rest = rest, !.attempt = 0, !.part = {},
                       !.got = {}, !.partial = FALSE]

\* An exception of the adapter: a sync counts it and goes on.
FetchFailed(s) == IF s.kind = "sync" THEN NextTicker(s) ELSE Raise(s)

\* The session is started or reused and the request sent; each security of it
\* is answered by an event, the last one by the RESPONSE.  Starting and sending
\* may fail; only a timeout drops the session.
Send(p) ==
    LET s == proc[p]
        asked == [k \in DOMAIN Chunk(s) |-> [ticker |-> Chunk(s)[k], last |-> k = Len(Chunk(s))]]
    IN  /\ s.phase = "send"
        /\ \/ Becomes(p, [s EXCEPT !.phase = "recv", !.open = TRUE, !.pending = @ \o asked])
           \/ Becomes(p, FetchFailed(s))
        /\ UNCHANGED <<Disk, starts>>

\* External: the terminal answers one security, with all its bars, with the
\* last one incomplete, or with an error.
Answer(p) ==
    LET s == proc[p]
        asked == Head(s.pending)
        all == In(s.win, {b \in Bars : b.ticker = asked.ticker})
        Event(bars) == [bars |-> bars, error |-> bars # all, last |-> asked.last]
    IN  /\ s.pending # <<>>
        /\ \E bars \in {all, {}, {b \in all : \E c \in all : c.day > b.day}} :
            Becomes(p, [s EXCEPT !.pending = Tail(@), !.queue = Append(@, Event(bars))])
        /\ UNCHANGED <<Disk, starts>>

\* All chunks are there: a sync without bars has failed for its ticker.
Fetched(s) ==
    IF s.kind = "read" /\ s.rest # <<>> THEN [s EXCEPT !.phase = "send", !.attempt = 0]
    ELSE IF s.got = {} THEN FetchFailed(s)
    ELSE [s EXCEPT !.phase = "write",
            !.to_write = IF s.kind = "sync" THEN {Head(s.rest)} ELSE {b.ticker : b \in s.got}]

Receive(p) ==
    LET s == proc[p]
        event == Head(s.queue)
        taken == [s EXCEPT !.queue = Tail(@), !.part = @ \cup event.bars,
                           !.partial = @ \/ event.error]
    IN  /\ s.phase = "recv" /\ s.queue # <<>>
        /\ Becomes(p,
            IF ~event.last THEN taken
            ELSE Fetched([taken EXCEPT !.got = @ \cup taken.part, !.part = {},
                            !.rest = IF s.kind = "sync" THEN @ ELSE AfterChunk(s)]))
        /\ UNCHANGED <<Disk, starts>>

\* The session is dropped with everything still to come on it, and what this
\* attempt collected is forgotten.
Dropped(s) == [s EXCEPT !.open = FALSE, !.pending = <<>>, !.queue = <<>>, !.part = {}]

\* Variants of the mutant runs: the session is kept; one retry too many;
\* retries never end.
TimeoutKeepsSession(p) ==
    LET s == proc[p]
    IN  /\ s.phase = "recv" /\ s.queue = <<>>
        /\ Becomes(p, IF s.attempt >= MaxRetries THEN FetchFailed([s EXCEPT !.part = {}])
                      ELSE [s EXCEPT !.phase = "send", !.attempt = @ + 1, !.part = {}])
        /\ UNCHANGED <<Disk, starts>>
TimeoutOnceMore(p) ==
    LET s == proc[p]
    IN  /\ s.phase = "recv" /\ s.queue = <<>>
        /\ Becomes(p, IF s.attempt > MaxRetries THEN FetchFailed(Dropped(s))
                      ELSE [Dropped(s) EXCEPT !.phase = "send", !.attempt = @ + 1])
        /\ UNCHANGED <<Disk, starts>>
TimeoutForever(p) ==
    /\ proc[p].phase = "recv" /\ proc[p].queue = <<>>
    /\ Becomes(p, [Dropped(proc[p]) EXCEPT !.phase = "send"])
    /\ UNCHANGED <<Disk, starts>>

\* No event in time: the chunk is tried again on a new session, or given up.
Timeout(p) ==
    LET s == proc[p]
    IN  /\ s.phase = "recv" /\ s.queue = <<>>
        /\ Becomes(p, IF s.attempt >= MaxRetries THEN FetchFailed(Dropped(s))
                      ELSE [Dropped(s) EXCEPT !.phase = "send", !.attempt = @ + 1])
        /\ UNCHANGED <<Disk, starts>>

-----------------------------------------------------------------------------
(* The store *)

\* The first ticker still to be written.
Target(s) == CHOOSE t \in s.to_write : \A u \in s.to_write :
                \A i, j \in DOMAIN Tickers : Tickers[i] = t /\ Tickers[j] = u => i <= j

\* Variant of the mutant runs: the stored rows are not merged.
ReadOldUnmerged(p) ==
    LET s == proc[p]
        t == Target(s)
        new == IF s.kind = "sync" THEN s.got ELSE {b \in s.got : b.ticker = t}
    IN  /\ s.phase = "write"
        /\ Becomes(p, IF file[t].state = "torn" THEN Raise(s)
                      ELSE [s EXCEPT !.phase = "truncate", !.old = file[t].bars, !.new = new])
        /\ UNCHANGED <<Disk, starts>>

\* The stored rows are read and the new ones merged over them.
ReadOld(p) ==
    LET s == proc[p]
        t == Target(s)
        new == IF s.kind = "sync" THEN s.got ELSE {b \in s.got : b.ticker = t}
    IN  /\ s.phase = "write"
        /\ Becomes(p, IF file[t].state = "torn" THEN Raise(s)
                      ELSE [s EXCEPT !.phase = "truncate", !.old = file[t].bars,
                                     !.new = file[t].bars \cup new])
        /\ UNCHANGED <<Disk, starts>>

\* The file is rewritten in place: opening it empties it.
Truncate(p) ==
    LET s == proc[p]
        t == Target(s)
    IN  /\ s.phase = "truncate"
        /\ file' = [file EXCEPT ![t] = [state |-> "torn", bars |-> {}]]
        /\ raced' = IF file[t].state # "torn" /\ file[t].bars = s.old
                    THEN raced ELSE raced \cup {t}
        /\ Becomes(p, [s EXCEPT !.phase = "flush"])
        /\ UNCHANGED <<manifest, tmp, starts, stored, cut>>

Flush(p) ==
    LET s == proc[p]
        t == Target(s)
    IN  /\ s.phase = "flush"
        /\ file' = [file EXCEPT ![t] = [state |-> "good", bars |-> s.new]]
        /\ stored' = [stored EXCEPT ![t] = @ \cup s.new]
        /\ raced' = IF file[t].state = "torn" THEN raced ELSE raced \cup {t}
        /\ Becomes(p, [s EXCEPT !.phase = "manifest"])
        /\ UNCHANGED <<manifest, tmp, starts, cut>>

\* manifest.json is read, the entry set and the whole written to the one
\* temporary file.
UpdateManifest(p) ==
    LET s == proc[p]
        t == Target(s)
    IN  /\ s.phase = "manifest"
        /\ tmp' = [written |-> TRUE,
                   content |-> manifest \cup {t}]
        /\ Becomes(p, [s EXCEPT !.phase = "replace"])
        /\ UNCHANGED <<file, manifest, starts, History>>

\* After the last write of a read: a ticker without bars is an error.
Written(s) ==
    LET left == s.to_write \ {Target(s)}
        clean == [s EXCEPT !.to_write = left, !.old = {}, !.new = {}]
    IN  IF s.kind = "sync" THEN NextTicker(clean)
        ELSE IF left # {} THEN [clean EXCEPT !.phase = "write"]
        ELSE IF \E t \in ToSet(s.missing) : \A b \in s.got : b.ticker # t THEN Raise(s)
        ELSE [clean EXCEPT !.phase = "serve", !.i = 1, !.got = {}, !.missing = <<>>]

\* Another process may have moved the temporary file away.
Replace(p) ==
    LET s == proc[p]
    IN  /\ s.phase = "replace"
        /\ IF tmp.written
           THEN /\ manifest' = tmp.content /\ tmp' = NoTmp
                /\ Becomes(p, Written(s))
           ELSE /\ UNCHANGED <<manifest, tmp>>
                /\ Becomes(p, Raise(s))
        /\ UNCHANGED <<file, starts, History>>

\* The window is read back, ticker by ticker.
Serve(p) ==
    LET s == proc[p]
        t == Tickers[s.i]
        read == [s EXCEPT !.i = @ + 1, !.served = @ \cup In(s.win, file[t].bars)]
    IN  /\ s.phase = "serve"
        /\ Becomes(p,
            IF file[t].state = "torn" THEN Raise(s)
            ELSE IF s.i = Len(Tickers) THEN Over(read, "done") ELSE read)
        /\ UNCHANGED <<Disk, starts>>

-----------------------------------------------------------------------------
Active(p) == proc[p].phase \notin {"idle", "done", "raised", "dead"}

Step(p) ==
    \/ Look(p) \/ Send(p) \/ Receive(p) \/ Timeout(p) \/ ReadOld(p) \/ Truncate(p)
    \/ Flush(p) \/ UpdateManifest(p) \/ Replace(p) \/ Serve(p)

\* A file that was being written stays torn.
Die(p) ==
    /\ Active(p)
    /\ cut' = IF proc[p].phase = "flush" THEN cut \cup {Target(proc[p])} ELSE cut
    /\ Becomes(p, [Idle EXCEPT !.phase = "dead"])
    /\ UNCHANGED <<file, manifest, tmp, starts, stored, raced>>

Next == \E p \in Procs : Begin(p) \/ Step(p) \/ Answer(p) \/ Die(p)

Spec == Init /\ [][Next]_vars

\* A running process goes on: nextEvent returns within its timeout.
Fairness == \A p \in Procs : WF_vars(Step(p))
FairSpec == Spec /\ Fairness

-----------------------------------------------------------------------------
(* Properties *)

\* Every variable has its type.
TypeOK ==
    /\ \A t \in Names :
        /\ file[t].state \in {"none", "torn", "good"} /\ file[t].bars \subseteq Bars
        /\ file[t].state = "good" <=> file[t].bars # {}
        /\ stored[t] \subseteq Bars
    /\ manifest \subseteq Names /\ tmp.written \in BOOLEAN
    /\ starts \in 0 .. MaxStarts /\ cut \subseteq Names /\ raced \subseteq Names
    /\ \A p \in Procs :
        /\ proc[p].attempt \in 0 .. MaxRetries /\ proc[p].i \in 1 .. Len(Tickers)
        /\ proc[p].got \subseteq Bars /\ proc[p].served \subseteq Bars
        /\ proc[p].old \subseteq Bars /\ proc[p].new \subseteq Bars

\* A file holds bars of its own ticker only: no late answer to a request that
\* timed out reaches the request after it (bloomberg_desktop.py:185-190; sync
\* stores whatever it received under the ticker it asked for).
FilesHoldTheirTicker == \A t \in Names : \A b \in file[t].bars : b.ticker = t

\* What was ever stored for a ticker is in its file, or in the hands of the one
\* process that is rewriting it (barstore.py:76-87).  A stored day is lost in
\* two ways only: a process dies in the middle of rewriting the file, or it
\* overwrites what it has not read.
StoredDaysKept ==
    \A t \in Names \ (raced \cup cut) :
        \/ stored[t] \subseteq file[t].bars
        \/ \E p \in Procs : /\ proc[p].phase = "flush" /\ Target(proc[p]) = t
                             /\ stored[t] \subseteq proc[p].new

\* Days of the window a read does not get back, past the tolerated edges.
Unserved(s, t) ==
    {d \in Vendor[t] : /\ d \in s.win.from + StartSlack .. s.win.to - EndSlack
                       /\ [ticker |-> t, day |-> d] \notin s.served}

\* A read that returns lacks a day the terminal has only if the terminal's
\* answer to it was partial, if processes overwrote each other, or if the day
\* is a hole with stored days on both sides: never at the ends of what is
\* stored, whatever was synced and read before.
GapsAreInside ==
    \A p \in Procs : proc[p].phase = "done" /\ proc[p].kind = "read" =>
        \A t \in Names \ raced : \A d \in Unserved(proc[p], t) :
            \/ proc[p].partial
            \/ \E a, b \in Days(stored[t]) : a < d /\ d < b

\* Every command ends, whatever times out.
CommandsEnd == \A p \in Procs : Active(p) ~> ~Active(p)
=============================================================================
