----------------------------- MODULE MarketFeed -----------------------------
(***************************************************************************)
(* The market data of one instrument, from the operator's files to the     *)
(* trader's chart.  The loader inserts minutes and the bars derived from   *)
(* them; the builder fixes a feed's window over one timeframe; a session   *)
(* releases the window bar by bar; and readers render what was released,   *)
(* rolled up to a viewing timeframe, from the table or from a cached       *)
(* window.  Of a bar's prices only the minutes they summarise are kept.    *)
(***************************************************************************)
EXTENDS Integers, FiniteSets, Sequences

CONSTANTS
    Readers,       \* requests and stream frames that render the session
    Horizon,       \* bound: minutes there are
    Derived,       \* DerivedTimeframes, in minutes, in order
    Views,         \* the timeframes a trader may ask for, in minutes
    BarCount,      \* -bars: how far back a feed's window reaches
    Warmup,        \* -warmup
    MinTradeable,  \* MinTradeableBars
    MaxFiles       \* bound: ingests begun

ASSUME FeedAssumption ==
    /\ Horizon \in Nat \ {0} /\ Views \subseteq Nat \ {0}
    /\ Derived \in Seq(Nat \ {0, 1})
    /\ BarCount \in Nat /\ Warmup \in Nat /\ MinTradeable \in Nat \ {0}
    /\ MaxFiles \in Nat

VARIABLES
    table,     \* market_bars
    files,     \* ingests begun
    loader,    \* the file being ingested and the next timeframe to derive
    ingested,  \* files whose ingest returned without an error
    builder,   \* the bounds, then the rows, of the feed being built
    feed,      \* its blinded_feeds row
    built,     \* the rows the builder saw
    edge,      \* the session's revealed index
    cached,    \* the window in Redis
    asked,     \* what each reader was asked for: a timeframe at an edge
    window,    \* the rows it holds, and whether it is yet to cache them
    chart      \* the last answer each reader gave

vars == <<table, files, loader, ingested, builder, feed, built, edge, cached,
          asked, window, chart>>

market == <<table, files, loader, ingested>>
catalogue == <<builder, feed, built>>
reading == <<asked, window, chart>>

Minutes == 0 .. Horizon - 1

\* A bar: its timeframe, when it opened, and the minutes it summarises.
Bar(tf, at, of) == [tf |-> tf, at |-> at, of |-> of]

Minute(m) == Bar(1, m, {m})

Newest(rows) == CHOOSE x \in rows : \A y \in rows : y.at <= x.at

\* How many rows come before one in a listing by opened_at.
Index(x, rows) == Cardinality({y \in rows : y.at < x.at})

----------------------------------------------------------------------------
(* Rolling up. *)

\* Buckets align to the epoch.
Bucket(x, tf) == (x.at \div tf) * tf

Rolled(rows, tf) ==
    {Bar(tf, b, UNION {x.of : x \in {y \in rows : Bucket(y, tf) = b}}) :
        b \in {Bucket(x, tf) : x \in rows}}

\* (Variant: the view's interval is taken for the rows' own.)
PartialByView(rows, tf) ==
    LET last == Newest(rows) IN last.at + tf < Bucket(last, tf) + tf

\* The last bucket is whole only if the rows ran to its end.
Partial(rows, tf) ==
    LET last == Newest(rows) IN last.at + last.tf < Bucket(last, tf) + tf

\* Aggregate: a trailing partial bucket is not a bar.
Aggregate(rows, tf) ==
    LET rolled == Rolled(rows, tf)
    IN  IF Partial(rows, tf) THEN rolled \ {Newest(rolled)} ELSE rolled

----------------------------------------------------------------------------
Idle == [file |-> {}, next |-> 1]
NoBuild == [step |-> "idle", base |-> 1, from |-> 0, to |-> 0, rows |-> {}]
NoFeed == [base |-> 0, from |-> 0, to |-> 0, total |-> 0]
NoWindow == [rows |-> {}, put |-> FALSE]
NoQuestion == [tf |-> 0, edge |-> 0]
NoChart == [tf |-> 0, rows |-> {}, bars |-> {}]

Init ==
    /\ table = {} /\ files = 0 /\ loader = Idle /\ ingested = {}
    /\ builder = NoBuild /\ feed = NoFeed /\ built = {}
    /\ edge = -1 /\ cached = {}
    /\ asked = [r \in Readers |-> NoQuestion]
    /\ window = [r \in Readers |-> NoWindow]
    /\ chart = [r \in Readers |-> NoChart]

----------------------------------------------------------------------------
(* The loader. *)

Taken(x) == \E y \in table : y.tf = x.tf /\ y.at = x.at

\* (Variant: without ON CONFLICT, one row that is there fails the statement, and
\* the loader goes on.)
InsertAllOrNothing(rows) == IF \E x \in rows : Taken(x) THEN table ELSE table \union rows

\* Insert, ON CONFLICT DO NOTHING.
Insert(rows) == table \union {x \in rows : ~Taken(x)}

\* ingest: the minutes of a file, in one statement.
IngestMinutes(file) ==
    /\ loader = Idle /\ files < MaxFiles
    /\ files' = files + 1
    /\ table' = Insert({Minute(m) : m \in file})
    /\ loader' = [file |-> file, next |-> 1]
    /\ UNCHANGED <<ingested, edge, cached, catalogue, reading>>

\* ingest: one derived timeframe of the same file.
IngestDerived ==
    /\ loader # Idle /\ loader.next <= Len(Derived)
    /\ table' = Insert(Aggregate({Minute(m) : m \in loader.file}, Derived[loader.next]))
    /\ loader' = [loader EXCEPT !.next = @ + 1]
    /\ UNCHANGED <<files, ingested, edge, cached, catalogue, reading>>

IngestReturns ==
    /\ loader # Idle /\ loader.next > Len(Derived)
    /\ loader' = Idle
    /\ ingested' = ingested \union {loader.file}
    /\ UNCHANGED <<table, files, edge, cached, catalogue, reading>>

\* A statement fails or the process dies; the operator may run the file again.
IngestDies ==
    /\ loader # Idle
    /\ loader' = Idle
    /\ UNCHANGED <<table, files, ingested, edge, cached, catalogue, reading>>

----------------------------------------------------------------------------
(* The builder. *)

ListWindow(tf, from, to) == {x \in table : x.tf = tf /\ from <= x.at /\ x.at <= to}

\* loader -build: Bounds, then the most recent bars that exist.
BuildBounds(tf) ==
    /\ builder.step = "idle" /\ feed = NoFeed
    /\ \E first, last \in {x \in table : x.tf = tf} :
        /\ \A y \in table : y.tf = tf => first.at <= y.at /\ y.at <= last.at
        /\ LET reach == last.at - BarCount * tf
               from == IF reach < first.at THEN first.at ELSE reach
           IN  /\ from < last.at
               /\ builder' = [step |-> "bounded", base |-> tf, from |-> from,
                              to |-> last.at, rows |-> {}]
    /\ UNCHANGED <<market, feed, built, edge, cached, reading>>

\* Build: the window is read, and refused if it is too short.
BuildWindow ==
    /\ builder.step = "bounded"
    /\ LET rows == ListWindow(builder.base, builder.from, builder.to)
       IN  builder' = IF Cardinality(rows) - Warmup < MinTradeable
                      THEN NoBuild
                      ELSE [step |-> "listed", base |-> builder.base, from |-> builder.from,
                            to |-> builder.to, rows |-> rows]
    /\ UNCHANGED <<market, feed, built, edge, cached, reading>>

\* (Variant: the bars are counted by the clock, as if there were no gaps.)
CountedByClock(rows, tf, from, to) == (to - from) \div tf + 1

\* TotalBars.
Counted(rows, tf, from, to) == Cardinality(rows)

\* Build: the row is written.
BuildCreate ==
    /\ builder.step = "listed"
    /\ LET rows == builder.rows
           from == CHOOSE a \in {x.at : x \in rows} : \A x \in rows : a <= x.at
           to == Newest(rows).at
       IN  /\ feed' = [base |-> builder.base, from |-> from, to |-> to,
                       total |-> Counted(rows, builder.base, from, to)]
           /\ built' = rows
    /\ builder' = NoBuild
    /\ UNCHANGED <<market, edge, cached, reading>>

\* The operator's process ends.
BuildDies ==
    /\ builder # NoBuild
    /\ builder' = NoBuild
    /\ UNCHANGED <<market, feed, built, edge, cached, reading>>

----------------------------------------------------------------------------
(* The session, of which only the edge matters here. *)

Open ==
    /\ feed # NoFeed /\ edge = -1
    /\ edge' = IF Warmup > 0 THEN Warmup - 1 ELSE 0
    /\ UNCHANGED <<market, catalogue, cached, reading>>

Release ==
    /\ edge >= 0 /\ edge + 1 <= feed.total - 1
    /\ edge' = edge + 1
    /\ UNCHANGED <<market, catalogue, cached, reading>>

----------------------------------------------------------------------------
(* Readers: viewBars on a session they have loaded. *)

Ask(r, tf) ==
    /\ asked[r] = NoQuestion /\ edge >= 0
    /\ tf >= feed.base
    /\ asked' = [asked EXCEPT ![r] = [tf |-> tf, edge |-> edge]]
    /\ UNCHANGED <<market, catalogue, edge, cached, window, chart>>

\* windowBars, a hit.
WindowHit(r) ==
    /\ asked[r] # NoQuestion /\ window[r] = NoWindow
    /\ cached # {}
    /\ window' = [window EXCEPT ![r] = [rows |-> cached, put |-> FALSE]]
    /\ UNCHANGED <<market, catalogue, edge, cached, asked, chart>>

\* windowBars, a miss; a cache that does not answer is one too.
WindowMiss(r) ==
    /\ asked[r] # NoQuestion /\ window[r] = NoWindow
    /\ window' = [window EXCEPT ![r] =
            [rows |-> ListWindow(feed.base, feed.from, feed.to), put |-> TRUE]]
    /\ UNCHANGED <<market, catalogue, edge, cached, asked, chart>>

\* Put, which may fail.
WindowPut(r) ==
    /\ window[r].put
    /\ window' = [window EXCEPT ![r] = [rows |-> window[r].rows, put |-> FALSE]]
    /\ cached' \in {cached, window[r].rows}
    /\ UNCHANGED <<market, catalogue, edge, asked, chart>>

\* The entry's TTL ends, or Redis loses it.
WindowExpires ==
    /\ cached # {}
    /\ cached' = {}
    /\ UNCHANGED <<market, catalogue, edge, reading>>

\* (Variant: one bar too many.)
RevealedAndNext(rows, upto) == {x \in rows : Index(x, rows) <= upto + 1}

\* real[:uptoBaseIndex+1].
Revealed(rows, upto) == {x \in rows : Index(x, rows) <= upto}

\* What a chart shows: each bar at its index, the last one perhaps still forming.
View(rows, tf) ==
    LET rolled == Rolled(rows, tf)
        forms(x) == tf # feed.base /\ Partial(rows, tf) /\ x = Newest(rolled)
    IN  {[index |-> Index(x, rolled), bar |-> x, forming |-> forms(x)] : x \in rolled}

\* The answer, unless the window is shorter than the feed promised.
Answer(r) ==
    /\ window[r].rows # {} /\ ~window[r].put
    /\ LET q == asked[r]
           rows == window[r].rows
       IN  chart' = IF q.edge >= Cardinality(rows)
                    THEN chart
                    ELSE [chart EXCEPT ![r] =
                            [tf |-> q.tf, rows |-> rows,
                             bars |-> View(Revealed(rows, q.edge), q.tf)]]
    /\ asked' = [asked EXCEPT ![r] = NoQuestion]
    /\ window' = [window EXCEPT ![r] = NoWindow]
    /\ UNCHANGED <<market, catalogue, edge, cached>>

\* The read fails, or its caller is gone.
ReadFails(r) ==
    /\ asked[r] # NoQuestion
    /\ asked' = [asked EXCEPT ![r] = NoQuestion]
    /\ window' = [window EXCEPT ![r] = NoWindow]
    /\ UNCHANGED <<market, catalogue, edge, cached, chart>>

Load ==
    \/ \E file \in SUBSET Minutes \ {{}} : IngestMinutes(file)
    \/ IngestDerived \/ IngestReturns \/ IngestDies

Timeframes == {1} \union {Derived[i] : i \in DOMAIN Derived}

Build == (\E tf \in Timeframes : BuildBounds(tf)) \/ BuildWindow \/ BuildCreate \/ BuildDies

Read(r) ==
    \/ \E tf \in Views : Ask(r, tf)
    \/ WindowHit(r) \/ WindowMiss(r) \/ WindowPut(r)
    \/ Answer(r) \/ ReadFails(r)

Next == Load \/ Build \/ Open \/ Release \/ WindowExpires \/ \E r \in Readers : Read(r)

Spec == Init /\ [][Next]_vars

----------------------------------------------------------------------------
(* Properties. *)

\* However files arrive after the feed was built, and whichever window a reader
\* gets, no bar shown reaches past the bar the built window had at the edge.
NothingPastTheEdge ==
    \A r \in Readers : \A shown \in chart[r].bars :
        \E x \in built : Index(x, built) <= edge
                         /\ \A m \in shown.bar.of : m < x.at + x.tf

\* What the feed promised is there: no window a reader holds, from the table or
\* from the cache, is shorter than TotalBars, so a released bar can be shown.
WindowCoversFeed ==
    /\ \A r \in Readers : window[r] # NoWindow => Cardinality(window[r].rows) >= feed.total
    /\ cached # {} => Cardinality(cached) >= feed.total

\* A bar drawn as closed sums up every row of its bucket in the window it was
\* drawn from, those not yet released included.
ClosedIsWhole ==
    \A r \in Readers : \A shown \in chart[r].bars : ~shown.forming =>
        \A x \in chart[r].rows :
            Bucket(x, chart[r].tf) = shown.bar.at => x.of \subseteq shown.bar.of

Closed(c) == {shown \in c.bars : ~shown.forming}

\* While no file changes the window, a later answer keeps every closed bar of an
\* earlier one, at its index.
ClosedIsKept ==
    [][\A r \in Readers :
          chart'[r].tf = chart[r].tf /\ chart'[r].rows = chart[r].rows
            => Closed(chart[r]) \subseteq Closed(chart'[r])]_vars

\* An ingest that returned left, for every bar its file gives, a bar under that key in
\* the table, whatever was there before and however often the file was run.
IngestedIsDerived ==
    \A file \in ingested : \A i \in DOMAIN Derived :
        \A x \in Aggregate({Minute(m) : m \in file}, Derived[i]) : Taken(x)

----------------------------------------------------------------------------
(* What the code's comments and documents say and its runs refute. *)

\* service.go: a feed's window is immutable once built.
WindowNeverChanges ==
    \A r \in Readers : window[r] # NoWindow => window[r].rows = built

\* aggregate.go: a bucket the input only partly covered is not a bar.
DerivedIsWhole ==
    \A x \in table : x.of = {m \in Minutes : Minute(m) \in table /\ Bucket(Minute(m), x.tf) = x.at}
=============================================================================
