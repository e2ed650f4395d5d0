--------------------------- MODULE DashboardCache ---------------------------
(***************************************************************************)
(* DashboardService: the answers of the two dashboards and the cache in    *)
(* front of the tables.  What summaries and charts compute is in           *)
(* Reporting; here a table is a version, raised by every webhook and job   *)
(* that writes it, and an answer tells which version it shows, for which   *)
(* days.  The cache keeps an entry until its time to live has passed.      *)
(***************************************************************************)
EXTENDS Integers

CONSTANTS
    Client,
    Query,          \* records of kind, biz, zone, from, to, groupBy, sources
    None,           \* a parameter that is left out
    BizZone,        \* the zone of each business
    Offset,         \* of a zone, in units of the clock
    DayLength,      \* in units of the clock
    Ttl,
    MaxRun,         \* bound: how long a request takes
    MaxClock,       \* bound on the clock
    MaxVersion      \* bound on the changes of the tables

ASSUME CacheAssumption ==
    /\ DayLength \in Nat \ {0} /\ Ttl \in Nat /\ MaxRun \in Nat /\ MaxClock \in Nat

VARIABLES
    clock, version,
    cache,          \* entries by key, with the time they expire
    job,            \* the request each client is waiting for
    served,         \* the answer the last step gave, if any, with the query and the time
    past            \* history: the version at the beginning of each unit of time

vars == <<clock, version, cache, job, served, past>>

-----------------------------------------------------------------------------

Zone(q) == IF q.zone = None THEN BizZone[q.biz] ELSE q.zone
LocalDay(z, t) == (t + Offset[z]) \div DayLength

\* The days a query is about when it is asked at time t.
From(q, t) == IF q.from = None THEN LocalDay(Zone(q), t) - 29 ELSE LocalDay(Zone(q), q.from)
To(q, t) == LocalDay(Zone(q), IF q.to = None THEN t ELSE q.to)

InferGrouping(days) ==
    IF days <= 31 THEN "day" ELSE IF days <= 180 THEN "week" ELSE "month"

GroupBy(q, t) ==
    IF q.groupBy = None
    THEN InferGrouping(LET d == To(q, t) - From(q, t) + 1 IN IF d < 1 THEN 1 ELSE d)
    ELSE q.groupBy

\* What is shown: the static dashboard has the windows that end today, and no chart.
Selection(q, t) ==
    [kind |-> q.kind, biz |-> q.biz, zone |-> Zone(q), sources |-> q.sources,
     from |-> From(q, t), to |-> To(q, t),
     group |-> IF q.kind = "static" THEN None ELSE GroupBy(q, t)]

\* Variant: the zone is not part of the key.
KeyWithoutZone(q) ==
    [kind |-> q.kind, biz |-> q.biz, sources |-> q.sources,
     from |-> q.from, to |-> q.to, groupBy |-> q.groupBy]

\* The parameters as they were given: without dates, it says nothing of the day.
Key(q) ==
    [kind |-> q.kind, biz |-> q.biz, zone |-> q.zone, sources |-> q.sources,
     from |-> q.from, to |-> q.to, groupBy |-> q.groupBy]

Keys == {Key(q) : q \in Query}

-----------------------------------------------------------------------------

Idle == [pc |-> "idle"]

Init ==
    /\ clock = 0 /\ version = 0
    /\ cache = [k \in Keys |-> None]
    /\ job = [c \in Client |-> Idle]
    /\ served = None
    /\ past = [t \in 0..MaxClock |-> 0]

Serve(c, q, answer) ==
    /\ served' = [query |-> q, answer |-> answer, at |-> clock]
    /\ job' = [job EXCEPT ![c] = Idle]

Fresh(k) == cache[k] # None /\ clock <= cache[k].expires

\* A miss looks up the business, and fixes the moment the days are counted from.
Get(c, q) ==
    /\ job[c].pc = "idle"
    /\ IF Fresh(Key(q))
       THEN Serve(c, q, cache[Key(q)].answer)
       ELSE /\ job' = [job EXCEPT ![c] =
                          [pc |-> "read", query |-> q, now |-> clock,
                           summary |-> None, chart |-> None]]
            /\ served' = None
    /\ UNCHANGED <<clock, version, cache, past>>

\* Summary and chart are queried side by side, outside a transaction.
ReadSummary(c) ==
    /\ job[c].pc = "read" /\ job[c].summary = None
    /\ job' = [job EXCEPT ![c].summary = version]
    /\ served' = None /\ UNCHANGED <<clock, version, cache, past>>

ReadChart(c) ==
    /\ job[c].pc = "read" /\ job[c].query.kind = "range" /\ job[c].chart = None
    /\ job' = [job EXCEPT ![c].chart = version]
    /\ served' = None /\ UNCHANGED <<clock, version, cache, past>>

\* Overwrites the entry of another request that was quicker.
SetAndServe(c) ==
    LET j == job[c]
        answer == [shows |-> Selection(j.query, j.now),
                   summary |-> j.summary, chart |-> j.chart] IN
    /\ j.pc = "read" /\ j.summary # None /\ (j.query.kind = "range" => j.chart # None)
    /\ cache' = [cache EXCEPT ![Key(j.query)] =
                    [answer |-> answer, expires |-> clock + Ttl]]
    /\ Serve(c, j.query, answer)
    /\ UNCHANGED <<clock, version, past>>

\* A query of the tables fails: an error is answered and nothing is kept.
Fail(c) ==
    /\ job[c].pc = "read"
    /\ job' = [job EXCEPT ![c] = Idle]
    /\ served' = None /\ UNCHANGED <<clock, version, cache, past>>

Change ==
    /\ version < MaxVersion
    /\ version' = version + 1
    /\ served' = None /\ UNCHANGED <<clock, cache, job, past>>

Tick ==
    /\ clock < MaxClock
    /\ \A c \in Client : job[c].pc = "read" => clock - job[c].now < MaxRun
    /\ clock' = clock + 1
    /\ past' = [past EXCEPT ![clock + 1] = version]
    /\ served' = None /\ UNCHANGED <<version, cache, job>>

Next ==
    \/ \E c \in Client :
          \/ \E q \in Query : Get(c, q)
          \/ ReadSummary(c) \/ ReadChart(c) \/ SetAndServe(c) \/ Fail(c)
    \/ Change
    \/ Tick

Spec == Init /\ [][Next]_vars

-----------------------------------------------------------------------------
(* Properties *)

\* An answer, cached or not, is about what was asked: the zone, the sources and the days as
\* they were at most Ttl and one request before.  Its summary and its chart, which may be of
\* different moments, are no older than that, even if a slow request has overwritten the
\* entry of a later one.
ServedAsAsked ==
    served # None =>
        LET age == Ttl + MaxRun
            oldest == IF served.at < age THEN 0 ELSE served.at - age IN
        /\ \E t \in oldest..served.at : served.answer.shows = Selection(served.query, t)
        /\ served.answer.summary >= past[oldest]
        /\ served.query.kind = "range" => served.answer.chart >= past[oldest]

=============================================================================
