----------------------------- MODULE Reporting -----------------------------
(***************************************************************************)
(* From finished calls to the dashboard: HourlyRollupService adds each     *)
(* call to the row of its UTC hour, and the dashboard sums those rows over *)
(* windows and buckets of days of the viewer's time zone.                  *)
(*                                                                         *)
(* Time is counted in ticks, HOUR of them to an hour.  A time zone is      *)
(* given by the ticks at which its days begin, so days may be longer or    *)
(* shorter (daylight saving) and need not begin on the hour of UTC.  One   *)
(* second is less than a tick; "a second earlier" is the tick before.      *)
(* One business; the seconds of a call are added just like the call.       *)
(***************************************************************************)
EXTENDS Integers, FiniteSets, Functions

CONSTANTS
    Call, Source, None,
    Moment,     \* when calls start
    Verdict,    \* what the analysis makes of a call
    LAST_DAY,
    Zone,
    DayStart,   \* [Zone -> [1..LAST_DAY + 1 -> tick]]
    Grouping,
    FirstDay,   \* [Grouping -> [Day -> first day of its bucket]]
    HOUR

Day == 1..LAST_DAY
Results == {"none", "not_connected", "appointment_requested", "appointment_booked",
            "appointment_rescheduled"}
Departments == {"none", "sales", "service"}

ASSUME CallAssumption == IsFiniteSet(Call)
ASSUME TimeAssumption == Moment \subseteq Int /\ HOUR \in Nat \ {0} /\ LAST_DAY \in Nat
ASSUME VerdictAssumption ==
    Verdict \subseteq [department : Departments, result : Results, sentiment : 1..5]
\* The days of every zone follow each other, and every call is on one of them.
ASSUME ZoneAssumption ==
    \A z \in Zone :
        /\ \A d \in 1..LAST_DAY + 1 : DayStart[z][d] \in Int
        /\ \A d \in Day : DayStart[z][d] < DayStart[z][d + 1]
        /\ \A m \in Moment : \E d \in Day : DayStart[z][d] <= m /\ m < DayStart[z][d + 1]
ASSUME GroupingAssumption ==
    \A g \in Grouping : \A d \in Day :
        /\ FirstDay[g][d] \in 1..d
        /\ \A e \in FirstDay[g][d]..d : FirstDay[g][e] = FirstDay[g][d]

CallRow == [at : Moment, source : Source \cup {None}, department : Departments,
            result : Results, sentiment : 1..5 \cup {None}, answered : BOOLEAN]

ASSUME NoneAssumption == None \notin Source /\ None \notin 1..5 /\ None \notin CallRow

VARIABLES
    calls,      \* the call_logs rows, as far as reporting reads them
    volume,     \* call_volume_hourly
    kpis,       \* call_department_hourly_kpis
    toVolume,   \* calls whose volume statement is on its way
    toKpis,     \* calls whose KPI statement is on its way
    inVolume,   \* history: calls whose volume statement has run
    inKpis      \* history: calls whose KPI statement has run

vars == <<calls, volume, kpis, toVolume, toKpis, inVolume, inKpis>>

Amount == 0..Cardinality(Call)
HourStart == {m - (m % HOUR) : m \in Moment}

\* A row: the call that inserted it, the columns of the unique key, and the totals.
VolumeRow == [id : Call,
              key : [source : Source \cup {None}, hour : HourStart],
              total : [calls : Amount]]

KpiRow == [id : Call,
           key : [source : Source \cup {None}, hour : HourStart, department : Departments],
           total : [calls : Amount, connected : Amount, requested : Amount, booked : Amount,
                    sentiment : 0..5 * Cardinality(Call), rated : Amount]]

TypeOK ==
    /\ calls \in [Call -> CallRow \cup {None}]
    /\ volume \subseteq VolumeRow /\ kpis \subseteq KpiRow
    /\ toVolume \subseteq Call /\ toKpis \subseteq Call
    /\ inVolume \subseteq Call /\ inKpis \subseteq Call

Init ==
    /\ calls = [c \in Call |-> None]
    /\ volume = {} /\ kpis = {}
    /\ toVolume = {} /\ toKpis = {}
    /\ inVolume = {} /\ inKpis = {}

-----------------------------------------------------------------------------
(* HourlyRollupService *)

\* The hour of UTC a tick belongs to: its first and its last tick.
StartOfHour(m) == m - (m % HOUR)
EndOfHour(m) == StartOfHour(m) + HOUR - 1

\* INSERT ... ON CONFLICT DO UPDATE.  The key holds the source, and NULL is no conflict
\* with NULL: a call without a source gets a row of its own.
Upsert(rows, row) ==
    LET there == {r \in rows : r.key = row.key /\ row.key.source # None} IN
    IF there = {} THEN rows \cup {row}
    ELSE (rows \ there)
         \cup {[r EXCEPT !.total = [f \in DOMAIN r.total |-> r.total[f] + row.total[f]]] :
                  r \in there}

VolumeIncrement(c) ==
    [id |-> c, key |-> [source |-> calls[c].source, hour |-> StartOfHour(calls[c].at)],
     total |-> [calls |-> 1]]

AddToVolume(c) == Upsert(volume, VolumeIncrement(c))

One(condition) == IF condition THEN 1 ELSE 0

\* Variant: every call is counted as rated.
KpiTotalsRateAll(log) ==
    [calls |-> 1,
     connected |-> One(log.result # "not_connected"),
     requested |-> One(log.result = "appointment_requested"),
     booked |-> One(log.result \in {"appointment_booked", "appointment_rescheduled"}),
     sentiment |-> IF log.sentiment = None THEN 0 ELSE log.sentiment,
     rated |-> 1]

\* buildKpiIncrements
KpiTotals(log) ==
    [calls |-> 1,
     connected |-> One(log.result # "not_connected"),
     requested |-> One(log.result = "appointment_requested"),
     booked |-> One(log.result \in {"appointment_booked", "appointment_rescheduled"}),
     sentiment |-> IF log.sentiment = None THEN 0 ELSE log.sentiment,
     rated |-> One(log.sentiment # None)]

AddToKpis(c) ==
    LET log == calls[c] IN
    Upsert(kpis, [id |-> c, total |-> KpiTotals(log),
                  key |-> [source |-> log.source, hour |-> StartOfHour(log.at),
                           department |-> log.department]])

\* A call ends: the status webhook writes the row and starts the rollups, both of them
\* for a call that nobody answered.
CallEnds(c, m, s, answered) ==
    /\ calls[c] = None
    /\ calls' = [calls EXCEPT ![c] =
          [at |-> m, source |-> s, department |-> "none", sentiment |-> None,
           result |-> IF answered THEN "none" ELSE "not_connected",
           answered |-> answered]]
    /\ toVolume' = toVolume \cup {c}
    /\ toKpis' = IF answered THEN toKpis ELSE toKpis \cup {c}
    /\ UNCHANGED <<volume, kpis, inVolume, inKpis>>

\* The recording has been analysed; the KPIs follow.
Classified(c, v) ==
    /\ calls[c] # None /\ calls[c].answered
    /\ c \notin toKpis \cup inKpis
    /\ calls' = [calls EXCEPT ![c].department = v.department, ![c].result = v.result,
                              ![c].sentiment = v.sentiment]
    /\ toKpis' = toKpis \cup {c}
    /\ UNCHANGED <<volume, kpis, toVolume, inVolume, inKpis>>

AddVolume(c) ==
    /\ c \in toVolume
    /\ volume' = AddToVolume(c)
    /\ toVolume' = toVolume \ {c}
    /\ inVolume' = inVolume \cup {c}
    /\ UNCHANGED <<calls, kpis, toKpis, inKpis>>

AddKpi(c) ==
    /\ c \in toKpis
    /\ kpis' = AddToKpis(c)
    /\ toKpis' = toKpis \ {c}
    /\ inKpis' = inKpis \cup {c}
    /\ UNCHANGED <<calls, volume, toVolume, inVolume>>

Next == \E c \in Call :
    \/ \E m \in Moment, s \in Source \cup {None}, answered \in BOOLEAN :
           CallEnds(c, m, s, answered)
    \/ \E v \in Verdict : Classified(c, v)
    \/ AddVolume(c)
    \/ AddKpi(c)

Spec == Init /\ [][Next]_vars

-----------------------------------------------------------------------------
(* Dashboard: what is asked of the tables *)

\* startOf('day') and endOf('day') in zone z.
StartOfDay(z, d) == DayStart[z][d]
EndOfDay(z, d) == DayStart[z][d + 1] - 1

DayOf(z, m) == CHOOSE d \in Day : StartOfDay(z, d) <= m /\ m <= EndOfDay(z, d)

\* BETWEEN the hour the window begins in and the hour it ends in; no source is no filter.
Fetch(rows, from, to, sources) ==
    {r \in rows : /\ StartOfHour(from) <= r.key.hour /\ r.key.hour <= EndOfHour(to)
                  /\ sources = {} \/ r.key.source \in sources}

Total(rows, column) == SumFunctionOnSet([r \in rows |-> r.total[column]], rows)

Department(department) == {r \in kpis : r.key.department = department}

\* The selected days; today, the last 7 and the last 30 days are such selections.
Selected(z, first, last, department, sources) ==
    Fetch(Department(department), StartOfDay(z, first), EndOfDay(z, last), sources)

\* Variant: up to the beginning of the selection instead of a second before.
PreviousTouching(z, first, last, department, sources) ==
    LET to == StartOfDay(z, first)
        from == StartOfDay(z, DayOf(z, to) - (last - first + 1)) IN
    Fetch(Department(department), from, to, sources)

\* As many days before the selection.
Previous(z, first, last, department, sources) ==
    LET to == StartOfDay(z, first) - 1
        from == StartOfDay(z, DayOf(z, to) - (last - first)) IN
    Fetch(Department(department), from, to, sources)

Percent(a, b) == IF b = 0 THEN 0 ELSE (200 * a + b) \div (2 * b)

Kpis(rows) ==
    LET booked == Total(rows, "booked") IN
    [conversationRatePercent |-> Percent(booked, Total(rows, "connected")),
     bookingRatePercent |-> Percent(booked, Total(rows, "requested") + booked),
     sentimentSum |-> Total(rows, "sentiment"),
     sentimentCount |-> Total(rows, "rated")]

\* Variant: rows are put into buckets by their day of UTC (a zone "utc" of the instance).
BucketOfUtc(z, g, m) == FirstDay[g][DayOf("utc", m)]

BucketOf(z, g, m) == FirstDay[g][DayOf(z, m)]

\* Calls per bucket.  Rows are fetched up to the hour in which the LAST bucket begins.
Chart(z, first, last, g, sources) ==
    LET rangeStart == FirstDay[g][first]
        rangeEnd == FirstDay[g][last]
        rows == Fetch(volume, StartOfDay(z, rangeStart), StartOfDay(z, rangeEnd), sources)
        buckets == {BucketOf(z, g, r.key.hour) : r \in rows}
                   \cup {FirstDay[g][d] : d \in rangeStart..rangeEnd} IN
    [b \in buckets |-> Total({r \in rows : BucketOf(z, g, r.key.hour) = b}, "calls")]

-----------------------------------------------------------------------------
(* Properties *)

\* The zone's days begin on the hour of UTC.
OnTheHour(z) == \A d \in 1..LAST_DAY + 1 : DayStart[z][d] % HOUR = 0

SourceFilters == {{}} \cup {{s} : s \in Source}

\* Selections whose previous period lies in the days of the model.
Selections == {p \in Day \X Day : p[1] <= p[2] /\ p[2] - p[1] + 1 < p[1]}

CallsOn(C, z, days, sources) ==
    {c \in C : DayOf(z, calls[c].at) \in days
               /\ (sources = {} \/ calls[c].source \in sources)}

\* n is the number of calls in C; more are allowed where days begin within an hour.
Counts(n, C, z) ==
    IF OnTheHour(z) THEN n = Cardinality(C) ELSE n >= Cardinality(C)

\* A summary counts the calls of its days and compares them with the calls of exactly as
\* many days before, whatever the time zone and the order of the statements; a zone off
\* the hour may count a call of the hour it shares with the next day twice, and misses none.
WindowsCountTheirDays ==
    \A z \in Zone, p \in Selections, department \in {"sales", "service"},
       sources \in SourceFilters :
        LET C == {c \in inKpis : calls[c].department = department}
            span == p[2] - p[1] + 1 IN
        /\ Counts(Total(Selected(z, p[1], p[2], department, sources), "calls"),
                  CallsOn(C, z, p[1]..p[2], sources), z)
        /\ Counts(Total(Previous(z, p[1], p[2], department, sources), "calls"),
                  CallsOn(C, z, p[1] - span..p[1] - 1, sources), z)

\* A point of the chart shows the calls of its bucket, except that the last point shows
\* only those of the hour in which its bucket begins.
ChartShowsItsBuckets ==
    \A z \in {y \in Zone : OnTheHour(y)}, p \in Selections, g \in Grouping,
       sources \in SourceFilters :
        LET chart == Chart(z, p[1], p[2], g, sources)
            end == FirstDay[g][p[2]]
            lastHour == StartOfDay(z, end) IN
        /\ DOMAIN chart = {FirstDay[g][d] : d \in p[1]..p[2]}
        /\ \A b \in DOMAIN chart :
               LET bucket == {c \in CallsOn(inVolume, z, Day, sources) :
                                 BucketOf(z, g, calls[c].at) = b} IN
               chart[b] = Cardinality(IF b # end THEN bucket
                                      ELSE {c \in bucket : calls[c].at <= EndOfHour(lastHour)})

\* Rates are percentages from 0 to 100 and the mean sentiment lies between 1 and 5 for
\* every selection, however answered, missed and unrated calls are mixed in it.
KpisMakeSense ==
    \A z \in Zone, p \in Selections, department \in Departments :
        LET k == Kpis(Selected(z, p[1], p[2], department, {})) IN
        /\ k.conversationRatePercent \in 0..100
        /\ k.bookingRatePercent \in 0..100
        /\ k.sentimentCount <= k.sentimentSum /\ k.sentimentSum <= 5 * k.sentimentCount

=============================================================================
