------------------------- MODULE DashboardCacheProofs -------------------------
(***************************************************************************)
(* What DashboardCache promises of its answers, for any queries, clients,  *)
(* zones and clock, any time to live and any length of a request.          *)
(***************************************************************************)
EXTENDS DashboardCache, TLAPS

-----------------------------------------------------------------------------
(* Keys *)

\* The key says all that the answer depends on but the time.
LEMMA KeyDetermines ==
    ASSUME NEW p, NEW q, NEW t, Key(p) = Key(q)
    PROVE  Selection(p, t) = Selection(q, t)
<1>1. /\ p.kind = q.kind /\ p.biz = q.biz /\ p.zone = q.zone /\ p.sources = q.sources
      /\ p.from = q.from /\ p.to = q.to /\ p.groupBy = q.groupBy
  BY DEF Key
<1>2. Zone(p) = Zone(q)
  BY <1>1 DEF Zone
<1>3. From(p, t) = From(q, t) /\ To(p, t) = To(q, t)
  BY <1>1, <1>2 DEF From, To
<1>4. GroupBy(p, t) = GroupBy(q, t)
  BY <1>1, <1>3 DEF GroupBy
<1> QED
  BY <1>1, <1>2, <1>3, <1>4 DEF Selection

-----------------------------------------------------------------------------
(* The invariant *)

Reading == [pc : {"read"}, query : Query, now : Nat,
            summary : Nat \cup {None}, chart : Nat \cup {None}]

\* What was read at some time of the request is at least as new as when it began.
AsNewAs(t, summary, chart) ==
    /\ summary # None => past[t] <= summary
    /\ chart # None => past[t] <= chart

\* An answer to q that was begun at time t.
BegunAt(q, answer, t) ==
    /\ answer.shows = Selection(q, t)
    /\ answer.summary \in Nat /\ past[t] <= answer.summary
    /\ q.kind = "range" => answer.chart \in Nat /\ past[t] <= answer.chart

\* The clock, the versions and their history.
Dated ==
    /\ clock \in 0..MaxClock /\ version \in Nat
    /\ past \in [0..MaxClock -> Nat]
    /\ \A t \in 0..clock : past[t] <= version
    /\ \A t, u \in 0..clock : t <= u => past[t] <= past[u]

Running ==
    /\ job \in [Client -> Reading \cup {Idle}]
    /\ \A c \in Client : job[c].pc = "read" =>
           /\ job[c].now \in 0..clock /\ clock - job[c].now <= MaxRun
           /\ AsNewAs(job[c].now, job[c].summary, job[c].chart)

\* An entry is the answer to every query of its key, of a request that ended Ttl before it
\* expires and began at most MaxRun before that.
Cached ==
    /\ cache = [k \in Keys |-> cache[k]]
    /\ \A q \in Query : cache[Key(q)] # None =>
           \E t \in 0..clock :
               /\ cache[Key(q)].expires \in Nat
               /\ cache[Key(q)].expires <= t + MaxRun + Ttl
               /\ BegunAt(q, cache[Key(q)].answer, t)

Inv == Dated /\ Running /\ Cached /\ ServedAsAsked

\* An answer that was begun recently enough may be served.
LEMMA Served ==
    ASSUME Inv, NEW q \in Query, NEW answer, NEW t \in 0..clock,
           clock <= t + MaxRun + Ttl, BegunAt(q, answer, t),
           served' = [query |-> q, answer |-> answer, at |-> clock],
           UNCHANGED <<clock, past>>
    PROVE  ServedAsAsked'
<1> DEFINE age == Ttl + MaxRun
           oldest == IF clock < age THEN 0 ELSE clock - age
<1>1. oldest \in 0..clock /\ oldest <= t /\ t \in oldest..clock
  BY CacheAssumption DEF Inv, Dated
<1>2. past[oldest] <= past[t] /\ past[oldest] \in Nat /\ past[t] \in Nat
  <2>1. oldest \in 0..MaxClock /\ t \in 0..MaxClock
    BY <1>1, CacheAssumption DEF Inv, Dated
  <2> HIDE DEF oldest
  <2> QED
    BY <1>1, <2>1 DEF Inv, Dated
<1>3. /\ \E u \in oldest..clock : answer.shows = Selection(q, u)
      /\ answer.summary >= past[oldest]
      /\ q.kind = "range" => answer.chart >= past[oldest]
  BY <1>1, <1>2 DEF BegunAt
<1>4. served'.query = q /\ served'.answer = answer /\ served'.at = clock
  OBVIOUS
<1> QED
  BY <1>3, <1>4 DEF ServedAsAsked

-----------------------------------------------------------------------------
(* One step *)

LEMMA InitInv == Init => Inv
<1> SUFFICES ASSUME Init PROVE Inv
  OBVIOUS
<1>1. Dated
  BY CacheAssumption DEF Init, Dated
<1>2. Running
  BY DEF Init, Running, Idle
<1>3. Cached
  BY DEF Init, Cached, Keys
<1> QED
  BY <1>1, <1>2, <1>3 DEF Init, Inv, ServedAsAsked

LEMMA GetStep ==
    ASSUME Inv, NEW c \in Client, NEW q \in Query, Get(c, q)
    PROVE  Inv'
<1> USE DEF Inv
<1>0. UNCHANGED <<clock, version, cache, past>> /\ clock \in 0..MaxClock
  BY DEF Get, Dated
<1>1. Dated' /\ Cached'
  BY <1>0 DEF Dated, Cached, BegunAt
<1>2. CASE Fresh(Key(q))
  <2>1. PICK t \in 0..clock :
          /\ cache[Key(q)].expires \in Nat
          /\ cache[Key(q)].expires <= t + MaxRun + Ttl
          /\ BegunAt(q, cache[Key(q)].answer, t)
    BY <1>2 DEF Fresh, Cached
  <2>2. clock <= t + MaxRun + Ttl
    BY <1>0, <1>2, <2>1, CacheAssumption DEF Fresh
  <2>3. Serve(c, q, cache[Key(q)].answer)
    BY <1>2 DEF Get
  <2>4. ServedAsAsked'
    BY <1>0, <2>1, <2>2, <2>3, Served DEF Serve
  <2>5. Running'
    BY <1>0, <2>3 DEF Serve, Running, AsNewAs, Idle
  <2> QED
    BY <1>1, <2>4, <2>5
<1>3. CASE ~Fresh(Key(q))
  <2> DEFINE j == [pc |-> "read", query |-> q, now |-> clock, summary |-> None, chart |-> None]
  <2>1. job' = [job EXCEPT ![c] = j] /\ served' = None
    BY <1>3 DEF Get
  <2>2. /\ j \in Reading /\ j.now \in 0..clock /\ clock - j.now <= MaxRun
        /\ AsNewAs(j.now, j.summary, j.chart)
    BY <1>0, CacheAssumption DEF Reading, AsNewAs
  <2> HIDE DEF j
  <2>3. Running'
    BY <1>0, <2>1, <2>2 DEF Running, AsNewAs
  <2> QED
    BY <1>1, <2>1, <2>3 DEF ServedAsAsked
<1> QED
  BY <1>2, <1>3

LEMMA ReadStep ==
    ASSUME Inv, NEW c \in Client, ReadSummary(c) \/ ReadChart(c) \/ Fail(c)
    PROVE  Inv'
<1> USE DEF Inv
<1>0. /\ UNCHANGED <<clock, version, cache, past>> /\ served' = None
      /\ job[c].pc = "read" /\ job[c] \in Reading
      /\ job[c].now \in 0..clock /\ past[job[c].now] <= version /\ version \in Nat
  BY DEF ReadSummary, ReadChart, Fail, Running, Dated, Idle
<1>1. Dated' /\ Cached' /\ ServedAsAsked'
  BY <1>0 DEF Dated, Cached, BegunAt, ServedAsAsked
<1> DEFINE s == [job[c] EXCEPT !.summary = version]
           h == [job[c] EXCEPT !.chart = version]
<1>2. job' = [job EXCEPT ![c] = s] \/ job' = [job EXCEPT ![c] = h]
      \/ job' = [job EXCEPT ![c] = Idle]
  BY DEF ReadSummary, ReadChart, Fail
<1>3. /\ s \in Reading /\ s.now = job[c].now /\ s.summary = version /\ s.chart = job[c].chart
      /\ h \in Reading /\ h.now = job[c].now /\ h.summary = job[c].summary /\ h.chart = version
  BY <1>0 DEF Reading
<1> HIDE DEF s, h
<1>4. AsNewAs(s.now, s.summary, s.chart) /\ AsNewAs(h.now, h.summary, h.chart)
  BY <1>0, <1>3 DEF Running, AsNewAs
<1>5. Running'
  BY <1>0, <1>2, <1>3, <1>4 DEF Running, AsNewAs, Idle
<1> QED
  BY <1>1, <1>5

LEMMA SetStep ==
    ASSUME Inv, NEW c \in Client, SetAndServe(c)
    PROVE  Inv'
<1> USE DEF Inv
<1> DEFINE j == job[c]
           answer == [shows |-> Selection(j.query, j.now),
                      summary |-> j.summary, chart |-> j.chart]
           entry == [answer |-> answer, expires |-> clock + Ttl]
<1>0. /\ j.pc = "read" /\ j \in Reading /\ j.query \in Query
      /\ j.now \in 0..clock /\ clock - j.now <= MaxRun
      /\ AsNewAs(j.now, j.summary, j.chart)
      /\ UNCHANGED <<clock, version, past>>
      /\ clock \in Nat
  BY CacheAssumption DEF SetAndServe, Running, Dated, Idle, Reading
<1>1. /\ j.summary # None /\ (j.query.kind = "range" => j.chart # None)
      /\ cache' = [cache EXCEPT ![Key(j.query)] = entry]
      /\ Serve(c, j.query, answer)
  BY DEF SetAndServe
<1>2. \A q \in Query : Key(q) = Key(j.query) => BegunAt(q, answer, j.now)
  <2> SUFFICES ASSUME NEW q \in Query, Key(q) = Key(j.query)
               PROVE  BegunAt(q, answer, j.now)
    OBVIOUS
  <2>1. Selection(q, j.now) = Selection(j.query, j.now) /\ q.kind = j.query.kind
    BY KeyDetermines DEF Key
  <2>2. j.summary \in Nat /\ (j.query.kind = "range" => j.chart \in Nat)
    BY <1>0, <1>1 DEF Reading
  <2> QED
    BY <1>0, <1>1, <2>1, <2>2 DEF BegunAt, AsNewAs
<1>3. /\ entry.answer = answer /\ entry.expires \in Nat
      /\ entry.expires <= j.now + MaxRun + Ttl
      /\ clock <= j.now + MaxRun + Ttl
  BY <1>0, CacheAssumption
<1> HIDE DEF entry, answer, j
<1>4. Cached'
  <2>1. cache' = [k \in Keys |-> cache'[k]]
    BY <1>1 DEF Cached
  <2>2. ASSUME NEW q \in Query, cache'[Key(q)] # None
        PROVE  \E t \in 0..clock :
                   /\ cache'[Key(q)].expires \in Nat
                   /\ cache'[Key(q)].expires <= t + MaxRun + Ttl
                   /\ BegunAt(q, cache'[Key(q)].answer, t)
    <3>0. Key(q) \in Keys
      BY DEF Keys
    <3>1. CASE Key(q) = Key(j.query)
      <4>1. cache'[Key(q)] = entry
        BY <1>1, <3>0, <3>1 DEF Cached
      <4> QED
        BY <1>0, <1>2, <1>3, <3>1, <4>1
    <3>2. CASE Key(q) # Key(j.query)
      <4>1. cache'[Key(q)] = cache[Key(q)]
        BY <1>1, <3>0, <3>2 DEF Cached
      <4> QED
        BY <2>2, <4>1 DEF Cached
    <3> QED
      BY <3>1, <3>2
  <2> QED
    BY <1>0, <2>1, <2>2 DEF Cached, BegunAt
<1>5. ServedAsAsked'
  BY <1>0, <1>1, <1>2, <1>3, Served DEF Serve
<1>6. Running'
  BY <1>0, <1>1 DEF Serve, Running, AsNewAs, Idle
<1> QED
  BY <1>0, <1>4, <1>5, <1>6 DEF Dated

LEMMA TimeStep ==
    ASSUME Inv, Change \/ Tick
    PROVE  Inv'
<1> USE DEF Inv
<1>0. /\ served' = None /\ UNCHANGED <<cache, job>>
      /\ clock \in Nat /\ clock <= MaxClock /\ MaxClock \in Nat
      /\ version \in Nat /\ version <= version'
      /\ clock' \in Nat /\ clock <= clock' /\ version' \in Nat
      /\ \A t \in 0..clock : past'[t] = past[t]
  BY CacheAssumption DEF Change, Tick, Dated
<1>1. Dated'
  <2>1. CASE Change
    BY <1>0, <2>1 DEF Change, Dated
  <2>2. CASE Tick
    <3>1. clock' = clock + 1 /\ clock' \in 0..MaxClock /\ past' \in [0..MaxClock -> Nat]
      BY <1>0, <2>2 DEF Tick, Dated
    <3>2. past'[clock'] = version /\ version' = version
      BY <1>0, <2>2, <3>1 DEF Tick, Dated
    <3>3. \A t \in 0..clock' : past'[t] <= version'
      BY <1>0, <3>1, <3>2 DEF Dated
    <3>4. ASSUME NEW t \in 0..clock', NEW u \in 0..clock', t <= u
          PROVE  past'[t] <= past'[u]
      <4>1. CASE u = clock'
        BY <3>2, <3>3, <4>1
      <4>2. CASE u # clock'
        BY <1>0, <3>1, <3>4, <4>2 DEF Dated
      <4> QED
        BY <4>1, <4>2
    <3> QED
      BY <1>0, <3>1, <3>2, <3>3, <3>4 DEF Dated
  <2> QED
    BY <2>1, <2>2
<1>2. Cached'
  <2>1. \A q, answer : \A t \in 0..clock : BegunAt(q, answer, t) => BegunAt(q, answer, t)'
    BY <1>0 DEF BegunAt
  <2>2. 0..clock \subseteq 0..clock'
    BY <1>0
  <2> QED
    BY <1>0, <2>1, <2>2 DEF Cached
<1>3. Running'
  <2>1. ASSUME NEW c \in Client, job[c].pc = "read"
        PROVE  /\ job[c].now \in 0..clock' /\ clock' - job[c].now <= MaxRun
               /\ AsNewAs(job[c].now, job[c].summary, job[c].chart)'
    <3>1. job[c].now \in 0..clock /\ clock - job[c].now <= MaxRun
          /\ AsNewAs(job[c].now, job[c].summary, job[c].chart)
      BY <2>1 DEF Running
    <3>2. clock' - job[c].now <= MaxRun
      BY <1>0, <2>1, <3>1, CacheAssumption DEF Change, Tick
    <3> QED
      BY <1>0, <3>1, <3>2 DEF AsNewAs
  <2> QED
    BY <1>0, <2>1 DEF Running
<1> QED
  BY <1>0, <1>1, <1>2, <1>3 DEF ServedAsAsked

\* What is served, from the cache or not, is what was asked for, as it was at most Ttl and
\* the time of one request ago; the days of a query without dates move on with that delay.
THEOREM AnswersAreRecent == Spec => []ServedAsAsked
<1>1. Inv /\ [Next]_vars => Inv'
  <2> SUFFICES ASSUME Inv, [Next]_vars PROVE Inv'
    OBVIOUS
  <2>1. CASE UNCHANGED vars
    BY <2>1 DEF vars, Inv, Dated, Running, Cached, AsNewAs, BegunAt, ServedAsAsked
  <2> QED
    BY <2>1, GetStep, ReadStep, SetStep, TimeStep DEF Next
<1>2. Inv => ServedAsAsked
  BY DEF Inv
<1> QED
  BY <1>1, <1>2, InitInv, PTL DEF Spec

=============================================================================
