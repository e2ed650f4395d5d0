------------------------- MODULE ConfigurationProofs -------------------------
(***************************************************************************)
(* Theorems about Configuration for any number of numbers, sources,        *)
(* handlers and retries.                                                   *)
(***************************************************************************)
EXTENDS Configuration, TLAPS

UpState == [pc : {"idle", "load", "route", "find", "write", "commit"},
            n : Num \cup {None}, fwd : Forward \cup {None, Keep},
            src : Source \cup {None, Keep}, try : 0..MAX_RETRIES]
RmState == [pc : {"idle", "twilio", "row", "route", "commit"}, n : Num \cup {None}]
DelState == [pc : {"idle", "mark", "list", "detach", "commit"}, s : Source \cup {None},
             todo : SUBSET Num, at : Num \cup {None}, late : SUBSET Num]

\* What a handler is busy with, which its type does not tell.
Busy ==
    /\ \A u \in Updater :
           IF up[u].pc = "idle" THEN up[u].n = None
           ELSE /\ up[u].n \in Num /\ up[u].try >= 1
                /\ up[u].pc = "route" => up[u].fwd # Keep
                /\ up[u].pc = "find" => up[u].src \in Source
                /\ up[u].pc = "write" => up[u].src # Keep
    /\ \A d \in Remover : IF rm[d].pc = "idle" THEN rm[d].n = None ELSE rm[d].n \in Num
    /\ \A x \in Deleter :
           /\ del[x].pc # "idle" => del[x].s \in Source
           /\ del[x].pc = "detach" => del[x].at \in Num
           /\ del[x].pc = "commit" => del[x].todo = {}

\* Who has locked what: nobody keeps a lock past the transaction that took it.
Held ==
    /\ \A n \in Num, u \in Updater :
           /\ rowLock[n] = u => up[u].pc = "commit" /\ up[u].n = n /\ up[u].src # Keep
           /\ routeLock[n] = u => /\ up[u].pc \in {"find", "write", "commit"}
                                 /\ up[u].n = n /\ up[u].fwd # Keep
    /\ \A n \in Num, d \in Remover :
           /\ rowLock[n] = d => rm[d].pc \in {"route", "commit"} /\ rm[d].n = n
           /\ routeLock[n] = d => rm[d].pc = "commit" /\ rm[d].n = n
    /\ \A n \in Num, x \in Deleter :
           rowLock[n] = x => del[x].pc \in {"detach", "commit"}
    /\ \A d \in Remover : rm[d].pc \in {"route", "commit"} => rowLock[rm[d].n] = d

Typed == TypeOK /\ Busy

LEMMA IdleTyped == UpIdle \in UpState /\ RmIdle \in RmState /\ DelIdle \in DelState
  BY RetryAssumption DEF UpIdle, RmIdle, DelIdle, UpState, RmState, DelState

-----------------------------------------------------------------------------
(* How handlers move *)

\* An update that goes on with what it was asked for.
LEMMA UpGoes ==
    ASSUME Typed, NEW u \in Updater, up[u].pc # "idle",
           NEW pc \in {"load", "route", "find", "write", "commit"},
           up' = [up EXCEPT ![u].pc = pc]
    PROVE  /\ up' \in [Updater -> UpState] /\ \A v \in Updater \ {u} : up'[v] = up[v]
           /\ up'[u].pc = pc /\ up'[u].n = up[u].n /\ up'[u].fwd = up[u].fwd
           /\ up'[u].src = up[u].src /\ up'[u].try = up[u].try
<1>0. up \in [Updater -> UpState] /\ up[u] \in UpState
  BY DEF Typed, TypeOK, UpState
<1>1. [up[u] EXCEPT !.pc = pc] \in UpState
  BY <1>0 DEF UpState
<1>2. up'[u] = [up[u] EXCEPT !.pc = pc]
  BY <1>0
<1>3. /\ up'[u].pc = pc /\ up'[u].n = up[u].n /\ up'[u].fwd = up[u].fwd
      /\ up'[u].src = up[u].src /\ up'[u].try = up[u].try
  BY <1>0, <1>2 DEF UpState
<1> QED
  BY <1>0, <1>1, <1>3

LEMMA UpEnds ==
    ASSUME Typed, NEW u \in Updater, up' = [up EXCEPT ![u] = UpIdle]
    PROVE  /\ up' \in [Updater -> UpState] /\ \A v \in Updater \ {u} : up'[v] = up[v]
           /\ up'[u].pc = "idle" /\ up'[u].n = None /\ up'[u].fwd = Keep /\ up'[u].src = Keep
<1>0. up \in [Updater -> UpState]
  BY DEF Typed, TypeOK, UpState
<1>1. up'[u] = UpIdle
  BY <1>0
<1> QED
  BY <1>0, <1>1, IdleTyped DEF UpIdle

\* A retry forgets how far it was, and ends when the attempts are used up.
LEMMA UpRetries ==
    ASSUME Typed, NEW u \in Updater, Retry(u), up[u].pc # "idle"
    PROVE  /\ up' \in [Updater -> UpState] /\ \A v \in Updater \ {u} : up'[v] = up[v]
           /\ \/ up'[u].pc = "idle" /\ up'[u].n = None /\ up'[u].fwd = Keep
              \/ /\ up'[u].pc = "load" /\ up'[u].n = up[u].n /\ up'[u].fwd = up[u].fwd
                 /\ up'[u].src = up[u].src /\ up'[u].try >= 1
<1> DEFINE s == [up[u] EXCEPT !.pc = "load", !.try = up[u].try + 1]
<1>0. up \in [Updater -> UpState] /\ up[u] \in UpState
  BY DEF Typed, TypeOK, UpState
<1>1. up' = [up EXCEPT ![u] = IF up[u].try < MAX_RETRIES THEN s ELSE UpIdle]
  BY DEF Retry
<1>2. CASE up[u].try < MAX_RETRIES
  <2>1. up[u].try + 1 \in 0..MAX_RETRIES /\ up[u].try + 1 >= 1
    BY <1>0, <1>2, RetryAssumption DEF UpState
  <2>2. /\ s \in UpState /\ s.pc = "load" /\ s.n = up[u].n /\ s.fwd = up[u].fwd
        /\ s.src = up[u].src /\ s.try >= 1
    BY <1>0, <2>1 DEF UpState
  <2> HIDE DEF s
  <2> QED
    BY <1>0, <1>1, <1>2, <2>2
<1>3. CASE ~(up[u].try < MAX_RETRIES)
  BY <1>1, <1>3, UpEnds
<1> QED
  BY <1>2, <1>3

LEMMA RmGoes ==
    ASSUME Typed, NEW d \in Remover, rm[d].pc # "idle",
           NEW pc \in {"twilio", "row", "route", "commit"},
           rm' = [rm EXCEPT ![d].pc = pc]
    PROVE  /\ rm' \in [Remover -> RmState] /\ \A e \in Remover \ {d} : rm'[e] = rm[e]
           /\ rm'[d].pc = pc /\ rm'[d].n = rm[d].n
<1>0. rm \in [Remover -> RmState] /\ rm[d] \in RmState
  BY DEF Typed, TypeOK, RmState
<1>1. [rm[d] EXCEPT !.pc = pc] \in RmState
  BY <1>0 DEF RmState
<1>2. rm'[d] = [rm[d] EXCEPT !.pc = pc]
  BY <1>0
<1>3. rm'[d].pc = pc /\ rm'[d].n = rm[d].n
  BY <1>0, <1>2 DEF RmState
<1> QED
  BY <1>0, <1>1, <1>3

LEMMA RmEnds ==
    ASSUME Typed, NEW d \in Remover, rm' = [rm EXCEPT ![d] = RmIdle]
    PROVE  /\ rm' \in [Remover -> RmState] /\ \A e \in Remover \ {d} : rm'[e] = rm[e]
           /\ rm'[d].pc = "idle" /\ rm'[d].n = None
<1>0. rm \in [Remover -> RmState]
  BY DEF Typed, TypeOK, RmState
<1>1. rm'[d] = RmIdle
  BY <1>0
<1> QED
  BY <1>0, <1>1, IdleTyped DEF RmIdle

LEMMA DelGoes ==
    ASSUME Typed, NEW x \in Deleter, del' = [del EXCEPT ![x].pc = "list"]
    PROVE  /\ del' \in [Deleter -> DelState] /\ \A y \in Deleter \ {x} : del'[y] = del[y]
           /\ del'[x].pc = "list" /\ del'[x].s = del[x].s
<1>0. del \in [Deleter -> DelState] /\ del[x] \in DelState
  BY DEF Typed, TypeOK, DelState
<1>1. [del[x] EXCEPT !.pc = "list"] \in DelState
  BY <1>0 DEF DelState
<1>2. del'[x] = [del[x] EXCEPT !.pc = "list"]
  BY <1>0
<1>3. del'[x].pc = "list" /\ del'[x].s = del[x].s
  BY <1>0, <1>2 DEF DelState
<1> QED
  BY <1>0, <1>1, <1>3

LEMMA DelDetaches ==
    ASSUME Typed, NEW x \in Deleter, NEW todo \in SUBSET Num, DetachNext(x, todo)
    PROVE  /\ del' \in [Deleter -> DelState] /\ \A y \in Deleter \ {x} : del'[y] = del[y]
           /\ del'[x].s = del[x].s /\ del'[x].late = del[x].late /\ del'[x].todo = todo
           /\ \/ del'[x].pc = "commit" /\ todo = {}
              \/ del'[x].pc = "detach" /\ del'[x].at \in todo
<1>0. del \in [Deleter -> DelState] /\ del[x] \in DelState
  BY DEF Typed, TypeOK, DelState
<1>1. CASE todo = {} /\ del' = [del EXCEPT ![x] =
                                   [@ EXCEPT !.pc = "commit", !.todo = {}, !.at = None]]
  <2> DEFINE s == [del[x] EXCEPT !.pc = "commit", !.todo = {}, !.at = None]
  <2>1. /\ s \in DelState /\ s.pc = "commit" /\ s.todo = {}
        /\ s.s = del[x].s /\ s.late = del[x].late
    BY <1>0 DEF DelState
  <2>2. del' = [del EXCEPT ![x] = s]
    BY <1>1
  <2> HIDE DEF s
  <2> QED
    BY <1>0, <1>1, <2>1, <2>2
<1>2. ASSUME NEW n \in todo,
             del' = [del EXCEPT ![x] = [@ EXCEPT !.pc = "detach", !.todo = todo, !.at = n]]
      PROVE  /\ del' \in [Deleter -> DelState] /\ \A y \in Deleter \ {x} : del'[y] = del[y]
             /\ del'[x].s = del[x].s /\ del'[x].late = del[x].late /\ del'[x].todo = todo
             /\ del'[x].pc = "detach" /\ del'[x].at \in todo
  <2> DEFINE s == [del[x] EXCEPT !.pc = "detach", !.todo = todo, !.at = n]
  <2>1. /\ s \in DelState /\ s.pc = "detach" /\ s.todo = todo /\ s.at = n
        /\ s.s = del[x].s /\ s.late = del[x].late
    BY <1>0, <1>2 DEF DelState
  <2>2. del' = [del EXCEPT ![x] = s]
    BY <1>2
  <2> HIDE DEF s
  <2> QED
    BY <1>0, <1>2, <2>1, <2>2
<1> QED
  BY <1>1, <1>2 DEF DetachNext

LEMMA DelEnds ==
    ASSUME Typed, NEW x \in Deleter, del' = [del EXCEPT ![x] = DelIdle]
    PROVE  /\ del' \in [Deleter -> DelState] /\ \A y \in Deleter \ {x} : del'[y] = del[y]
           /\ del'[x].pc = "idle"
<1>0. del \in [Deleter -> DelState]
  BY DEF Typed, TypeOK, DelState
<1>1. del'[x] = DelIdle
  BY <1>0
<1> QED
  BY <1>0, <1>1, IdleTyped DEF DelIdle

\* A removal that is told of an attachment goes on as before.
LEMMA DelNotes ==
    ASSUME Typed, NEW n \in Num, NEW s, NoteLate(n, s)
    PROVE  /\ del' \in [Deleter -> DelState]
           /\ \A x \in Deleter :
                  /\ del'[x].pc = del[x].pc /\ del'[x].s = del[x].s
                  /\ del'[x].todo = del[x].todo /\ del'[x].at = del[x].at
                  /\ del[x].late \subseteq del'[x].late
                  /\ del[x].s = s /\ del[x].pc \in {"detach", "commit"} => n \in del'[x].late
<1>0. del \in [Deleter -> DelState]
  BY DEF Typed, TypeOK, DelState
<1>1. ASSUME NEW x \in Deleter
      PROVE  /\ del'[x] \in DelState
             /\ del'[x].pc = del[x].pc /\ del'[x].s = del[x].s
             /\ del'[x].todo = del[x].todo /\ del'[x].at = del[x].at
             /\ del[x].late \subseteq del'[x].late
             /\ del[x].s = s /\ del[x].pc \in {"detach", "commit"} => n \in del'[x].late
  <2> DEFINE w == [del[x] EXCEPT !.late = del[x].late \cup {n}]
  <2>0. del[x] \in DelState
    BY <1>0
  <2>1. /\ w \in DelState /\ w.pc = del[x].pc /\ w.s = del[x].s
        /\ w.todo = del[x].todo /\ w.at = del[x].at /\ w.late = del[x].late \cup {n}
    BY <2>0 DEF DelState
  <2>2. del'[x] = IF del[x].s = s /\ del[x].pc \in {"detach", "commit"} THEN w ELSE del[x]
    BY DEF NoteLate
  <2> HIDE DEF w
  <2> QED
    BY <2>0, <2>1, <2>2
<1>2. del' = [x \in Deleter |-> del'[x]]
  BY DEF NoteLate
<1> QED
  BY <1>1, <1>2

\* What a transaction locked is free, and nothing else.
LEMMA Unlocked ==
    ASSUME Typed, NEW h \in Handler, Unlock(h)
    PROVE  /\ rowLock' \in [Num -> Handler \cup {None}]
           /\ routeLock' \in [Num -> Handler \cup {None}]
           /\ srcLock' \in [Source -> Deleter \cup {None}]
           /\ \A n \in Num :
                  /\ rowLock'[n] = IF rowLock[n] = h THEN None ELSE rowLock[n]
                  /\ routeLock'[n] = IF routeLock[n] = h THEN None ELSE routeLock[n]
  BY DEF Typed, TypeOK, Unlock

-----------------------------------------------------------------------------
(* Types *)

\* TypeOK with the named sets of states.
LEMMA TypeParts ==
    TypeOK <=>
        /\ status \in [Num -> {"absent", "active", "releasing", "released"}]
        /\ source \in [Num -> Source \cup {None}]
        /\ route \in [Num -> Forward \cup {None, NoRoute}]
        /\ live \subseteq Source
        /\ rowLock \in [Num -> Handler \cup {None}]
        /\ routeLock \in [Num -> Handler \cup {None}]
        /\ srcLock \in [Source -> Deleter \cup {None}]
        /\ prov \in [Num -> Source \cup {None}]
        /\ up \in [Updater -> UpState] /\ rm \in [Remover -> RmState]
        /\ del \in [Deleter -> DelState]
        /\ outdated \subseteq Updater /\ stale \subseteq Updater
        /\ raced \subseteq Num \X Source
        /\ mishaps \subseteq {"rerouted", "victim"} \X Num
  BY DEF TypeOK, UpState, RmState, DelState

LEMMA InitTyped == Init => Typed
<1> SUFFICES ASSUME Init PROVE Typed
  OBVIOUS
<1>1. TypeOK
  BY IdleTyped, TypeParts DEF Init
<1>2. Busy
  BY DEF Init, Busy, UpIdle, RmIdle, DelIdle
<1> QED
  BY <1>1, <1>2 DEF Typed

\* Who reads a row is an updater.
LEMMA ReadersTyped == \A N \in SUBSET Num : ReadersOf(N) \subseteq Updater
  BY DEF ReadersOf, Readers

\* An update that decided on its next step.
LEMMA AfterRouteTyped ==
    ASSUME Typed, NEW u \in Updater
    PROVE  /\ AfterRoute(u) \in {"find", "write", "commit"}
           /\ AfterRoute(u) = "find" => up[u].src \in Source
           /\ AfterRoute(u) = "write" => up[u].src # Keep
<1>1. up[u].src \in Source \cup {None, Keep}
  BY DEF Typed, TypeOK
<1> QED
  BY <1>1, DistinctAssumption DEF AfterRoute

LEMMA ProvisionTyped ==
    ASSUME Typed, NEW n \in Num,
           ProvisionInserts(n) \/ \E s \in Source : ProvisionFinds(n, s)
    PROVE  Typed'
<1> USE DEF rowVars, lockVars, histVars
<1>0. TypeOK /\ Busy
  BY DEF Typed
<1>1. ASSUME NEW s \in Source, ProvisionFinds(n, s) PROVE Typed'
  <2>1. Busy'
    BY <1>0, <1>1 DEF ProvisionFinds, Busy
  <2>2. TypeOK'
    BY <1>0, <1>1, TypeParts DEF ProvisionFinds, TypeOK
  <2> QED
    BY <2>1, <2>2 DEF Typed
<1>2. CASE ProvisionInserts(n)
  <2>1. /\ del' \in [Deleter -> DelState]
        /\ \A x \in Deleter :
               /\ del'[x].pc = del[x].pc /\ del'[x].s = del[x].s
               /\ del'[x].todo = del[x].todo /\ del'[x].at = del[x].at
    BY <1>2, DelNotes DEF ProvisionInserts
  <2>2. Busy'
    BY <1>0, <1>2, <2>1 DEF ProvisionInserts, Busy
  <2>3. /\ status' \in [Num -> {"absent", "active", "releasing", "released"}]
        /\ source' \in [Num -> Source \cup {None}] /\ prov' \in [Num -> Source \cup {None}]
        /\ route' \in [Num -> Forward \cup {None, NoRoute}]
    BY <1>0, <1>2, TypeParts DEF ProvisionInserts
  <2>4. UNCHANGED <<live, outdated, rowLock, routeLock, srcLock, up, rm, stale, raced, mishaps>>
    BY <1>2 DEF ProvisionInserts
  <2> QED
    BY <1>0, <2>1, <2>2, <2>3, <2>4, TypeParts DEF Typed, TypeOK, UpState, RmState, DelState
<1> QED
  BY <1>1, <1>2


\* Who waits for a lock has begun.
LEMMA WaitersBusy ==
    ASSUME Typed, NEW h \in Handler, Deadlocked(h)
    PROVE  /\ h \in Updater => up[h].pc \in {"route", "write"}
           /\ h \in Remover => rm[h].pc \in {"row", "route"}
           /\ h \in Deleter => del[h].pc \in {"mark", "detach"}
<1>1. PICK C \in SUBSET Handler : h \in C /\ {Holder(g) : g \in C} = C
  BY DEF Deadlocked
<1>2. Holder(h) \in Handler
  BY <1>1
<1>3. Holder(h) # None
  BY <1>2, DistinctAssumption
<1> QED
  BY <1>3, DistinctAssumption DEF Holder, Handler

LEMMA BeginTyped ==
    ASSUME Typed, NEW u \in Updater, NEW n \in Num, NEW dto \in Request, UpBegin(u, n, dto)
    PROVE  /\ Typed' /\ \A v \in Updater \ {u} : up'[v] = up[v]
           /\ up'[u].pc = "load" /\ up'[u].n = n /\ up'[u].fwd = dto.fwd
<1> DEFINE s == [pc |-> "load", n |-> n, fwd |-> dto.fwd, src |-> dto.src, try |-> 1]
<1>1. dto \in [fwd : Forward \cup {None, Keep}, src : Source \cup {None, Keep}]
  BY RequestAssumption
<1>2. s \in UpState /\ s.pc = "load" /\ s.n = n /\ s.fwd = dto.fwd /\ s.try >= 1
  BY <1>1, RetryAssumption DEF UpState
<1>3. up' = [up EXCEPT ![u] = s]
  BY DEF UpBegin
<1> HIDE DEF s
<1>4. up \in [Updater -> UpState]
  BY DEF Typed, TypeOK, UpState
<1>5. /\ up' \in [Updater -> UpState] /\ \A v \in Updater \ {u} : up'[v] = up[v]
      /\ up'[u].pc = "load" /\ up'[u].n = n /\ up'[u].fwd = dto.fwd /\ up'[u].try >= 1
  BY <1>2, <1>3, <1>4
<1>6. UNCHANGED <<rowVars, lockVars, prov, rm, del, stale, raced>>
  BY DEF UpBegin
<1>7. Busy'
  BY <1>5, <1>6 DEF Typed, Busy
<1>8. mishaps' \subseteq {"rerouted", "victim"} \X Num
  BY DEF UpBegin, Typed, TypeOK
<1>9. TypeOK'
  BY <1>5, <1>6, <1>8 DEF Typed, TypeOK, UpState, rowVars, lockVars
<1> QED
  BY <1>5, <1>7, <1>9 DEF Typed

LEMMA UpTyped ==
    ASSUME Typed, Held, NEW u \in Updater, UpStep(u)
    PROVE  Typed'
<1> USE DEF rowVars, lockVars, histVars
<1>0. TypeOK /\ Busy /\ u \in Handler
  BY DEF Typed, Handler
<1>1. CASE UpLoad(u)
  <2> DEFINE pc == IF up[u].fwd = Keep THEN AfterRoute(u) ELSE "route"
  <2>1. /\ pc \in {"load", "route", "find", "write", "commit"} /\ pc # "load"
        /\ pc = "route" => up[u].fwd # Keep
        /\ pc = "find" => up[u].src \in Source
        /\ pc = "write" => up[u].src # Keep
    BY AfterRouteTyped
  <2>2. up[u].pc # "idle" /\ up' = [up EXCEPT ![u].pc = pc]
    BY <1>1 DEF UpLoad
  <2> HIDE DEF pc
  <2>3. /\ up' \in [Updater -> UpState] /\ \A v \in Updater \ {u} : up'[v] = up[v]
        /\ up'[u].pc = pc /\ up'[u].n = up[u].n /\ up'[u].fwd = up[u].fwd
        /\ up'[u].src = up[u].src /\ up'[u].try = up[u].try
    BY <2>1, <2>2, UpGoes
  <2>4. Busy'
    BY <1>0, <1>1, <2>1, <2>2, <2>3, AfterRouteTyped DEF UpLoad, Busy, pc
  <2>5. TypeOK'
    BY <1>0, <1>1, <2>3 DEF UpLoad, TypeOK, UpState
  <2> QED
    BY <2>4, <2>5 DEF Typed
<1>2. CASE UpRoute(u)
  <2>0. up[u].pc # "idle" /\ up' = [up EXCEPT ![u].pc = AfterRoute(u)]
    BY <1>2 DEF UpRoute
  <2>1. AfterRoute(u) \in {"find", "write", "commit"}
    BY AfterRouteTyped
  <2>2. /\ up' \in [Updater -> UpState] /\ \A v \in Updater \ {u} : up'[v] = up[v]
        /\ up'[u].pc = AfterRoute(u) /\ up'[u].n = up[u].n /\ up'[u].fwd = up[u].fwd
        /\ up'[u].src = up[u].src /\ up'[u].try = up[u].try
    BY <2>0, <2>1, UpGoes
  <2>3. Busy'
    BY <1>0, <1>2, <2>0, <2>1, <2>2, AfterRouteTyped DEF UpRoute, Busy
  <2>4. routeLock' \in [Num -> Handler \cup {None}]
    BY <1>0, <1>2 DEF UpRoute, TypeOK
  <2>5. TypeOK'
    BY <1>0, <1>2, <2>2, <2>4 DEF UpRoute, TypeOK, UpState
  <2> QED
    BY <2>3, <2>5 DEF Typed
<1>3. CASE UpFindSource(u)
  <2>1. up[u].pc = "find" /\ up' = [up EXCEPT ![u].pc = "write"]
    BY <1>3 DEF UpFindSource
  <2>2. /\ up' \in [Updater -> UpState] /\ \A v \in Updater \ {u} : up'[v] = up[v]
        /\ up'[u].pc = "write" /\ up'[u].n = up[u].n /\ up'[u].fwd = up[u].fwd
        /\ up'[u].src = up[u].src /\ up'[u].try = up[u].try
    BY <2>1, UpGoes
  <2>3. Busy'
    BY <1>0, <1>3, <2>1, <2>2, DistinctAssumption DEF UpFindSource, Busy
  <2>4. TypeOK'
    BY <1>0, <1>3, <2>2 DEF UpFindSource, TypeOK, UpState
  <2> QED
    BY <2>3, <2>4 DEF Typed
<1>4. CASE UpNoSource(u)
  <2>1. /\ up' \in [Updater -> UpState] /\ \A v \in Updater \ {u} : up'[v] = up[v]
        /\ up'[u].pc = "idle" /\ up'[u].n = None
    BY <1>4, UpEnds DEF UpNoSource
  <2>2. Busy'
    BY <1>0, <1>4, <2>1 DEF UpNoSource, Busy
  <2>3. TypeOK'
    BY <1>0, <1>4, <2>1, Unlocked DEF UpNoSource, Forget, TypeOK, UpState
  <2> QED
    BY <2>2, <2>3 DEF Typed
<1>5. CASE UpWrite(u)
  <2>1. up[u].pc = "write" /\ up' = [up EXCEPT ![u].pc = "commit"]
    BY <1>5 DEF UpWrite
  <2>2. /\ up' \in [Updater -> UpState] /\ \A v \in Updater \ {u} : up'[v] = up[v]
        /\ up'[u].pc = "commit" /\ up'[u].n = up[u].n /\ up'[u].fwd = up[u].fwd
        /\ up'[u].src = up[u].src /\ up'[u].try = up[u].try
    BY <2>1, UpGoes
  <2>3. Busy'
    BY <1>0, <1>5, <2>1, <2>2 DEF UpWrite, Busy
  <2>4. rowLock' \in [Num -> Handler \cup {None}]
    BY <1>0, <1>5 DEF UpWrite, TypeOK
  <2>5. TypeOK'
    BY <1>0, <1>5, <2>2, <2>4 DEF UpWrite, TypeOK, UpState
  <2> QED
    BY <2>3, <2>5 DEF Typed
<1>6. ASSUME Retry(u), up[u].pc # "idle" PROVE Typed'
  <2>1. /\ up' \in [Updater -> UpState] /\ \A v \in Updater \ {u} : up'[v] = up[v]
        /\ \/ up'[u].pc = "idle" /\ up'[u].n = None
           \/ up'[u].pc = "load" /\ up'[u].n = up[u].n /\ up'[u].try >= 1
    BY <1>6, UpRetries
  <2>2. Busy'
    BY <1>0, <1>6, <2>1 DEF Retry, Busy
  <2>3. TypeOK'
    BY <1>0, <1>6, <2>1, Unlocked DEF Retry, Forget, TypeOK, UpState
  <2> QED
    BY <2>2, <2>3 DEF Typed
<1>7. CASE UpConflict(u)
  BY <1>6, <1>7 DEF UpConflict
<1>8. CASE UpVictim(u)
  BY <1>0, <1>6, <1>8, WaitersBusy DEF UpVictim
<1>9. CASE UpCommit(u)
  <2> DEFINE n == up[u].n
  <2>1. /\ up' \in [Updater -> UpState] /\ \A v \in Updater \ {u} : up'[v] = up[v]
        /\ up'[u].pc = "idle" /\ up'[u].n = None
    BY <1>9, UpEnds DEF UpCommit
  <2>2. n \in Num
    BY <1>0, <1>9 DEF UpCommit, Busy
  <2>3. /\ del' \in [Deleter -> DelState]
        /\ \A x \in Deleter :
               /\ del'[x].pc = del[x].pc /\ del'[x].s = del[x].s
               /\ del'[x].todo = del[x].todo /\ del'[x].at = del[x].at
    <3>1. CASE rowLock[n] = u
      BY <1>9, <2>2, <3>1, DelNotes DEF UpCommit
    <3>2. CASE rowLock[n] # u
      BY <1>0, <1>9, <3>2, TypeParts DEF UpCommit
    <3> QED
      BY <3>1, <3>2
  <2>4. Busy'
    BY <1>0, <1>9, <2>1, <2>3 DEF UpCommit, Busy
  <2>5. route' \in [Num -> Forward \cup {None, NoRoute}]
    <3>1. up[u].fwd \in Forward \cup {None, Keep}
      BY <1>0 DEF TypeOK
    <3>2. routeLock[n] = u => up[u].fwd \in Forward \cup {None}
      BY <2>2, <3>1 DEF Held
    <3> HIDE DEF n
    <3>3. route' = IF routeLock[n] = u THEN [route EXCEPT ![n] = up[u].fwd] ELSE route
      BY <1>9 DEF UpCommit, n
    <3> QED
      BY <1>0, <3>2, <3>3, TypeParts
  <2>6. source' \in [Num -> Source \cup {None}]
    <3>1. up[u].src \in Source \cup {None, Keep}
      BY <1>0 DEF TypeOK
    <3>2. rowLock[n] = u => up[u].src \in Source \cup {None}
      BY <2>2, <3>1 DEF Held
    <3> HIDE DEF n
    <3>3. source' = IF rowLock[n] = u THEN [source EXCEPT ![n] = up[u].src] ELSE source
      BY <1>9 DEF UpCommit, n
    <3> QED
      BY <1>0, <3>2, <3>3, TypeParts
  <2>7. stale' \subseteq Updater /\ outdated' \subseteq Updater
    BY <1>0, <1>9 DEF UpCommit, TypeOK, Readers
  <2>8. /\ rowLock' \in [Num -> Handler \cup {None}]
        /\ routeLock' \in [Num -> Handler \cup {None}]
        /\ srcLock' \in [Source -> Deleter \cup {None}]
    BY <1>0, <1>9, Unlocked DEF UpCommit
  <2>9. UNCHANGED <<status, live, prov, rm, raced, mishaps>>
    BY <1>9 DEF UpCommit
  <2>10. TypeOK'
    BY <1>0, <2>1, <2>3, <2>5, <2>6, <2>7, <2>8, <2>9 DEF TypeOK, UpState, RmState, DelState
  <2> QED
    BY <2>4, <2>10 DEF Typed
<1> QED
  BY <1>1, <1>2, <1>3, <1>4, <1>5, <1>7, <1>8, <1>9 DEF UpStep

LEMMA MarkTyped ==
    ASSUME Typed, NEW d \in Remover, NEW n \in Num, RmMark(d, n)
    PROVE  /\ Typed' /\ \A e \in Remover \ {d} : rm'[e] = rm[e]
           /\ rm'[d].pc = "twilio" /\ rm'[d].n = n
<1> DEFINE s == [pc |-> "twilio", n |-> n]
<1>1. s \in RmState /\ s.pc = "twilio" /\ s.n = n
  BY DEF RmState
<1>2. rm' = [rm EXCEPT ![d] = s]
  BY DEF RmMark
<1> HIDE DEF s
<1>3. rm \in [Remover -> RmState]
  BY DEF Typed, TypeOK, RmState
<1>4. /\ rm' \in [Remover -> RmState] /\ \A e \in Remover \ {d} : rm'[e] = rm[e]
      /\ rm'[d].pc = "twilio" /\ rm'[d].n = n
  BY <1>1, <1>2, <1>3
<1>5. Busy'
  BY <1>4, DistinctAssumption DEF Typed, Busy, RmMark
<1>6. stale' \subseteq Updater /\ outdated' \subseteq Updater
  <2>1. stale \subseteq Updater /\ outdated \subseteq Updater
    BY DEF Typed, TypeOK
  <2> QED
    BY <2>1, ReadersTyped DEF RmMark, SetStatus, Changed, Stamped
<1>7. status' \in [Num -> {"absent", "active", "releasing", "released"}]
  <2>1. status \in [Num -> {"absent", "active", "releasing", "released"}]
    BY DEF Typed, TypeOK
  <2>2. status' = [status EXCEPT ![n] = "releasing"]
    BY DEF RmMark, SetStatus
  <2> QED
    BY <2>1, <2>2
<1>8. UNCHANGED <<source, route, live, lockVars, prov, up, del, raced, mishaps>>
  BY DEF RmMark
<1>9. TypeOK'
  BY <1>4, <1>6, <1>7, <1>8 DEF Typed, TypeOK, RmState, lockVars
<1> QED
  BY <1>4, <1>5, <1>9 DEF Typed

LEMMA RmTyped ==
    ASSUME Typed, NEW d \in Remover, RmStep(d)
    PROVE  Typed'
<1> USE DEF rowVars, lockVars, histVars
<1>0. TypeOK /\ Busy /\ d \in Handler
  BY DEF Typed, Handler
<1>1. CASE RmRevert(d)
  <2>1. /\ rm' \in [Remover -> RmState] /\ \A e \in Remover \ {d} : rm'[e] = rm[e]
        /\ rm'[d].pc = "idle" /\ rm'[d].n = None
    BY <1>1, RmEnds DEF RmRevert
  <2>2. Busy'
    BY <1>0, <1>1, <2>1 DEF RmRevert, Busy
  <2>3. rm[d].n \in Num
    BY <1>0, <1>1 DEF RmRevert, Busy
  <2>4. stale' \subseteq Updater /\ outdated' \subseteq Updater
    BY <1>0, <1>1, <2>3, ReadersTyped DEF TypeOK, RmRevert, SetStatus, Changed, Stamped
  <2>5. TypeOK'
    BY <1>0, <1>1, <2>1, <2>4 DEF TypeOK, RmState, RmRevert, SetStatus
  <2> QED
    BY <2>2, <2>5 DEF Typed
<1>2. CASE RmBegin(d)
  <2>1. rm[d].pc # "idle" /\ rm' = [rm EXCEPT ![d].pc = "row"]
    BY <1>2 DEF RmBegin
  <2>2. /\ rm' \in [Remover -> RmState] /\ \A e \in Remover \ {d} : rm'[e] = rm[e]
        /\ rm'[d].pc = "row" /\ rm'[d].n = rm[d].n
    BY <2>1, RmGoes
  <2>3. Busy'
    BY <1>0, <1>2, <2>1, <2>2 DEF RmBegin, Busy
  <2>4. TypeOK'
    BY <1>0, <1>2, <2>2 DEF RmBegin, TypeOK, RmState
  <2> QED
    BY <2>3, <2>4 DEF Typed
<1>3. CASE RmRow(d)
  <2>1. rm[d].pc # "idle" /\ rm' = [rm EXCEPT ![d].pc = "route"]
    BY <1>3 DEF RmRow
  <2>2. /\ rm' \in [Remover -> RmState] /\ \A e \in Remover \ {d} : rm'[e] = rm[e]
        /\ rm'[d].pc = "route" /\ rm'[d].n = rm[d].n
    BY <2>1, RmGoes
  <2>3. Busy'
    BY <1>0, <1>3, <2>1, <2>2 DEF RmRow, Busy
  <2>4. rowLock' \in [Num -> Handler \cup {None}]
    BY <1>0, <1>3 DEF RmRow, TypeOK
  <2>5. TypeOK'
    BY <1>0, <1>3, <2>2, <2>4 DEF RmRow, TypeOK, RmState
  <2> QED
    BY <2>3, <2>5 DEF Typed
<1>4. CASE RmRoute(d)
  <2>1. rm[d].pc # "idle" /\ rm' = [rm EXCEPT ![d].pc = "commit"]
    BY <1>4 DEF RmRoute
  <2>2. /\ rm' \in [Remover -> RmState] /\ \A e \in Remover \ {d} : rm'[e] = rm[e]
        /\ rm'[d].pc = "commit" /\ rm'[d].n = rm[d].n
    BY <2>1, RmGoes
  <2>3. Busy'
    BY <1>0, <1>4, <2>1, <2>2 DEF RmRoute, Busy
  <2>4. /\ routeLock' \in [Num -> Handler \cup {None}]
        /\ mishaps' \subseteq {"rerouted", "victim"} \X Num
    <3>1. /\ routeLock \in [Num -> Handler \cup {None}]
          /\ mishaps \subseteq {"rerouted", "victim"} \X Num
      BY <1>0 DEF TypeOK
    <3>2. /\ routeLock' = routeLock \/ routeLock' = [routeLock EXCEPT ![rm[d].n] = d]
          /\ \/ mishaps' = mishaps \/ mishaps' = mishaps \cup {<<"rerouted", rm[d].n>>}
             \/ mishaps' = mishaps \ {<<"rerouted", rm[d].n>>}
      BY <1>4 DEF RmRoute
    <3>3. rm[d].n \in Num
      BY <1>0, <2>1 DEF Busy
    <3>4. mishaps' \subseteq mishaps \cup {<<"rerouted", rm[d].n>>}
      BY <3>2
    <3>5. <<"rerouted", rm[d].n>> \in {"rerouted", "victim"} \X Num
      BY <3>3
    <3>6. mishaps' \subseteq {"rerouted", "victim"} \X Num
      BY <3>1, <3>4, <3>5, Zenon
    <3> QED
      BY <1>0, <3>1, <3>2, <3>3, <3>6
  <2>5. UNCHANGED <<rowVars, rowLock, srcLock, prov, up, del, stale, raced>>
    BY <1>4 DEF RmRoute
  <2>6. TypeOK'
    BY <1>0, <2>2, <2>4, <2>5 DEF TypeOK, RmState
  <2> QED
    BY <2>3, <2>6 DEF Typed
<1>5. CASE RmCommit(d)
  <2>1. /\ rm' \in [Remover -> RmState] /\ \A e \in Remover \ {d} : rm'[e] = rm[e]
        /\ rm'[d].pc = "idle" /\ rm'[d].n = None
    BY <1>5, RmEnds DEF RmCommit
  <2>2. Busy'
    BY <1>0, <1>5, <2>1 DEF RmCommit, Busy
  <2>3. rm[d].n \in Num
    BY <1>0, <1>5 DEF RmCommit, Busy
  <2>4. stale' \subseteq Updater /\ outdated' \subseteq Updater
    BY <1>0, <1>5, <2>3, ReadersTyped DEF TypeOK, RmCommit, Changed, Stamped
  <2>5. /\ rowLock' \in [Num -> Handler \cup {None}]
        /\ routeLock' \in [Num -> Handler \cup {None}]
        /\ srcLock' \in [Source -> Deleter \cup {None}]
    BY <1>0, <1>5, Unlocked DEF RmCommit
  <2>6. TypeOK'
    BY <1>0, <1>5, <2>1, <2>4, <2>5 DEF TypeOK, RmState, RmCommit
  <2> QED
    BY <2>2, <2>6 DEF Typed
<1> QED
  BY <1>1, <1>2, <1>3, <1>4, <1>5 DEF RmStep

LEMMA DelBeginTyped ==
    ASSUME Typed, NEW x \in Deleter, NEW s \in Source, DelBegin(x, s)
    PROVE  /\ Typed' /\ \A y \in Deleter \ {x} : del'[y] = del[y]
           /\ del'[x].pc = "mark"
<1> DEFINE w == [DelIdle EXCEPT !.pc = "mark", !.s = s]
<1>1. w \in DelState /\ w.pc = "mark" /\ w.s = s
  BY IdleTyped DEF DelState, DelIdle
<1>2. del' = [del EXCEPT ![x] = w]
  BY DEF DelBegin
<1> HIDE DEF w
<1>3. del \in [Deleter -> DelState]
  BY DEF Typed, TypeOK, DelState
<1>4. /\ del' \in [Deleter -> DelState] /\ \A y \in Deleter \ {x} : del'[y] = del[y]
      /\ del'[x].pc = "mark" /\ del'[x].s = s
  BY <1>1, <1>2, <1>3
<1>5. UNCHANGED <<rowVars, lockVars, prov, up, rm, histVars>>
  BY DEF DelBegin
<1>6. Busy'
  BY <1>4, <1>5 DEF Typed, Busy
<1>7. TypeOK'
  BY <1>4, <1>5 DEF Typed, TypeOK, DelState, rowVars, lockVars, histVars
<1> QED
  BY <1>4, <1>6, <1>7 DEF Typed

LEMMA DelTyped ==
    ASSUME Typed, NEW x \in Deleter, DelStep(x)
    PROVE  Typed'
<1> USE DEF rowVars, lockVars, histVars
<1>0. TypeOK /\ Busy /\ x \in Handler
  BY DEF Typed, Handler
<1>1. CASE DelMark(x)
  <2>1. /\ del' \in [Deleter -> DelState] /\ \A y \in Deleter \ {x} : del'[y] = del[y]
        /\ del'[x].pc = "list" /\ del'[x].s = del[x].s
    BY <1>1, DelGoes DEF DelMark
  <2>2. Busy'
    BY <1>0, <1>1, <2>1 DEF DelMark, Busy
  <2>3. srcLock' \in [Source -> Deleter \cup {None}]
    BY <1>0, <1>1 DEF DelMark, TypeOK
  <2>4. TypeOK'
    BY <1>0, <1>1, <2>1, <2>3 DEF DelMark, TypeOK, DelState
  <2> QED
    BY <2>2, <2>4 DEF Typed
<1>2. ASSUME NEW todo \in SUBSET Num, DetachNext(x, todo), del[x].pc # "idle",
             UNCHANGED <<rowVars, routeLock, srcLock, prov, up, rm, histVars>>,
             rowLock' \in [Num -> Handler \cup {None}]
      PROVE  Typed'
  <2>1. /\ del' \in [Deleter -> DelState] /\ \A y \in Deleter \ {x} : del'[y] = del[y]
        /\ del'[x].s = del[x].s /\ del'[x].todo = todo
        /\ \/ del'[x].pc = "commit" /\ todo = {}
           \/ del'[x].pc = "detach" /\ del'[x].at \in todo
    BY <1>2, DelDetaches
  <2>2. Busy'
    BY <1>0, <1>2, <2>1 DEF Busy
  <2>3. TypeOK'
    BY <1>0, <1>2, <2>1 DEF TypeOK, DelState
  <2> QED
    BY <2>2, <2>3 DEF Typed
<1>3. CASE DelList(x)
  <2>1. {n \in Num : source[n] = del[x].s} \in SUBSET Num
    OBVIOUS
  <2>2. rowLock' \in [Num -> Handler \cup {None}]
    BY <1>0, <1>3 DEF DelList, TypeOK
  <2> QED
    BY <1>2, <1>3, <2>1, <2>2 DEF DelList
<1>4. CASE DelDetach(x)
  <2>1. del[x].todo \ {del[x].at} \in SUBSET Num
    BY <1>0 DEF TypeOK
  <2>2. rowLock' \in [Num -> Handler \cup {None}]
    BY <1>0, <1>4 DEF DelDetach, TypeOK
  <2> QED
    BY <1>2, <1>4, <2>1, <2>2 DEF DelDetach
<1>5. CASE DelCommit(x)
  <2> DEFINE mine == {n \in Num : rowLock[n] = x}
  <2>1. /\ del' \in [Deleter -> DelState] /\ \A y \in Deleter \ {x} : del'[y] = del[y]
        /\ del'[x].pc = "idle"
    BY <1>5, DelEnds DEF DelCommit
  <2>2. Busy'
    BY <1>0, <1>5, <2>1 DEF DelCommit, Busy
  <2>3. stale' \subseteq Updater /\ outdated' \subseteq Updater
    BY <1>0, <1>5, ReadersTyped DEF TypeOK, DelCommit, Changed, Stamped
  <2>4. /\ rowLock' \in [Num -> Handler \cup {None}]
        /\ routeLock' \in [Num -> Handler \cup {None}]
        /\ srcLock' \in [Source -> Deleter \cup {None}]
    BY <1>0, <1>5, Unlocked DEF DelCommit
  <2>5. source' \in [Num -> Source \cup {None}]
    BY <1>0, <1>5 DEF DelCommit, TypeOK
  <2>6. raced' \subseteq Num \X Source
    <3>1. del[x].s \in Source /\ del[x].late \subseteq Num
      BY <1>0, <1>5 DEF DelCommit, Busy, TypeOK
    <3>2. Attaching(del[x].s) \subseteq Num
      BY DEF Attaching
    <3> QED
      BY <1>0, <1>5, <3>1, <3>2 DEF DelCommit, TypeOK
  <2>7. TypeOK'
    BY <1>0, <1>5, <2>1, <2>3, <2>4, <2>5, <2>6 DEF DelCommit, TypeOK, DelState
  <2> QED
    BY <2>2, <2>7 DEF Typed
<1> QED
  BY <1>1, <1>3, <1>4, <1>5 DEF DelStep

LEMMA VictimTyped ==
    ASSUME Typed, NEW h \in Remover \cup Deleter, Victim(h)
    PROVE  Typed'
<1>0. TypeOK /\ Busy /\ h \in Handler
  BY DEF Typed, Handler
<1>1. /\ rm' \in [Remover -> RmState] /\ del' \in [Deleter -> DelState]
      /\ \A d \in Remover : rm'[d] = IF d = h THEN RmIdle ELSE rm[d]
      /\ \A x \in Deleter : del'[x] = IF x = h THEN DelIdle ELSE del[x]
  BY <1>0, IdleTyped, TypeParts DEF Victim
<1>2. UNCHANGED <<rowVars, prov, up, stale, raced>>
  BY DEF Victim
<1>3. Busy'
  BY <1>0, <1>1, <1>2 DEF Busy, RmIdle, DelIdle
<1>4. mishaps' \subseteq {"rerouted", "victim"} \X Num
  <2>1. ASSUME NEW d \in {h} \cap Remover PROVE rm[d].n \in Num
    BY <1>0, <2>1, WaitersBusy DEF Victim, Busy
  <2>2. mishaps' = mishaps \cup {<<"victim", rm[d].n>> : d \in {h} \cap Remover}
    BY DEF Victim
  <2> QED
    BY <1>0, <2>1, <2>2 DEF TypeOK
<1>5. /\ rowLock' \in [Num -> Handler \cup {None}]
      /\ routeLock' \in [Num -> Handler \cup {None}]
      /\ srcLock' \in [Source -> Deleter \cup {None}]
  BY <1>0, Unlocked DEF Victim
<1>6. TypeOK'
  BY <1>0, <1>1, <1>2, <1>4, <1>5 DEF TypeOK, RmState, DelState, rowVars
<1> QED
  BY <1>3, <1>6 DEF Typed

-----------------------------------------------------------------------------
(* Where a step leaves its handler *)

LEMMA UpMoved ==
    ASSUME Typed, NEW u \in Updater, UpStep(u)
    PROVE  /\ \A v \in Updater \ {u} : up'[v] = up[v]
           /\ up[u].pc # "idle" /\ up[u].n \in Num
           /\ \/ /\ up'[u].pc = "idle" /\ up'[u].n = None /\ up'[u].fwd = Keep
                 /\ UpNoSource(u) \/ Retry(u) \/ UpCommit(u)
              \/ /\ up'[u].n = up[u].n /\ up'[u].fwd = up[u].fwd /\ up'[u].src = up[u].src
                 /\ \/ UpLoad(u) /\ up'[u].pc \in {"route", "find", "write", "commit"}
                    \/ UpRoute(u) /\ up'[u].pc \in {"find", "write", "commit"}
                    \/ UpFindSource(u) /\ up'[u].pc = "write"
                    \/ UpWrite(u) /\ up'[u].pc = "commit"
                    \/ Retry(u) /\ up'[u].pc = "load"
           /\ (UpLoad(u) \/ UpRoute(u)) /\ up'[u].pc \in {"write", "commit"}
                  => up[u].src \in {None, Keep}
<1>0. Busy /\ u \in Handler
  BY DEF Typed, Handler
<1>1. up[u].pc # "idle" /\ up[u].n \in Num
  BY <1>0, WaitersBusy
  DEF Busy, UpStep, UpLoad, UpRoute, UpFindSource, UpNoSource, UpWrite, UpConflict, UpVictim,
      UpCommit
<1>2. /\ AfterRoute(u) \in {"find", "write", "commit"}
      /\ AfterRoute(u) \in {"write", "commit"} => up[u].src \in {None, Keep}
  BY AfterRouteTyped DEF AfterRoute
<1>3. CASE UpLoad(u)
  <2> DEFINE pc == IF up[u].fwd = Keep THEN AfterRoute(u) ELSE "route"
  <2>1. /\ pc \in {"route", "find", "write", "commit"} /\ up' = [up EXCEPT ![u].pc = pc]
        /\ pc \in {"write", "commit"} => up[u].src \in {None, Keep}
    BY <1>2, <1>3 DEF UpLoad
  <2> HIDE DEF pc
  <2>2. pc \in {"load", "route", "find", "write", "commit"}
    BY <2>1
  <2>3. /\ \A v \in Updater \ {u} : up'[v] = up[v]
        /\ up'[u].pc = pc /\ up'[u].n = up[u].n /\ up'[u].fwd = up[u].fwd
        /\ up'[u].src = up[u].src
    BY <1>1, <2>1, <2>2, UpGoes
  <2> QED
    BY <1>1, <1>3, <2>1, <2>3
<1>4. CASE UpRoute(u)
  <2>1. up' = [up EXCEPT ![u].pc = AfterRoute(u)]
    BY <1>4 DEF UpRoute
  <2>2. /\ \A v \in Updater \ {u} : up'[v] = up[v]
        /\ up'[u].pc = AfterRoute(u) /\ up'[u].n = up[u].n /\ up'[u].fwd = up[u].fwd
        /\ up'[u].src = up[u].src
    BY <1>1, <1>2, <2>1, UpGoes
  <2> QED
    BY <1>1, <1>2, <1>4, <2>2
<1>5. CASE UpFindSource(u)
  <2>1. up' = [up EXCEPT ![u].pc = "write"] /\ up[u].pc = "find"
    BY <1>5 DEF UpFindSource
  <2>2. /\ \A v \in Updater \ {u} : up'[v] = up[v]
        /\ up'[u].pc = "write" /\ up'[u].n = up[u].n /\ up'[u].fwd = up[u].fwd
        /\ up'[u].src = up[u].src
    BY <1>1, <2>1, UpGoes
  <2>3. ~UpLoad(u) /\ ~UpRoute(u)
    BY <2>1 DEF UpLoad, UpRoute
  <2> QED
    BY <1>1, <1>5, <2>2, <2>3
<1>6. CASE UpWrite(u)
  <2>1. up' = [up EXCEPT ![u].pc = "commit"] /\ up[u].pc = "write"
    BY <1>6 DEF UpWrite
  <2>2. /\ \A v \in Updater \ {u} : up'[v] = up[v]
        /\ up'[u].pc = "commit" /\ up'[u].n = up[u].n /\ up'[u].fwd = up[u].fwd
        /\ up'[u].src = up[u].src
    BY <1>1, <2>1, UpGoes
  <2>3. ~UpLoad(u) /\ ~UpRoute(u)
    BY <2>1 DEF UpLoad, UpRoute
  <2> QED
    BY <1>1, <1>6, <2>2, <2>3
<1>7. CASE UpNoSource(u)
  <2>1. up' = [up EXCEPT ![u] = UpIdle]
    BY <1>7 DEF UpNoSource
  <2>2. /\ \A v \in Updater \ {u} : up'[v] = up[v]
        /\ up'[u].pc = "idle" /\ up'[u].n = None /\ up'[u].fwd = Keep
    BY <2>1, UpEnds
  <2> QED
    BY <1>1, <1>7, <2>2
<1>8. CASE UpCommit(u)
  <2>1. up' = [up EXCEPT ![u] = UpIdle]
    BY <1>8 DEF UpCommit
  <2>2. /\ \A v \in Updater \ {u} : up'[v] = up[v]
        /\ up'[u].pc = "idle" /\ up'[u].n = None /\ up'[u].fwd = Keep
    BY <2>1, UpEnds
  <2> QED
    BY <1>1, <1>8, <2>2
<1>9. CASE UpConflict(u) \/ UpVictim(u)
  <2>1. Retry(u)
    BY <1>9 DEF UpConflict, UpVictim
  <2>2. /\ \A v \in Updater \ {u} : up'[v] = up[v]
        /\ \/ up'[u].pc = "idle" /\ up'[u].n = None /\ up'[u].fwd = Keep
           \/ /\ up'[u].pc = "load" /\ up'[u].n = up[u].n /\ up'[u].fwd = up[u].fwd
              /\ up'[u].src = up[u].src
    BY <1>1, <2>1, UpRetries
  <2> QED
    BY <1>1, <2>1, <2>2
<1> QED
  BY <1>3, <1>4, <1>5, <1>6, <1>7, <1>8, <1>9 DEF UpStep

LEMMA RmMoved ==
    ASSUME Typed, NEW d \in Remover, RmStep(d)
    PROVE  /\ \A e \in Remover \ {d} : rm'[e] = rm[e]
           /\ rm[d].pc # "idle" /\ rm[d].n \in Num
           /\ \/ /\ rm'[d].pc = "idle" /\ rm'[d].n = None
                 /\ RmRevert(d) \/ RmCommit(d)
              \/ /\ rm'[d].n = rm[d].n
                 /\ \/ RmBegin(d) /\ rm'[d].pc = "row"
                    \/ RmRow(d) /\ rm'[d].pc = "route"
                    \/ RmRoute(d) /\ rm'[d].pc = "commit"
<1>1. rm[d].pc # "idle" /\ rm[d].n \in Num
  BY DEF Typed, Busy, RmStep, RmRevert, RmBegin, RmRow, RmRoute, RmCommit
<1>2. CASE RmRevert(d)
  BY <1>1, <1>2, RmEnds DEF RmRevert
<1>3. CASE RmBegin(d)
  BY <1>1, <1>3, RmGoes DEF RmBegin
<1>4. CASE RmRow(d)
  BY <1>1, <1>4, RmGoes DEF RmRow
<1>5. CASE RmRoute(d)
  BY <1>1, <1>5, RmGoes DEF RmRoute
<1>6. CASE RmCommit(d)
  BY <1>1, <1>6, RmEnds DEF RmCommit
<1> QED
  BY <1>2, <1>3, <1>4, <1>5, <1>6 DEF RmStep

LEMMA DelMoved ==
    ASSUME Typed, NEW x \in Deleter, DelStep(x)
    PROVE  /\ \A y \in Deleter \ {x} : del'[y] = del[y]
           /\ del[x].s \in Source
           /\ \/ DelCommit(x) /\ del'[x].pc = "idle"
              \/ /\ del'[x].s = del[x].s
                 /\ \/ DelMark(x) /\ del'[x].pc = "list"
                    \/ /\ DelList(x) /\ del'[x].pc \in {"detach", "commit"}
                       /\ del'[x].todo = {n \in Num : source[n] = del[x].s}
                    \/ /\ DelDetach(x) /\ del'[x].pc \in {"detach", "commit"}
                       /\ del'[x].todo = del[x].todo \ {del[x].at}
                       /\ del'[x].late = del[x].late
<1>1. del[x].s \in Source /\ del[x].todo \in SUBSET Num
  BY DEF Typed, TypeOK, Busy, DelStep, DelMark, DelList, DelDetach, DelCommit
<1>2. CASE DelMark(x)
  BY <1>1, <1>2, DelGoes DEF DelMark
<1>3. CASE DelList(x)
  <2>1. {n \in Num : source[n] = del[x].s} \in SUBSET Num
    OBVIOUS
  <2> QED
    BY <1>1, <1>3, <2>1, DelDetaches DEF DelList
<1>4. CASE DelDetach(x)
  <2>1. del[x].todo \ {del[x].at} \in SUBSET Num
    BY <1>1
  <2> QED
    BY <1>1, <1>4, <2>1, DelDetaches DEF DelDetach
<1>5. CASE DelCommit(x)
  BY <1>1, <1>5, DelEnds DEF DelCommit
<1> QED
  BY <1>2, <1>3, <1>4, <1>5 DEF DelStep

-----------------------------------------------------------------------------
(* Locks *)

LEMMA InitHeld == Init => Held
  BY DistinctAssumption DEF Init, Held, Handler, RmIdle

LEMMA UpHeld ==
    ASSUME Typed, Held, NEW u \in Updater, UpStep(u)
    PROVE  Held'
<1>0. /\ u \in Handler /\ None \notin Handler /\ u \notin Remover /\ u \notin Deleter
      /\ Remover \cap Deleter = {} /\ Busy /\ Typed
      /\ rowLock \in [Num -> Handler \cup {None}] /\ routeLock \in [Num -> Handler \cup {None}]
  BY DistinctAssumption DEF Handler, Typed, TypeOK
<1>1. /\ \A v \in Updater \ {u} : up'[v] = up[v]
      /\ up[u].pc # "idle" /\ up[u].n \in Num
  BY UpMoved
<1>2. rm' = rm /\ \A x \in Deleter : del'[x].pc = del[x].pc
  <2>1. ~UpCommit(u) => del' = del
    BY DEF UpStep, UpLoad, UpRoute, UpFindSource, UpNoSource, UpWrite, UpConflict, UpVictim,
           Retry
  <2>2. CASE UpCommit(u)
    BY <1>1, <2>2, DelNotes DEF UpCommit
  <2>3. rm' = rm
    BY DEF UpStep, UpLoad, UpRoute, UpFindSource, UpNoSource, UpWrite, UpConflict, UpVictim,
           Retry, UpCommit
  <2> QED
    BY <2>1, <2>2, <2>3
<1>3. CASE UpNoSource(u) \/ Retry(u) \/ UpCommit(u)
  <2>1. \A n \in Num : /\ rowLock'[n] = IF rowLock[n] = u THEN None ELSE rowLock[n]
                       /\ routeLock'[n] = IF routeLock[n] = u THEN None ELSE routeLock[n]
    BY <1>0, <1>3, Unlocked DEF UpNoSource, Retry, UpCommit
  <2>2. \A d \in Remover : rm[d].pc \in {"route", "commit"} => rm[d].n \in Num
    BY <1>0 DEF Busy
  <2>3. \A n \in Num, v \in Updater :
           /\ rowLock'[n] = v => rowLock[n] = v /\ v # u
           /\ routeLock'[n] = v => routeLock[n] = v /\ v # u
    BY <1>0, <2>1 DEF Handler
  <2>4. \A n \in Num, d \in Remover :
           (rowLock'[n] = d <=> rowLock[n] = d) /\ (routeLock'[n] = d <=> routeLock[n] = d)
    BY <1>0, <2>1 DEF Handler
  <2>5. \A n \in Num, x \in Deleter : rowLock'[n] = x => rowLock[n] = x
    BY <1>0, <2>1 DEF Handler
  <2> QED
    BY <1>1, <1>2, <2>2, <2>3, <2>4, <2>5 DEF Held
<1>4. ASSUME up'[u].n = up[u].n, up'[u].fwd = up[u].fwd, up'[u].src = up[u].src
      PROVE  /\ UpLoad(u) => Held'
             /\ UpRoute(u) /\ up'[u].pc \in {"find", "write", "commit"} => Held'
             /\ UpFindSource(u) /\ up'[u].pc = "write" => Held'
             /\ UpWrite(u) /\ up'[u].pc = "commit" => Held'
  <2>1. ASSUME UpLoad(u) PROVE Held'
    BY <1>0, <1>1, <1>2, <2>1 DEF UpLoad, Held, lockVars
  <2>2. ASSUME UpRoute(u) /\ up'[u].pc \in {"find", "write", "commit"} PROVE Held'
    <3>1. /\ up[u].pc = "route" /\ up[u].fwd # Keep /\ rowLock' = rowLock
          /\ \A n \in Num : rowLock[n] # u /\ routeLock[n] # u
      BY <1>0, <2>2 DEF UpRoute, Held, Busy
    <3>2. \A n \in Num : \/ routeLock'[n] = routeLock[n]
                         \/ n = up[u].n /\ routeLock'[n] = u
      BY <1>0, <1>1, <2>2 DEF UpRoute
    <3> QED
      BY <1>0, <1>1, <1>2, <1>4, <2>2, <3>1, <3>2 DEF Held
  <2>3. ASSUME UpFindSource(u) /\ up'[u].pc = "write" PROVE Held'
    BY <1>0, <1>1, <1>2, <1>4, <2>3 DEF UpFindSource, Held, lockVars
  <2>4. ASSUME UpWrite(u) /\ up'[u].pc = "commit" PROVE Held'
    <3>1. /\ up[u].pc = "write" /\ up[u].src # Keep /\ routeLock' = routeLock
          /\ \A n \in Num : rowLock[n] # u
      BY <1>0, <2>4 DEF UpWrite, Held, Busy
    <3>2. \A n \in Num : \/ rowLock'[n] = rowLock[n]
                         \/ n = up[u].n /\ rowLock'[n] = u /\ rowLock[n] = None
      BY <1>0, <1>1, <2>4, <3>1 DEF UpWrite, Free
    <3>3. \A d \in Remover : rm[d].pc \in {"route", "commit"} => rm[d].n \in Num
      BY <1>0 DEF Busy
    <3>4. \A n \in Num, v \in Updater :
             /\ rowLock'[n] = v => up'[v].pc = "commit" /\ up'[v].n = n /\ up'[v].src # Keep
             /\ routeLock'[n] = v => /\ up'[v].pc \in {"find", "write", "commit"}
                                    /\ up'[v].n = n /\ up'[v].fwd # Keep
      BY <1>0, <1>1, <1>4, <2>4, <3>1, <3>2 DEF Held
    <3>5. \A n \in Num, d \in Remover : rowLock'[n] = d <=> rowLock[n] = d
      BY <1>0, <3>2 DEF Handler
    <3>6. \A n \in Num, x \in Deleter : rowLock'[n] = x => rowLock[n] = x
      BY <1>0, <3>2 DEF Handler
    <3> QED
      BY <1>2, <3>1, <3>3, <3>4, <3>5, <3>6 DEF Held
  <2> QED
    BY <2>1, <2>2, <2>3, <2>4
<1> QED
  BY <1>3, <1>4, UpMoved

LEMMA RmHeld ==
    ASSUME Typed, Held, NEW d \in Remover, RmStep(d)
    PROVE  Held'
<1>0. /\ d \in Handler /\ None \notin Handler /\ d \notin Updater /\ d \notin Deleter /\ Typed
      /\ rowLock \in [Num -> Handler \cup {None}] /\ routeLock \in [Num -> Handler \cup {None}]
      /\ \A e \in Remover : rm[e].pc \in {"route", "commit"} => rm[e].n \in Num
  BY DistinctAssumption DEF Handler, Typed, TypeOK, Busy
<1>1. /\ \A e \in Remover \ {d} : rm'[e] = rm[e]
      /\ rm[d].n \in Num /\ up' = up /\ del' = del
  BY RmMoved DEF RmStep, RmRevert, RmBegin, RmRow, RmRoute, RmCommit
<1>2. CASE rm'[d].pc = "idle" /\ (RmRevert(d) \/ RmCommit(d))
  <2>1. CASE RmRevert(d)
    BY <1>0, <1>1, <1>2, <2>1 DEF RmRevert, Held, lockVars
  <2>2. CASE RmCommit(d)
    <3>1. \A n \in Num : /\ rowLock'[n] = IF rowLock[n] = d THEN None ELSE rowLock[n]
                         /\ routeLock'[n] = IF routeLock[n] = d THEN None ELSE routeLock[n]
      BY <1>0, <2>2, Unlocked DEF RmCommit
    <3>2. \A n \in Num, v \in Updater \cup Deleter :
             (rowLock'[n] = v <=> rowLock[n] = v) /\ (routeLock'[n] = v <=> routeLock[n] = v)
      BY <1>0, <3>1 DEF Handler
    <3>3. \A n \in Num, e \in Remover :
             /\ rowLock'[n] = e <=> rowLock[n] = e /\ e # d
             /\ routeLock'[n] = e <=> routeLock[n] = e /\ e # d
      BY <1>0, <3>1 DEF Handler
    <3> QED
      BY <1>0, <1>1, <1>2, <3>2, <3>3 DEF Held
  <2> QED
    BY <1>2, <2>1, <2>2
<1>3. CASE RmBegin(d) /\ rm'[d].pc = "row" /\ rm'[d].n = rm[d].n
  <2>1. rm[d].pc = "twilio" /\ UNCHANGED <<rowLock, routeLock>>
    BY <1>3 DEF RmBegin, lockVars
  <2> QED
    BY <1>0, <1>1, <1>3, <2>1 DEF Held
<1>4. CASE RmRow(d) /\ rm'[d].pc = "route" /\ rm'[d].n = rm[d].n
  <2>1. rm[d].pc = "row" /\ routeLock' = routeLock
    BY <1>4 DEF RmRow
  <2>2. \A n \in Num : \/ rowLock'[n] = rowLock[n] /\ n # rm[d].n
                       \/ n = rm[d].n /\ rowLock'[n] = d /\ rowLock[n] = None
    BY <1>0, <1>1, <1>4, <2>1 DEF RmRow, Free, Held
  <2>3. \A n \in Num, v \in Updater \cup Deleter : rowLock'[n] = v <=> rowLock[n] = v
    BY <1>0, <2>2 DEF Handler
  <2>4. \A n \in Num, e \in Remover \ {d} : rowLock'[n] = e <=> rowLock[n] = e
    BY <1>0, <2>2 DEF Handler
  <2>5. \A n \in Num : rowLock'[n] = d <=> n = rm[d].n
    BY <1>0, <2>1, <2>2 DEF Held
  <2> QED
    BY <1>0, <1>1, <1>4, <2>1, <2>3, <2>4, <2>5 DEF Held
<1>5. CASE RmRoute(d) /\ rm'[d].pc = "commit" /\ rm'[d].n = rm[d].n
  <2>1. rm[d].pc = "route" /\ rowLock' = rowLock
    BY <1>5 DEF RmRoute
  <2>2. \A n \in Num : \/ routeLock'[n] = routeLock[n]
                       \/ n = rm[d].n /\ routeLock'[n] = d /\ routeLock[n] \in {None, d}
    BY <1>0, <1>1, <1>5 DEF RmRoute, Free
  <2>3. \A n \in Num, v \in Updater : routeLock'[n] = v => routeLock[n] = v
    BY <1>0, <2>2 DEF Handler
  <2>4. \A n \in Num, e \in Remover :
           routeLock'[n] = e => routeLock[n] = e \/ (e = d /\ n = rm[d].n)
    BY <1>0, <2>2 DEF Handler
  <2> QED
    BY <1>0, <1>1, <1>5, <2>1, <2>3, <2>4 DEF Held
<1> QED
  BY <1>2, <1>3, <1>4, <1>5, RmMoved

LEMMA DelHeld ==
    ASSUME Typed, Held, NEW x \in Deleter, DelStep(x)
    PROVE  Held'
<1>0. /\ x \in Handler /\ None \notin Handler /\ x \notin Updater /\ x \notin Remover /\ Typed
      /\ rowLock \in [Num -> Handler \cup {None}] /\ routeLock \in [Num -> Handler \cup {None}]
      /\ \A e \in Remover : rm[e].pc \in {"route", "commit"} => rm[e].n \in Num
  BY DistinctAssumption DEF Handler, Typed, TypeOK, Busy
<1>1. \A y \in Deleter \ {x} : del'[y] = del[y]
  BY DelMoved
<1>2. up' = up /\ rm' = rm
  BY DEF DelStep, DelMark, DelList, DelDetach, DelCommit
<1>3. CASE DelCommit(x) /\ del'[x].pc = "idle"
  <2>1. \A n \in Num : /\ rowLock'[n] = IF rowLock[n] = x THEN None ELSE rowLock[n]
                       /\ routeLock'[n] = IF routeLock[n] = x THEN None ELSE routeLock[n]
    BY <1>0, <1>3, Unlocked DEF DelCommit
  <2>2. \A n \in Num, v \in Updater \cup Remover :
           (rowLock'[n] = v <=> rowLock[n] = v) /\ (routeLock'[n] = v <=> routeLock[n] = v)
    BY <1>0, <2>1 DEF Handler
  <2>3. \A n \in Num, y \in Deleter : rowLock'[n] = y => rowLock[n] = y /\ y # x
    BY <1>0, <2>1 DEF Handler
  <2> QED
    BY <1>0, <1>1, <1>2, <1>3, <2>2, <2>3 DEF Held
<1>4. CASE DelMark(x) /\ del'[x].pc = "list"
  <2>1. del[x].pc = "mark" /\ UNCHANGED <<rowLock, routeLock>>
    BY <1>4 DEF DelMark
  <2> QED
    BY <1>0, <1>1, <1>2, <1>4, <2>1 DEF Held
<1>5. CASE DelList(x) /\ del'[x].pc \in {"detach", "commit"}
  <2>1. del[x].pc = "list" /\ UNCHANGED <<rowLock, routeLock>>
    BY <1>5 DEF DelList, lockVars
  <2> QED
    BY <1>0, <1>1, <1>2, <1>5, <2>1 DEF Held
<1>6. CASE DelDetach(x) /\ del'[x].pc \in {"detach", "commit"}
  <2>1. \A n \in Num : \/ rowLock'[n] = rowLock[n]
                       \/ rowLock'[n] = x /\ rowLock[n] \in {None, x}
    BY <1>0, <1>6 DEF DelDetach, Free
  <2>2. routeLock' = routeLock
    BY <1>6 DEF DelDetach
  <2>3. \A n \in Num, v \in Updater \cup Remover : rowLock'[n] = v <=> rowLock[n] = v
    BY <1>0, <2>1 DEF Handler
  <2>4. \A n \in Num, y \in Deleter : rowLock'[n] = y => y = x \/ rowLock[n] = y
    BY <1>0, <2>1 DEF Handler
  <2> QED
    BY <1>0, <1>1, <1>2, <1>6, <2>2, <2>3, <2>4 DEF Held
<1> QED
  BY <1>3, <1>4, <1>5, <1>6, DelMoved

LEMMA VictimHeld ==
    ASSUME Typed, Held, NEW h \in Remover \cup Deleter, Victim(h)
    PROVE  Held'
<1>0. /\ h \in Handler /\ None \notin Handler /\ h \notin Updater /\ Remover \cap Deleter = {}
      /\ \A d \in Remover : rm[d].pc \in {"route", "commit"} => rm[d].n \in Num
  BY DistinctAssumption DEF Handler, Typed, TypeOK, Busy
<1>1. /\ up' = up
      /\ \A d \in Remover : rm'[d] = IF d = h THEN RmIdle ELSE rm[d]
      /\ \A x \in Deleter : del'[x] = IF x = h THEN DelIdle ELSE del[x]
      /\ RmIdle.pc = "idle" /\ DelIdle.pc = "idle"
  BY DEF Victim, RmIdle, DelIdle
<1>2. \A n \in Num : /\ rowLock'[n] = IF rowLock[n] = h THEN None ELSE rowLock[n]
                     /\ routeLock'[n] = IF routeLock[n] = h THEN None ELSE routeLock[n]
  BY <1>0, Unlocked DEF Victim
<1>3. \A n \in Num, g \in Handler :
         /\ rowLock'[n] = g <=> rowLock[n] = g /\ g # h
         /\ routeLock'[n] = g <=> routeLock[n] = g /\ g # h
  BY <1>0, <1>2
<1>4. \A n \in Num, v \in Updater :
         (rowLock'[n] = v <=> rowLock[n] = v) /\ (routeLock'[n] = v <=> routeLock[n] = v)
  BY <1>0, <1>3 DEF Handler
<1>5. \A n \in Num, d \in Remover :
         /\ rowLock'[n] = d <=> rowLock[n] = d /\ d # h
         /\ routeLock'[n] = d <=> routeLock[n] = d /\ d # h
  BY <1>3 DEF Handler
<1>6. \A n \in Num, x \in Deleter : rowLock'[n] = x <=> rowLock[n] = x /\ x # h
  BY <1>3 DEF Handler
<1> QED
  BY <1>0, <1>1, <1>4, <1>5, <1>6 DEF Held

LEMMA NextTyped ==
    ASSUME Typed, Held, [Next]_vars
    PROVE  Typed' /\ Held'
<1> USE DEF rowVars, lockVars, histVars
<1>1. ASSUME NEW n \in Num, ProvisionInserts(n) \/ \E s \in Source : ProvisionFinds(n, s)
      PROVE  Typed' /\ Held'
  <2>1. /\ UNCHANGED <<up, rm, rowLock, routeLock>>
        /\ \A x \in Deleter : del'[x].pc = del[x].pc
    BY <1>1, DelNotes DEF ProvisionInserts, ProvisionFinds
  <2> QED
    BY <1>1, <2>1, ProvisionTyped DEF Held
<1>2. ASSUME NEW u \in Updater, NEW n \in Num, NEW dto \in Request, UpBegin(u, n, dto)
      PROVE  Typed' /\ Held'
  <2>1. /\ UNCHANGED <<rm, del, rowLock, routeLock>> /\ up[u].pc = "idle"
        /\ \A v \in Updater \ {u} : up'[v] = up[v]
    BY <1>2, BeginTyped DEF UpBegin
  <2>2. Held'
    BY <2>1 DEF Held
  <2> QED
    BY <1>2, <2>2, BeginTyped
<1>3. ASSUME NEW u \in Updater, UpStep(u) PROVE Typed' /\ Held'
  BY <1>3, UpTyped, UpHeld
<1>4. ASSUME NEW d \in Remover, NEW n \in Num, RmMark(d, n) PROVE Typed' /\ Held'
  <2>1. /\ UNCHANGED <<up, del, rowLock, routeLock>> /\ rm[d].pc = "idle"
        /\ rm'[d].pc = "twilio" /\ \A e \in Remover \ {d} : rm'[e] = rm[e]
    BY <1>4, MarkTyped DEF RmMark
  <2>2. Held'
    BY <2>1 DEF Held
  <2> QED
    BY <1>4, <2>2, MarkTyped
<1>5. ASSUME NEW d \in Remover, RmStep(d) PROVE Typed' /\ Held'
  BY <1>5, RmTyped, RmHeld
<1>6. ASSUME NEW x \in Deleter, NEW s \in Source, DelBegin(x, s) PROVE Typed' /\ Held'
  <2>1. /\ UNCHANGED <<up, rm, rowLock, routeLock>> /\ del[x].pc = "idle"
        /\ \A y \in Deleter \ {x} : del'[y] = del[y]
    BY <1>6, DelBeginTyped DEF DelBegin
  <2>2. Held'
    BY <2>1 DEF Held
  <2> QED
    BY <1>6, <2>2, DelBeginTyped
<1>7. ASSUME NEW x \in Deleter, DelStep(x) PROVE Typed' /\ Held'
  BY <1>7, DelTyped, DelHeld
<1>8. ASSUME NEW h \in Remover \cup Deleter, Victim(h) PROVE Typed' /\ Held'
  BY <1>8, VictimTyped, VictimHeld
<1>9. CASE UNCHANGED vars
  BY <1>9 DEF vars, Typed, TypeOK, Busy, Held
<1> QED
  BY <1>1, <1>2, <1>3, <1>4, <1>5, <1>6, <1>7, <1>8, <1>9 DEF Next

\* Every handler, lock and column keeps its type.
THEOREM TypeCorrect == Spec => []TypeOK
<1>1. Init => Typed /\ Held
  BY InitTyped, InitHeld
<1>2. Typed /\ Held /\ [Next]_vars => Typed' /\ Held'
  BY NextTyped
<1>3. Typed => TypeOK
  BY DEF Typed
<1> QED
  BY <1>1, <1>2, <1>3, PTL DEF Spec

-----------------------------------------------------------------------------
(* Optimistic locking *)

\* The clause finds exactly the changes that matter, and none comes after it.
Fresh ==
    /\ stale = outdated
    /\ \A u \in Updater : up[u].pc = "commit" /\ rowLock[up[u].n] = u => u \notin outdated

\* A row that is locked is changed by nobody else.
LEMMA FreshKept ==
    ASSUME Typed, Held, Fresh, NEW N \in SUBSET Num, NEW h,
           stale' = stale \cup ReadersOf(N), outdated' = outdated \cup ReadersOf(N),
           \A n \in N : rowLock[n] \in {None, h},
           h \notin Updater, up' = up,
           \A n \in Num, u \in Updater : rowLock'[n] = u => rowLock[n] = u
    PROVE  Fresh'
<1>1. \A u \in Updater : u \in ReadersOf(N) => rowLock[up[u].n] # u
  BY DistinctAssumption DEF ReadersOf, Readers, Handler
<1>2. \A u \in Updater : up[u].pc = "commit" => up[u].n \in Num
  BY DEF Typed, Busy
<1> QED
  BY <1>1, <1>2 DEF Fresh

LEMMA NextFresh ==
    ASSUME Typed, Held, Fresh, [Next]_vars
    PROVE  Fresh'
<1> USE DEF rowVars, lockVars, histVars
<1>0. /\ Typed' /\ Held' /\ None \notin Handler
      /\ Updater \cap Remover = {} /\ Updater \cap Deleter = {}
      /\ \A h \in Handler : h # None
  BY NextTyped, DistinctAssumption
<1>1. ASSUME UNCHANGED <<up, rowLock, stale, outdated>> PROVE Fresh'
  BY <1>1 DEF Fresh
<1>2. ASSUME NEW n \in Num, ProvisionInserts(n) \/ \E s \in Source : ProvisionFinds(n, s)
      PROVE  Fresh'
  BY <1>1, <1>2 DEF ProvisionInserts, ProvisionFinds
<1>3. ASSUME NEW u \in Updater, UNCHANGED <<stale, outdated, rowLock>>,
             \A v \in Updater \ {u} : up'[v] = up[v], up[u].pc # "commit"
      PROVE  Fresh'
  <2>1. \A v \in Updater : up'[v].pc = "commit" => up'[v].n \in Num
    BY <1>0 DEF Typed, Busy
  <2>2. \A n \in Num : rowLock[n] # u
    BY <1>3 DEF Held
  <2> QED
    BY <1>3, <2>1, <2>2 DEF Fresh
<1>4. ASSUME NEW u \in Updater, NEW n \in Num, NEW dto \in Request, UpBegin(u, n, dto)
      PROVE  Fresh'
  BY <1>3, <1>4, BeginTyped DEF UpBegin
<1>5. ASSUME NEW u \in Updater, UpStep(u) PROVE Fresh'
  <2>0. /\ \A v \in Updater \ {u} : up'[v] = up[v] /\ u \in Handler
        /\ \A v \in Updater : up'[v].pc = "commit" => up'[v].n \in Num
    BY <1>0, <1>5, UpMoved DEF Handler, Typed, Busy
  <2>1. CASE UpLoad(u) \/ UpRoute(u) \/ UpFindSource(u)
    BY <1>3, <1>5, <2>1, UpMoved DEF UpLoad, UpRoute, UpFindSource
  <2>2. CASE UpWrite(u)
    BY <1>5, <2>0, <2>2 DEF UpWrite, Fresh, Typed, TypeOK
  <2>3. CASE UpNoSource(u) \/ Retry(u)
    <3>1. stale' = stale \ {u} /\ outdated' = outdated \ {u} /\ u \notin outdated'
      BY <2>3 DEF UpNoSource, Retry, Forget
    <3>2. \A m \in Num, v \in Updater : rowLock'[m] = v => rowLock[m] = v
      BY <1>0, <2>0, <2>3, Unlocked DEF UpNoSource, Retry, Handler
    <3> QED
      BY <2>0, <3>1, <3>2 DEF Fresh
  <2>4. CASE UpCommit(u)
    <3> DEFINE n == up[u].n  readers == IF rowLock[n] = u THEN Readers(n) ELSE {}
    <3>1. /\ stale' = (stale \cup readers) \ {u}
          /\ outdated' = (outdated \cup readers) \ {u}
      BY <2>4 DEF UpCommit
    <3>2. \A v \in Updater \ {u} : v \in readers => rowLock[up[v].n] # v
      BY DEF Readers
    <3>3. \A m \in Num, v \in Updater : rowLock'[m] = v => rowLock[m] = v
      BY <1>0, <2>0, <2>4, Unlocked DEF UpCommit, Handler
    <3> HIDE DEF readers
    <3> QED
      BY <2>0, <3>1, <3>2, <3>3 DEF Fresh
  <2> QED
    BY <1>5, <2>1, <2>2, <2>3, <2>4 DEF UpStep, UpConflict, UpVictim
<1>6. ASSUME NEW d \in Remover, NEW n \in Num, RmMark(d, n) PROVE Fresh'
  <2>1. {n} \in SUBSET Num /\ d \notin Updater
    BY <1>0
  <2> QED
    BY <1>6, <2>1, FreshKept DEF RmMark, SetStatus, Changed, Stamped
<1>7. ASSUME NEW d \in Remover, RmStep(d) PROVE Fresh'
  <2>0. rm[d].n \in Num /\ {rm[d].n} \in SUBSET Num /\ d \notin Updater /\ d \in Handler
    BY <1>0, <1>7, RmMoved DEF Handler
  <2>1. CASE RmRevert(d)
    BY <2>0, <2>1, FreshKept DEF RmRevert, SetStatus, Changed, Stamped
  <2>2. CASE RmBegin(d) \/ RmRoute(d)
    BY <1>1, <2>2 DEF RmBegin, RmRoute
  <2>3. CASE RmRow(d)
    <3>1. \A n \in Num, u \in Updater : rowLock'[n] = u => rowLock[n] = u
      BY <1>0, <2>0, <2>3 DEF RmRow, Handler, Typed, TypeOK
    <3>2. \A u \in Updater : up[u].pc = "commit" => up[u].n \in Num
      BY DEF Typed, Busy
    <3> QED
      BY <2>3, <3>1, <3>2 DEF RmRow, Fresh
  <2>4. CASE RmCommit(d)
    <3>1. rowLock[rm[d].n] = d
      BY <2>4 DEF RmCommit, Held
    <3>2. \A n \in Num, u \in Updater : rowLock'[n] = u => rowLock[n] = u
      BY <1>0, <2>0, <2>4, Unlocked DEF RmCommit, Handler
    <3> QED
      BY <2>0, <2>4, <3>1, <3>2, FreshKept DEF RmCommit, Changed, Stamped
  <2> QED
    BY <1>7, <2>1, <2>2, <2>3, <2>4 DEF RmStep
<1>8. ASSUME NEW x \in Deleter, NEW s \in Source, DelBegin(x, s) PROVE Fresh'
  BY <1>1, <1>8 DEF DelBegin
<1>9. ASSUME NEW x \in Deleter, DelStep(x) PROVE Fresh'
  <2>0. x \notin Updater /\ x \in Handler
    BY <1>0 DEF Handler
  <2>1. CASE DelMark(x) \/ DelList(x)
    BY <1>1, <2>1 DEF DelMark, DelList
  <2>2. CASE DelDetach(x)
    <3>1. \A n \in Num, u \in Updater : rowLock'[n] = u => rowLock[n] = u
      BY <1>0, <2>0, <2>2 DEF DelDetach, Handler, Typed, TypeOK
    <3>2. \A u \in Updater : up[u].pc = "commit" => up[u].n \in Num
      BY DEF Typed, Busy
    <3> QED
      BY <2>2, <3>1, <3>2 DEF DelDetach, Fresh
  <2>3. CASE DelCommit(x)
    <3> DEFINE mine == {n \in Num : rowLock[n] = x}
    <3>1. mine \in SUBSET Num /\ \A n \in mine : rowLock[n] \in {None, x}
      OBVIOUS
    <3>2. \A n \in Num, u \in Updater : rowLock'[n] = u => rowLock[n] = u
      BY <1>0, <2>0, <2>3, Unlocked DEF DelCommit, Handler
    <3>3. stale' = stale \cup ReadersOf(mine) /\ outdated' = outdated \cup ReadersOf(mine)
      BY <2>3 DEF DelCommit, Changed, Stamped
    <3>4. up' = up
      BY <2>3 DEF DelCommit
    <3> HIDE DEF mine
    <3> QED
      BY <2>0, <3>1, <3>2, <3>3, <3>4, FreshKept
  <2> QED
    BY <1>9, <2>1, <2>2, <2>3 DEF DelStep
<1>10. ASSUME NEW h \in Remover \cup Deleter, Victim(h) PROVE Fresh'
  <2>1. h \in Handler /\ UNCHANGED <<up, stale, outdated>>
    BY <1>10 DEF Handler, Victim
  <2>2. \A n \in Num, u \in Updater : rowLock'[n] = u => rowLock[n] = u
    BY <1>0, <1>10, <2>1, Unlocked DEF Victim, Handler
  <2>3. \A u \in Updater : up[u].pc = "commit" => up[u].n \in Num
    BY DEF Typed, Busy
  <2> QED
    BY <2>1, <2>2, <2>3 DEF Fresh
<1>11. CASE UNCHANGED vars
  BY <1>1, <1>11 DEF vars
<1> QED
  BY <1>2, <1>4, <1>5, <1>6, <1>7, <1>8, <1>9, <1>10, <1>11 DEF Next

\* An update that writes the row of its number writes over what it has read, whoever else
\* updates, removes or detaches meanwhile.
THEOREM NoLostUpdate == Spec => []WritesWhatItRead
<1>1. Init => Typed /\ Held /\ Fresh
  BY InitTyped, InitHeld DEF Init, Fresh, UpIdle
<1>2. Typed /\ Held /\ Fresh /\ [Next]_vars => Typed' /\ Held' /\ Fresh'
  BY NextTyped, NextFresh
<1>3. Fresh => WritesWhatItRead
  BY DEF Fresh, WritesWhatItRead
<1> QED
  BY <1>1, <1>2, <1>3, PTL DEF Spec

-----------------------------------------------------------------------------
(* Removals of numbers *)

\* A row is Releasing because of one removal, until that removal ends.
Removing ==
    /\ \A d \in Remover : rm[d].pc # "idle" => status[rm[d].n] = "releasing"
    /\ \A d, e \in Remover :
           rm[d].pc # "idle" /\ rm[e].pc # "idle" /\ rm[d].n = rm[e].n => d = e
    /\ StuckOnlyAsVictim

LEMMA NextRemoving ==
    ASSUME Typed, Removing, [Next]_vars
    PROVE  Removing'
<1> USE DEF rowVars, lockVars, histVars
<1>0. /\ \A d \in Remover : IF rm[d].pc = "idle" THEN rm[d].n = None ELSE rm[d].n \in Num
      /\ status \in [Num -> {"absent", "active", "releasing", "released"}] /\ None \notin Num
  BY DistinctAssumption DEF Typed, TypeOK, Busy
<1>1. ASSUME UNCHANGED <<status, rm, mishaps>> PROVE Removing'
  BY <1>1 DEF Removing, StuckOnlyAsVictim
<1>2. ASSUME NEW n \in Num, ProvisionInserts(n) \/ \E s \in Source : ProvisionFinds(n, s)
      PROVE  Removing'
  <2>1. CASE ProvisionInserts(n)
    <3>1. /\ UNCHANGED <<rm, mishaps>> /\ status[n] = "absent" /\ status'[n] = "active"
          /\ \A m \in Num \ {n} : status'[m] = status[m]
      BY <1>0, <2>1 DEF ProvisionInserts
    <3> QED
      BY <1>0, <3>1 DEF Removing, StuckOnlyAsVictim
  <2> QED
    BY <1>1, <1>2, <2>1 DEF ProvisionFinds
<1>3. ASSUME NEW u \in Updater,
             UpStep(u) \/ \E n \in Num, dto \in Request : UpBegin(u, n, dto)
      PROVE  Removing'
  <2>1. UNCHANGED <<status, rm>> /\ \A n : <<"victim", n>> \in mishaps => <<"victim", n>> \in mishaps'
    BY <1>3
    DEF UpBegin, UpStep, UpLoad, UpRoute, UpFindSource, UpNoSource, UpWrite, UpConflict,
        UpVictim, UpCommit, Retry
  <2> QED
    BY <2>1 DEF Removing, StuckOnlyAsVictim
<1>4. ASSUME NEW d \in Remover, NEW n \in Num, RmMark(d, n) PROVE Removing'
  <2>1. /\ rm'[d].pc = "twilio" /\ rm'[d].n = n /\ rm[d].pc = "idle"
        /\ \A e \in Remover \ {d} : rm'[e] = rm[e]
    BY <1>4, MarkTyped DEF RmMark
  <2>2. /\ status[n] # "releasing" /\ status'[n] = "releasing" /\ mishaps' = mishaps
        /\ \A m \in Num \ {n} : status'[m] = status[m]
    BY <1>0, <1>4 DEF RmMark, SetStatus
  <2> QED
    BY <1>0, <2>1, <2>2 DEF Removing, StuckOnlyAsVictim
<1>5. ASSUME NEW d \in Remover, RmStep(d) PROVE Removing'
  <2>0. \A e \in Remover \ {d} : rm'[e] = rm[e]
    BY <1>5, RmMoved
  <2>1. CASE (RmRevert(d) \/ RmCommit(d)) /\ rm'[d].pc = "idle" /\ rm'[d].n = None
    <3>1. /\ mishaps' = mishaps /\ status'[rm[d].n] # "releasing"
          /\ \A m \in Num : m # rm[d].n => status'[m] = status[m]
          /\ rm[d].pc # "idle" /\ rm[d].n \in Num
      BY <1>0, <2>1 DEF RmRevert, RmCommit, SetStatus
    <3> QED
      BY <1>0, <2>0, <2>1, <3>1 DEF Removing, StuckOnlyAsVictim
  <2>2. CASE /\ RmBegin(d) \/ RmRow(d) \/ RmRoute(d)
             /\ rm'[d].pc # "idle" /\ rm'[d].n = rm[d].n
    <3>1. /\ status' = status /\ rm[d].pc # "idle"
          /\ \A n : <<"victim", n>> \in mishaps => <<"victim", n>> \in mishaps'
      BY <2>2 DEF RmBegin, RmRow, RmRoute
    <3> QED
      BY <1>0, <2>0, <2>2, <3>1 DEF Removing, StuckOnlyAsVictim
  <2> QED
    BY <1>5, <2>1, <2>2, RmMoved
<1>6. ASSUME NEW x \in Deleter, DelStep(x) \/ \E s \in Source : DelBegin(x, s)
      PROVE  Removing'
  BY <1>1, <1>6 DEF DelBegin, DelStep, DelMark, DelList, DelDetach, DelCommit
<1>7. ASSUME NEW h \in Remover \cup Deleter, Victim(h) PROVE Removing'
  <2>1. /\ status' = status /\ mishaps \subseteq mishaps'
        /\ h \in Remover => <<"victim", rm[h].n>> \in mishaps'
        /\ \A d \in Remover : rm'[d] = IF d = h THEN RmIdle ELSE rm[d]
        /\ RmIdle.pc = "idle"
    BY <1>7 DEF Victim, RmIdle
  <2> QED
    BY <2>1 DEF Removing, StuckOnlyAsVictim
<1>8. CASE UNCHANGED vars
  BY <1>1, <1>8 DEF vars
<1> QED
  BY <1>2, <1>3, <1>4, <1>5, <1>6, <1>7, <1>8 DEF Next

\* Waiting for locks alone leaves no row Releasing behind: only a removal that a deadlock
\* aborted does.
THEOREM NothingStuck == Spec => []StuckOnlyAsVictim
<1>1. Init => Typed /\ Held /\ Removing
  BY InitTyped, InitHeld DEF Init, Removing, StuckOnlyAsVictim, RmIdle
<1>2. Typed /\ Held /\ Removing /\ [Next]_vars => Typed' /\ Held' /\ Removing'
  BY NextTyped, NextRemoving
<1>3. Removing => StuckOnlyAsVictim
  BY DEF Removing, StuckOnlyAsVictim
<1> QED
  BY <1>1, <1>2, <1>3, PTL DEF Spec

-----------------------------------------------------------------------------
(* Routes *)

\* An update of the route of n is under way.
Rerouting(n) == \E u \in Updater : up[u].n = n /\ up[u].fwd # Keep

Excused(n) == <<"rerouted", n>> \in mishaps

\* A removal that has closed the routes leaves none that could come back.
Closing ==
    /\ \A d \in Remover : rm[d].pc = "commit" /\ ~Excused(rm[d].n) =>
           /\ ~Rerouting(rm[d].n)
           /\ route[rm[d].n] = NoRoute \/ routeLock[rm[d].n] = d
    /\ \A n \in Num : status[n] = "released" /\ ~Excused(n) =>
           ~Rerouting(n) /\ route[n] = NoRoute

LEMMA NextClosing ==
    ASSUME Typed, Held, Removing, Closing, [Next]_vars
    PROVE  Closing'
<1> USE DEF rowVars, lockVars, histVars
<1>0. /\ \A d \in Remover : IF rm[d].pc = "idle" THEN rm[d].n = None ELSE rm[d].n \in Num
      /\ status \in [Num -> {"absent", "active", "releasing", "released"}] /\ None \notin Num
      /\ route \in [Num -> Forward \cup {None, NoRoute}]
      /\ routeLock \in [Num -> Handler \cup {None}]
      /\ None \notin Handler /\ Updater \cap Remover = {} /\ Remover \cap Deleter = {}
      /\ \A d \in Remover : d \in Handler
  BY DistinctAssumption DEF Typed, TypeOK, Busy, Handler
<1>1. ASSUME UNCHANGED <<status, route, rm, mishaps>>,
             \A n \in Num : Rerouting(n)' => Rerouting(n),
             \A n \in Num, d \in Remover : routeLock[n] = d => routeLock'[n] = d
      PROVE  Closing'
  BY <1>0, <1>1 DEF Closing, Excused
<1>2. ASSUME up' = up PROVE \A n \in Num : Rerouting(n)' => Rerouting(n)
  BY <1>2 DEF Rerouting
<1>3. ASSUME NEW n \in Num, ProvisionInserts(n) \/ \E s \in Source : ProvisionFinds(n, s)
      PROVE  Closing'
  <2>1. CASE ProvisionInserts(n)
    <3>1. /\ UNCHANGED <<rm, mishaps, up, routeLock>>
          /\ status[n] = "absent" /\ status'[n] = "active"
          /\ \A m \in Num \ {n} : status'[m] = status[m] /\ route'[m] = route[m]
      BY <1>0, <2>1 DEF ProvisionInserts
    <3>2. \A d \in Remover : rm[d].pc = "commit" => rm[d].n \in Num \ {n}
      BY <1>0, <3>1 DEF Removing
    <3> QED
      BY <1>0, <1>2, <3>1, <3>2 DEF Closing, Excused
  <2>2. CASE \E s \in Source : ProvisionFinds(n, s)
    BY <1>1, <1>2, <2>2 DEF ProvisionFinds
  <2> QED
    BY <1>3, <2>1, <2>2
<1>4. ASSUME NEW u \in Updater, NEW n \in Num, NEW dto \in Request, UpBegin(u, n, dto)
      PROVE  Closing'
  <2>1. /\ UNCHANGED <<rm, status, route, routeLock>>
        /\ up'[u].n = n /\ up'[u].fwd = dto.fwd /\ \A v \in Updater \ {u} : up'[v] = up[v]
        /\ \A m : Excused(m) => Excused(m)'
        /\ dto.fwd # Keep /\ Closed(n) => Excused(n)'
    <3>1. mishaps' = IF dto.fwd # Keep /\ Closed(n) THEN mishaps \cup {<<"rerouted", n>>}
                    ELSE mishaps
      BY <1>4 DEF UpBegin
    <3>2. /\ \A m : Excused(m) => Excused(m)'
          /\ dto.fwd # Keep /\ Closed(n) => Excused(n)'
      BY <3>1, Zenon DEF Excused
    <3>3. UNCHANGED <<rm, status, route, routeLock>>
      BY <1>4 DEF UpBegin
    <3>4. up'[u].n = n /\ up'[u].fwd = dto.fwd /\ \A v \in Updater \ {u} : up'[v] = up[v]
      BY <1>4, BeginTyped
    <3> QED
      BY <3>2, <3>3, <3>4, Zenon
  <2>2. \A m \in Num : Rerouting(m)' => (m = n /\ dto.fwd # Keep) \/ Rerouting(m)
    BY <2>1 DEF Rerouting
  <2>3. ASSUME NEW d \in Remover, rm[d].pc = "commit", ~Excused(rm[d].n)'
        PROVE  ~Rerouting(rm[d].n)'
    BY <1>0, <2>1, <2>2, <2>3 DEF Closing, Closed
  <2>4. ASSUME NEW m \in Num, status[m] = "released", ~Excused(m)' PROVE ~Rerouting(m)'
    BY <1>0, <2>1, <2>2, <2>4 DEF Closing, Closed
  <2> QED
    BY <1>0, <2>1, <2>3, <2>4 DEF Closing
<1>5. ASSUME NEW u \in Updater, UpStep(u) PROVE Closing'
  <2>1. \A n \in Num : Rerouting(n)' => Rerouting(n)
    BY <1>0, <1>5, UpMoved DEF Rerouting
  <2>2. UNCHANGED <<status, rm, mishaps>> /\ u \in Handler /\ u \notin Remover
    BY <1>0, <1>5
    DEF UpStep, UpLoad, UpRoute, UpFindSource, UpNoSource, UpWrite, UpConflict, UpVictim,
        UpCommit, Retry, Handler
  <2>3. CASE UpLoad(u) \/ UpFindSource(u) \/ UpWrite(u)
    BY <1>1, <2>1, <2>3 DEF UpLoad, UpFindSource, UpWrite
  <2>4. CASE UpNoSource(u) \/ Retry(u)
    <3>1. \A n \in Num, d \in Remover : routeLock[n] = d => routeLock'[n] = d
      BY <2>2, <2>4, Unlocked DEF UpNoSource, Retry
    <3> QED
      BY <1>1, <2>1, <2>4, <3>1 DEF UpNoSource, Retry
  <2>5. CASE UpRoute(u)
    <3>1. \A n \in Num, d \in Remover : routeLock[n] = d => routeLock'[n] = d
      BY <1>0, <2>2, <2>5 DEF UpRoute, Free
    <3> QED
      BY <1>1, <2>1, <2>5, <3>1 DEF UpRoute
  <2>6. CASE UpCommit(u)
    <3>1. \A n \in Num, d \in Remover : routeLock[n] = d => routeLock'[n] = d
      BY <2>2, <2>6, Unlocked DEF UpCommit
    <3>2. \A n \in Num : Rerouting(n) \/ route'[n] = route[n]
      <4>1. \A n \in Num : routeLock[n] = u => Rerouting(n)
        BY DEF Held, Rerouting
      <4>2. route' = IF routeLock[up[u].n] = u THEN [route EXCEPT ![up[u].n] = up[u].fwd]
                     ELSE route
        BY <2>6 DEF UpCommit
      <4> QED
        BY <1>0, <4>1, <4>2
    <3> QED
      BY <1>0, <2>1, <2>2, <3>1, <3>2 DEF Closing, Excused
  <2> QED
    BY <1>5, <2>3, <2>4, <2>5, <2>6 DEF UpStep, UpConflict, UpVictim
<1>6. ASSUME NEW d \in Remover, NEW n \in Num, RmMark(d, n) PROVE Closing'
  <2>1. /\ rm'[d].pc = "twilio" /\ \A e \in Remover \ {d} : rm'[e] = rm[e]
        /\ UNCHANGED <<up, route, routeLock, mishaps>>
        /\ \A m \in Num : status'[m] = "released" => status[m] = "released"
    BY <1>0, <1>6, MarkTyped DEF RmMark, SetStatus
  <2> QED
    BY <1>0, <1>2, <2>1 DEF Closing, Excused
<1>7. ASSUME NEW d \in Remover, RmStep(d) PROVE Closing'
  <2>0. /\ \A e \in Remover \ {d} : rm'[e] = rm[e]
        /\ rm[d].pc # "idle" /\ rm[d].n \in Num /\ up' = up
    BY <1>7, RmMoved DEF RmStep, RmRevert, RmBegin, RmRow, RmRoute, RmCommit
  <2>1. CASE RmRevert(d) /\ rm'[d].pc = "idle"
    <3>1. /\ UNCHANGED <<route, routeLock, mishaps>>
          /\ \A m \in Num : status'[m] = "released" => status[m] = "released"
      BY <1>0, <2>1 DEF RmRevert, SetStatus
    <3> QED
      BY <1>0, <1>2, <2>0, <2>1, <3>1 DEF Closing, Excused
  <2>2. CASE RmBegin(d) /\ rm'[d].pc = "row"
    <3>1. UNCHANGED <<status, route, routeLock, mishaps>>
      BY <2>2 DEF RmBegin
    <3> QED
      BY <1>0, <1>2, <2>0, <2>2, <3>1 DEF Closing, Excused
  <2>3. CASE RmRow(d) /\ rm'[d].pc = "route"
    <3>1. UNCHANGED <<status, route, routeLock, mishaps>>
      BY <2>3 DEF RmRow
    <3> QED
      BY <1>0, <1>2, <2>0, <2>3, <3>1 DEF Closing, Excused
  <2>4. CASE RmRoute(d) /\ rm'[d].pc = "commit" /\ rm'[d].n = rm[d].n
    <3>1. /\ UNCHANGED <<status, route>> /\ status[rm[d].n] = "releasing"
          /\ ~Excused(rm[d].n)' => ~Rerouting(rm[d].n)
          /\ \A n \in Num \ {rm[d].n} : Excused(n) => Excused(n)'
      BY <2>0, <2>4 DEF RmRoute, Rerouting, Removing, Excused
    <3>4. \A e \in Remover \ {d} : rm[e].pc = "commit" => rm[e].n \in Num \ {rm[d].n}
      BY <1>0, <2>0 DEF Removing
    <3>2. route[rm[d].n] = NoRoute \/ routeLock'[rm[d].n] = d
      BY <1>0, <2>0, <2>4 DEF RmRoute
    <3>3. \A n \in Num, e \in Remover : routeLock[n] = e => routeLock'[n] = e
      BY <1>0, <2>0, <2>4 DEF RmRoute, Free
    <3> QED
      BY <1>0, <1>2, <2>0, <2>4, <3>1, <3>2, <3>3, <3>4 DEF Closing
  <2>5. CASE RmCommit(d) /\ rm'[d].pc = "idle"
    <3>1. /\ mishaps' = mishaps /\ rm[d].pc = "commit"
          /\ \A m \in Num : m # rm[d].n => status'[m] = status[m] /\ route'[m] = route[m]
      BY <1>0, <2>5 DEF RmCommit
    <3>2. route[rm[d].n] = NoRoute \/ routeLock[rm[d].n] = d => route'[rm[d].n] = NoRoute
      BY <1>0, <2>0, <2>5 DEF RmCommit
    <3>3. \A n \in Num, e \in Remover \ {d} : routeLock[n] = e => routeLock'[n] = e
      BY <1>0, <2>5, Unlocked DEF RmCommit
    <3>4. \A e \in Remover \ {d} : rm[e].pc = "commit" => rm[e].n # rm[d].n
      BY <2>0 DEF Removing
    <3> QED
      BY <1>0, <1>2, <2>0, <2>5, <3>1, <3>2, <3>3, <3>4 DEF Closing, Excused
  <2> QED
    BY <1>7, <2>1, <2>2, <2>3, <2>4, <2>5, RmMoved
<1>8. ASSUME NEW x \in Deleter, NEW s \in Source, DelBegin(x, s) PROVE Closing'
  BY <1>1, <1>2, <1>8 DEF DelBegin
<1>9. ASSUME NEW x \in Deleter, DelStep(x) PROVE Closing'
  <2>1. \A n \in Num, d \in Remover : routeLock[n] = d => routeLock'[n] = d
    <3>1. ~DelCommit(x) => routeLock' = routeLock
      BY <1>9 DEF DelStep, DelMark, DelList, DelDetach
    <3>2. DelCommit(x) => Unlock(x)
      BY DEF DelCommit
    <3> QED
      BY <1>0, <3>1, <3>2, Unlocked DEF Handler
  <2>2. UNCHANGED <<status, route, rm, mishaps, up>>
    BY <1>9 DEF DelStep, DelMark, DelList, DelDetach, DelCommit
  <2> QED
    BY <1>1, <1>2, <2>1, <2>2
<1>10. ASSUME NEW h \in Remover \cup Deleter, Victim(h) PROVE Closing'
  <2>1. /\ UNCHANGED <<status, route, up>> /\ h \in Handler
        /\ \A n \in Num : Excused(n) => Excused(n)'
        /\ \A d \in Remover : rm'[d] = IF d = h THEN RmIdle ELSE rm[d]
        /\ RmIdle.pc = "idle"
    BY <1>10 DEF Victim, RmIdle, Handler, Excused
  <2>2. \A n \in Num, d \in Remover \ {h} : routeLock[n] = d => routeLock'[n] = d
    BY <1>10, <2>1, Unlocked DEF Victim
  <2> QED
    BY <1>0, <1>2, <2>1, <2>2 DEF Closing
<1>11. CASE UNCHANGED vars
  BY <1>1, <1>2, <1>11 DEF vars
<1> QED
  BY <1>3, <1>4, <1>5, <1>6, <1>7, <1>8, <1>9, <1>10, <1>11 DEF Next

\* A Released number has no active route, unless an update of its route has been under way
\* since its routes were last closed.
THEOREM RoutesAreClosed == Spec => []RoutedIsLive
<1>1. Init => Typed /\ Held /\ Removing /\ Closing
  BY InitTyped, InitHeld DEF Init, Removing, StuckOnlyAsVictim, Closing, RmIdle
<1>2. Typed /\ Held /\ Removing /\ Closing /\ [Next]_vars
      => Typed' /\ Held' /\ Removing' /\ Closing'
  BY NextTyped, NextRemoving, NextClosing
<1>3. Closing => RoutedIsLive
  BY DEF Closing, RoutedIsLive, Excused
<1> QED
  BY <1>1, <1>2, <1>3, PTL DEF Spec

-----------------------------------------------------------------------------
(* Sources *)

\* Whoever names a deleted source had it before its removal committed, and what that
\* removal has still to detach it knows.
Attached ==
    /\ NoDangling
    /\ \A s \in Source, n \in Num : n \in Attaching(s) => s \in live \/ <<n, s>> \in raced
    /\ \A x \in Deleter : del[x].pc \in {"detach", "commit"} =>
           \A n \in Num : source[n] = del[x].s =>
               n \in del[x].todo \/ rowLock[n] = x \/ n \in del[x].late

\* Nothing is attached and no removal gets further.
LEMMA AttachedStays ==
    ASSUME Typed, Attached, UNCHANGED <<source, live, raced>>,
           \A s \in Source, n \in Num : n \in Attaching(s)' => n \in Attaching(s) \/ s \in live,
           \A x \in Deleter :
               /\ del'[x].pc \in {"detach", "commit"}
                  => del[x].pc \in {"detach", "commit"} /\ del'[x].s = del[x].s
               /\ del'[x].pc \in {"detach", "commit"}
                  => del'[x].todo = del[x].todo /\ del'[x].late = del[x].late
               /\ del'[x].pc \in {"detach", "commit"}
                  => \A n \in Num : rowLock[n] = x => rowLock'[n] = x
    PROVE  Attached'
<1>1. NoDangling'
  BY DEF Attached, NoDangling
<1> QED
  BY <1>1 DEF Attached

\* The row of n gets the source that its writer has found.
LEMMA AttachedGrows ==
    ASSUME Typed, Attached, NEW n \in Num, NEW s \in Source \cup {None},
           UNCHANGED <<live, raced>>, NoteLate(n, s),
           source' = [source EXCEPT ![n] = s],
           s # None => n \in Attaching(s),
           \A t \in Source, m \in Num : m \in Attaching(t)' => m \in Attaching(t),
           \A m \in Num, x \in Deleter : rowLock[m] = x => rowLock'[m] = x
    PROVE  Attached'
<1>0. source \in [Num -> Source \cup {None}]
  BY DEF Typed, TypeOK
<1>1. NoDangling'
  BY <1>0 DEF Attached, NoDangling
<1>2. \A x \in Deleter :
         /\ del'[x].pc = del[x].pc /\ del'[x].s = del[x].s /\ del'[x].todo = del[x].todo
         /\ del[x].late \subseteq del'[x].late
         /\ del[x].s = s /\ del[x].pc \in {"detach", "commit"} => n \in del'[x].late
  BY DelNotes
<1>3. \A x \in Deleter : del'[x].pc \in {"detach", "commit"} =>
         \A m \in Num : source'[m] = del'[x].s =>
             m \in del'[x].todo \/ rowLock'[m] = x \/ m \in del'[x].late
  BY <1>0, <1>2 DEF Attached
<1> QED
  BY <1>1, <1>3 DEF Attached

LEMMA UpAttached ==
    ASSUME Typed, Held, Attached, NEW u \in Updater, UpStep(u)
    PROVE  Attached'
<1> USE DEF rowVars, lockVars, histVars
<1>0. /\ u \in Handler /\ u \notin Deleter /\ None \notin Source /\ Keep \notin Source
      /\ rowLock \in [Num -> Handler \cup {None}] /\ None \notin Handler
      /\ \A x \in Deleter : x \in Handler /\ x # u
  BY DistinctAssumption DEF Handler, Typed, TypeOK
<1>1. /\ \A v \in Updater \ {u} : up'[v] = up[v]
      /\ up[u].pc # "idle" /\ up[u].n \in Num
  BY UpMoved
<1>2. prov' = prov
  BY DEF UpStep, UpLoad, UpRoute, UpFindSource, UpNoSource, UpWrite, UpConflict, UpVictim,
         UpCommit, Retry
\* Only finding a source lets an update attach it.
<1>3. ASSUME NEW s \in Source, NEW n \in Num, n \in Attaching(s)'
      PROVE  n \in Attaching(s) \/ (UpFindSource(u) /\ s \in live)
  <2>1. CASE up'[u].pc \in {"write", "commit"} /\ up'[u].src = s /\ up'[u].n = n
    <3>1. CASE UpLoad(u) \/ UpRoute(u)
      <4>1. up[u].src \in {None, Keep} \/ up[u].src = s
        BY <2>1, <3>1, UpMoved
      <4>2. up'[u].src = up[u].src
        BY <2>1, UpMoved
      <4> QED
        BY <1>0, <2>1, <3>1, <4>2, UpMoved
    <3>2. CASE UpFindSource(u)
      <4>1. up'[u].src = up[u].src
        BY <2>1, UpMoved
      <4> QED
        BY <2>1, <3>2, <4>1 DEF UpFindSource
    <3>3. CASE UpWrite(u)
      <4>1. up'[u].src = up[u].src /\ up'[u].n = up[u].n /\ up[u].pc = "write"
        BY <2>1, <3>3, UpMoved DEF UpWrite
      <4> QED
        BY <2>1, <4>1 DEF Attaching
    <3> QED
      BY <2>1, <3>1, <3>2, <3>3, UpMoved
  <2>2. CASE ~(up'[u].pc \in {"write", "commit"} /\ up'[u].src = s /\ up'[u].n = n)
    BY <1>1, <1>2, <1>3, <2>2 DEF Attaching
  <2> QED
    BY <2>1, <2>2
<1>4. CASE UpCommit(u) /\ rowLock[up[u].n] = u
  <2> DEFINE n == up[u].n
  <2>1. up[u].pc = "commit" /\ up[u].src # Keep /\ ~UpFindSource(u)
    BY <1>1, <1>4 DEF Held, UpCommit, UpFindSource
  <2>2. up[u].src \in Source \cup {None}
    BY <2>1 DEF Typed, TypeOK
  <2>3. up[u].src # None => n \in Attaching(up[u].src)
    BY <1>1, <2>1 DEF Attaching
  <2>4. \A m \in Num, x \in Deleter : rowLock[m] = x => rowLock'[m] = x
    BY <1>0, <1>4, Unlocked DEF UpCommit
  <2>5. /\ UNCHANGED <<live, raced>> /\ NoteLate(n, up[u].src)
        /\ source' = [source EXCEPT ![n] = up[u].src]
    BY <1>4 DEF UpCommit
  <2>6. \A t \in Source, m \in Num : m \in Attaching(t)' => m \in Attaching(t)
    BY <1>3, <2>1
  <2> HIDE DEF n
  <2> QED
    BY <1>1, <2>2, <2>3, <2>4, <2>5, <2>6, AttachedGrows DEF n
<1>5. CASE ~(UpCommit(u) /\ rowLock[up[u].n] = u)
  <2>1. UNCHANGED <<source, live, raced, del>>
    BY <1>5 DEF UpStep, UpLoad, UpRoute, UpFindSource, UpNoSource, UpWrite, UpConflict,
                UpVictim, UpCommit, Retry
  <2>2. \A n \in Num, x \in Deleter : rowLock[n] = x => rowLock'[n] = x
    <3>1. Unlock(u) \/ UpWrite(u) \/ rowLock' = rowLock
      BY DEF UpStep, UpLoad, UpRoute, UpFindSource, UpNoSource, UpConflict, UpVictim, UpCommit,
             Retry
    <3>2. CASE Unlock(u)
      BY <1>0, <3>2, Unlocked
    <3>3. CASE UpWrite(u)
      BY <1>0, <3>3 DEF UpWrite, Free
    <3> QED
      BY <3>1, <3>2, <3>3
  <2> QED
    BY <1>3, <2>1, <2>2, AttachedStays
<1> QED
  BY <1>4, <1>5

LEMMA DelAttached ==
    ASSUME Typed, Attached, NEW x \in Deleter, DelStep(x)
    PROVE  Attached'
<1> USE DEF rowVars, lockVars, histVars
<1>0. /\ x \in Handler /\ None \notin Source /\ None \notin Handler
      /\ rowLock \in [Num -> Handler \cup {None}] /\ source \in [Num -> Source \cup {None}]
      /\ \A y \in Deleter : y \in Handler
      /\ \A y \in Deleter : /\ del[y].pc \in {"detach", "commit"} => del[y].s \in Source
                            /\ del[y].pc = "commit" => del[y].todo = {}
  BY DistinctAssumption DEF Handler, Typed, TypeOK, Busy
<1>1. /\ \A y \in Deleter \ {x} : del'[y] = del[y] /\ del[x].s \in Source
      /\ UNCHANGED <<up, prov>>
  BY DelMoved DEF DelStep, DelMark, DelList, DelDetach, DelCommit
<1>2. \A s \in Source, n \in Num : n \in Attaching(s)' => n \in Attaching(s)
  BY <1>1 DEF Attaching
<1>3. CASE DelMark(x) /\ del'[x].pc = "list"
  <2>1. UNCHANGED <<source, live, raced, rowLock>>
    BY <1>3 DEF DelMark
  <2> QED
    BY <1>1, <1>2, <1>3, <2>1, AttachedStays
<1>4. CASE /\ DelList(x) /\ del'[x].s = del[x].s
           /\ del'[x].todo = {n \in Num : source[n] = del[x].s}
  <2>1. UNCHANGED <<source, live, raced, rowLock>>
    BY <1>4 DEF DelList
  <2>2. NoDangling'
    BY <2>1 DEF Attached, NoDangling
  <2> QED
    BY <1>1, <1>2, <1>4, <2>1, <2>2 DEF Attached
<1>5. CASE /\ DelDetach(x) /\ del'[x].s = del[x].s
           /\ del'[x].todo = del[x].todo \ {del[x].at} /\ del'[x].late = del[x].late
  <2> DEFINE n == del[x].at
  <2>1. UNCHANGED <<source, live, raced>> /\ del[x].pc = "detach" /\ n \in Num
    BY <1>5 DEF DelDetach, Typed, Busy
  <2>2. \A m \in Num, y \in Deleter : rowLock[m] = y => rowLock'[m] = y
    BY <1>0, <1>5 DEF DelDetach, Free
  <2>3. source[n] = del[x].s => rowLock'[n] = x
    BY <1>0, <1>5, <2>1 DEF DelDetach
  <2>4. NoDangling'
    BY <2>1 DEF Attached, NoDangling
  <2> QED
    BY <1>1, <1>2, <1>5, <2>1, <2>2, <2>3, <2>4 DEF Attached
<1>6. CASE DelCommit(x) /\ del'[x].pc = "idle"
  <2> DEFINE s == del[x].s
             mine == {n \in Num : rowLock[n] = x}
  <2>1. /\ del[x].pc = "commit" /\ del[x].todo = {} /\ live' = live \ {s}
        /\ source' = [n \in Num |-> IF n \in mine THEN None ELSE source[n]]
        /\ raced' = {p \in raced : p[2] # s} \cup ((Attaching(s) \cup del[x].late) \X {s})
    BY <1>0, <1>6 DEF DelCommit
  <2>2. \A n \in Num, y \in Deleter \ {x} : rowLock[n] = y => rowLock'[n] = y
    BY <1>0, <1>6, Unlocked DEF DelCommit
  <2>3. \A n \in Num, t \in Source : t # s /\ <<n, t>> \in raced => <<n, t>> \in raced'
    BY <2>1
  <2>4. \A n \in Num : source'[n] = s => n \in del[x].late
    BY <1>0, <1>1, <2>1 DEF Attached
  <2>5. \A n \in Num : n \in Attaching(s) \cup del[x].late => <<n, s>> \in raced'
    BY <2>1
  <2>6. \A n \in Num : source'[n] \in {None, source[n]} /\ source[n] \in Source \cup {None}
    BY <1>0, <2>1
  <2>7. NoDangling'
    BY <2>1, <2>3, <2>4, <2>5, <2>6 DEF Attached, NoDangling
  <2>8. \A t \in Source, n \in Num : n \in Attaching(t)' => t \in live' \/ <<n, t>> \in raced'
    BY <1>2, <2>1, <2>3, <2>5 DEF Attached
  <2>9. \A y \in Deleter : del'[y].pc \in {"detach", "commit"} =>
           \A n \in Num : source'[n] = del'[y].s =>
               n \in del'[y].todo \/ rowLock'[n] = y \/ n \in del'[y].late
    BY <1>0, <1>1, <1>6, <2>2, <2>6 DEF Attached
  <2> QED
    BY <2>7, <2>8, <2>9 DEF Attached
<1> QED
  BY <1>3, <1>4, <1>5, <1>6, DelMoved

LEMMA NextAttached ==
    ASSUME Typed, Held, Attached, [Next]_vars
    PROVE  Attached'
<1> USE DEF rowVars, lockVars, histVars
<1>0. /\ None \notin Source /\ None \notin Handler /\ Remover \cap Deleter = {}
      /\ \A d \in Remover : d \in Handler /\ \A x \in Deleter : x \in Handler
      /\ rowLock \in [Num -> Handler \cup {None}] /\ prov \in [Num -> Source \cup {None}]
  BY DistinctAssumption DEF Handler, Typed, TypeOK
<1>1. ASSUME NEW n \in Num, NEW s \in Source, ProvisionFinds(n, s) PROVE Attached'
  <2>1. \A t \in Source, m \in Num : m \in Attaching(t)' => m \in Attaching(t) \/ t \in live
    BY <1>0, <1>1 DEF ProvisionFinds, Attaching
  <2> QED
    BY <1>1, <2>1, AttachedStays DEF ProvisionFinds
<1>2. ASSUME NEW n \in Num, ProvisionInserts(n) PROVE Attached'
  <2>1. \A t \in Source, m \in Num : m \in Attaching(t)' => m \in Attaching(t)
    BY <1>0, <1>2 DEF ProvisionInserts, Attaching
  <2>2. n \in Attaching(prov[n]) /\ prov[n] \in Source \cup {None}
    BY <1>0 DEF Attaching
  <2>3. /\ UNCHANGED <<live, raced, rowLock>> /\ NoteLate(n, prov[n])
        /\ source' = [source EXCEPT ![n] = prov[n]]
    BY <1>2 DEF ProvisionInserts
  <2> QED
    BY <2>1, <2>2, <2>3, AttachedGrows
<1>3. ASSUME NEW u \in Updater, NEW n \in Num, NEW dto \in Request, UpBegin(u, n, dto)
      PROVE  Attached'
  <2>1. \A t \in Source, m \in Num : m \in Attaching(t)' => m \in Attaching(t)
    BY <1>3, BeginTyped DEF UpBegin, Attaching
  <2> QED
    BY <1>3, <2>1, AttachedStays DEF UpBegin
<1>4. ASSUME NEW u \in Updater, UpStep(u) PROVE Attached'
  BY <1>4, UpAttached
<1>5. ASSUME UNCHANGED <<source, live, raced, del, up, prov>>,
             \A n \in Num, x \in Deleter : rowLock[n] = x => rowLock'[n] = x
      PROVE  Attached'
  <2>1. \A t \in Source, m \in Num : m \in Attaching(t)' => m \in Attaching(t)
    BY <1>5 DEF Attaching
  <2> QED
    BY <1>5, <2>1, AttachedStays
<1>6. ASSUME NEW d \in Remover, NEW n \in Num, RmMark(d, n) PROVE Attached'
  BY <1>5, <1>6 DEF RmMark, SetStatus
<1>7. ASSUME NEW d \in Remover, RmStep(d) PROVE Attached'
  <2>1. \A n \in Num, x \in Deleter : rowLock[n] = x => rowLock'[n] = x
    <3>1. RmCommit(d) \/ RmRow(d) \/ rowLock' = rowLock
      BY <1>7 DEF RmStep, RmRevert, RmBegin, RmRoute
    <3>2. CASE RmCommit(d)
      BY <1>0, <3>2, Unlocked DEF RmCommit
    <3>3. CASE RmRow(d)
      BY <1>0, <3>3 DEF RmRow, Free
    <3> QED
      BY <3>1, <3>2, <3>3
  <2>2. UNCHANGED <<source, live, raced, del, up, prov>>
    BY <1>7 DEF RmStep, RmRevert, RmBegin, RmRow, RmRoute, RmCommit, SetStatus
  <2> QED
    BY <1>5, <2>1, <2>2
<1>8. ASSUME NEW x \in Deleter, NEW s \in Source, DelBegin(x, s) PROVE Attached'
  <2>1. /\ \A t \in Source, m \in Num : m \in Attaching(t)' => m \in Attaching(t)
        /\ UNCHANGED <<source, live, raced, rowLock>>
    BY <1>8 DEF DelBegin, Attaching
  <2>2. \A y \in Deleter : del'[y].pc \in {"detach", "commit"} => del'[y] = del[y]
    BY <1>8, DelBeginTyped
  <2> QED
    BY <2>1, <2>2, AttachedStays
<1>9. ASSUME NEW x \in Deleter, DelStep(x) PROVE Attached'
  BY <1>9, DelAttached
<1>10. ASSUME NEW h \in Remover \cup Deleter, Victim(h) PROVE Attached'
  <2>1. /\ UNCHANGED <<source, live, raced, up, prov>> /\ h \in Handler
        /\ \A x \in Deleter : del'[x] = IF x = h THEN DelIdle ELSE del[x]
        /\ DelIdle.pc = "idle"
    BY <1>10 DEF Victim, DelIdle, Handler
  <2>2. \A n \in Num, x \in Deleter \ {h} : rowLock[n] = x => rowLock'[n] = x
    BY <1>10, <2>1, Unlocked DEF Victim
  <2>3. \A t \in Source, m \in Num : m \in Attaching(t)' => m \in Attaching(t)
    BY <2>1 DEF Attaching
  <2> QED
    BY <2>1, <2>2, <2>3, AttachedStays
<1>11. CASE UNCHANGED vars
  BY <1>5, <1>11 DEF vars
<1> QED
  BY <1>1, <1>2, <1>3, <1>4, <1>6, <1>7, <1>8, <1>9, <1>10, <1>11 DEF Next

\* A number names a deleted source only if it was being attached when the source went.
THEOREM DanglingIsRaced == Spec => []NoDangling
<1>1. Init => Typed /\ Held /\ Attached
  <2>1. Init => Attached
    BY DistinctAssumption DEF Init, Attached, NoDangling, DelIdle
  <2> QED
    BY <2>1, InitTyped, InitHeld
<1>2. Typed /\ Held /\ Attached /\ [Next]_vars => Typed' /\ Held' /\ Attached'
  BY NextTyped, NextAttached
<1>3. Attached => NoDangling
  BY DEF Attached
<1> QED
  BY <1>1, <1>2, <1>3, PTL DEF Spec

=============================================================================
