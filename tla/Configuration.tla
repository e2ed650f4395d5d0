--------------------------- MODULE Configuration ---------------------------
(***************************************************************************)
(* What a tracking number is configured with: its forwarding route and its *)
(* marketing source.  CallTrackingService.update changes both in one       *)
(* transaction with optimistic locking and retries; the second transaction *)
(* of CallTrackingService.remove closes the row and its routes;            *)
(* MarketingSourcesService.remove deletes a source and detaches its        *)
(* numbers; provision attaches a source it looked up before the purchase.  *)
(*                                                                         *)
(* Postgres (external) runs them at READ COMMITTED: a statement sees what  *)
(* is committed when it starts, a write locks its row until the            *)
(* transaction ends and waits for a row that is locked, and of the         *)
(* transactions that wait for each other one is aborted.  Transactions     *)
(* keep their writes to themselves until they commit.                      *)
(***************************************************************************)
EXTENDS Naturals, FiniteSets

CONSTANTS
    Num,          \* tracking numbers
    Source,       \* marketing sources
    Forward,      \* forwarding numbers
    Request,      \* what clients ask update() for
    Updater,      \* update handlers that may run at once
    Remover,      \* number removals that may run at once
    Deleter,      \* source removals that may run at once
    MAX_RETRIES,
    None,         \* NULL
    NoRoute,      \* there is no active route
    Keep          \* the field is not in the request

Handler == Updater \cup Remover \cup Deleter

ASSUME RequestAssumption ==
    Request \subseteq [fwd : Forward \cup {None, Keep}, src : Source \cup {None, Keep}]
ASSUME RetryAssumption == MAX_RETRIES \in Nat \ {0}
ASSUME DistinctAssumption ==
    /\ Updater \cap Remover = {} /\ Updater \cap Deleter = {} /\ Remover \cap Deleter = {}
    /\ None \notin Handler \cup Num \cup Source \cup Forward
    /\ Keep \notin Source \cup Forward \cup {None} /\ NoRoute \notin Forward \cup {None}

VARIABLES
    status,   \* tracking_numbers.status, "absent" before the insert
    source,   \* tracking_numbers.marketing_source_id
    route,    \* forwarding number of the active route; None is an active route without one
    live,     \* marketing sources that are not deleted
    rowLock,  \* who has locked the row of a number
    routeLock,\* who has locked a number's active route, or inserted it just now
    srcLock,  \* who has locked the row of a source
    prov,     \* the source a provision request has found for the number it buys
    up,       \* where each update is
    rm,       \* where each number removal is
    del,      \* where each source removal is
    outdated, \* updates that no longer find the updated_at they read
    stale,    \* history: updates whose row changed after they read it
    raced,    \* history: number and source of attachments that overlapped a removal
    mishaps   \* history: what went wrong with which number, "rerouted" or "victim"

rowVars == <<status, source, route, live, outdated>>
lockVars == <<rowLock, routeLock, srcLock>>
histVars == <<stale, raced, mishaps>>
vars == <<rowVars, lockVars, prov, up, rm, del, histVars>>

UpIdle == [pc |-> "idle", n |-> None, fwd |-> Keep, src |-> Keep, try |-> 0]
RmIdle == [pc |-> "idle", n |-> None]
DelIdle == [pc |-> "idle", s |-> None, todo |-> {}, at |-> None, late |-> {}]

TypeOK ==
    /\ status \in [Num -> {"absent", "active", "releasing", "released"}]
    /\ source \in [Num -> Source \cup {None}]
    /\ route \in [Num -> Forward \cup {None, NoRoute}]
    /\ live \subseteq Source
    /\ rowLock \in [Num -> Handler \cup {None}]
    /\ routeLock \in [Num -> Handler \cup {None}]
    /\ srcLock \in [Source -> Deleter \cup {None}]
    /\ prov \in [Num -> Source \cup {None}]
    /\ up \in [Updater -> [pc : {"idle", "load", "route", "find", "write", "commit"},
                           n : Num \cup {None}, fwd : Forward \cup {None, Keep},
                           src : Source \cup {None, Keep}, try : 0..MAX_RETRIES]]
    /\ rm \in [Remover -> [pc : {"idle", "twilio", "row", "route", "commit"},
                           n : Num \cup {None}]]
    /\ del \in [Deleter -> [pc : {"idle", "mark", "list", "detach", "commit"},
                            s : Source \cup {None},
                            todo : SUBSET Num, at : Num \cup {None}, late : SUBSET Num]]
    /\ outdated \subseteq Updater /\ stale \subseteq Updater
    /\ raced \subseteq Num \X Source
    /\ mishaps \subseteq {"rerouted", "victim"} \X Num

Init ==
    /\ status = [n \in Num |-> "absent"]
    /\ source = [n \in Num |-> None]
    /\ route = [n \in Num |-> NoRoute]
    /\ live = Source
    /\ rowLock = [n \in Num |-> None]
    /\ routeLock = [n \in Num |-> None]
    /\ srcLock = [s \in Source |-> None]
    /\ prov = [n \in Num |-> None]
    /\ up = [u \in Updater |-> UpIdle]
    /\ rm = [d \in Remover |-> RmIdle]
    /\ del = [x \in Deleter |-> DelIdle]
    /\ outdated = {} /\ stale = {} /\ raced = {} /\ mishaps = {}

-----------------------------------------------------------------------------
(* Postgres (external) *)

Free(lock, h) == lock \in {None, h}

\* What the transaction of h has locked is free again, whether it commits or not.
Unlock(h) ==
    /\ rowLock' = [n \in Num |-> IF rowLock[n] = h THEN None ELSE rowLock[n]]
    /\ routeLock' = [n \in Num |-> IF routeLock[n] = h THEN None ELSE routeLock[n]]
    /\ srcLock' = [s \in Source |-> IF srcLock[s] = h THEN None ELSE srcLock[s]]

\* Whoever holds what h waits for.
Holder(h) ==
    IF h \in Updater THEN
        CASE up[h].pc = "route" -> routeLock[up[h].n]
          [] up[h].pc = "write" -> rowLock[up[h].n]
          [] OTHER -> None
    ELSE IF h \in Remover THEN
        CASE rm[h].pc = "row" -> rowLock[rm[h].n]
          [] rm[h].pc = "route" /\ route[rm[h].n] # NoRoute -> routeLock[rm[h].n]
          [] OTHER -> None
    ELSE
        CASE del[h].pc = "mark" -> srcLock[del[h].s]
          [] del[h].pc = "detach" -> rowLock[del[h].at]
          [] OTHER -> None

\* h waits in a circle.
Deadlocked(h) == \E C \in SUBSET Handler : h \in C /\ {Holder(g) : g \in C} = C

\* Updates that have read row n and not finished.
Readers(n) == {u \in Updater : up[u].n = n /\ up[u].pc \notin {"idle", "load"}}

ReadersOf(N) == UNION {Readers(n) : n \in N}

\* A transaction that commits changed the rows N ...
Changed(N) == stale' = stale \cup ReadersOf(N)

\* ... and set their updated_at to NOW(): update() says so, and TypeORM adds it to a SET
\* that does not.  No two transactions begin in one millisecond.
Stamped(N) == outdated' = outdated \cup ReadersOf(N)

-----------------------------------------------------------------------------
(* Attaching a source: the look-up and the write that relies on it *)

\* Updates and provision requests that have found source s and not committed yet.
Attaching(s) ==
    {n \in Num : \/ prov[n] = s
                 \/ \E u \in Updater :
                        up[u].n = n /\ up[u].src = s /\ up[u].pc \in {"write", "commit"}}

\* A committed attachment is noted by the removals of s that have listed their numbers.
NoteLate(n, s) ==
    del' = [x \in Deleter |->
               IF del[x].s = s /\ del[x].pc \in {"detach", "commit"}
               THEN [del[x] EXCEPT !.late = @ \cup {n}] ELSE del[x]]

\* provision: the source is looked up before the number is bought ...
ProvisionFinds(n, s) ==
    /\ status[n] = "absent" /\ prov[n] = None
    /\ s \in live
    /\ prov' = [prov EXCEPT ![n] = s]
    /\ UNCHANGED <<rowVars, lockVars, up, rm, del, histVars>>

\* ... and written into the new row after it, with a route if the request has one.
ProvisionInserts(n) ==
    /\ status[n] = "absent"
    /\ status' = [status EXCEPT ![n] = "active"]
    /\ source' = [source EXCEPT ![n] = prov[n]]
    /\ \E f \in Forward \cup {NoRoute} : route' = [route EXCEPT ![n] = f]
    /\ NoteLate(n, prov[n])
    /\ prov' = [prov EXCEPT ![n] = None]
    /\ UNCHANGED <<live, outdated, lockVars, up, rm, histVars>>

-----------------------------------------------------------------------------
(* CallTrackingService.update *)

\* A removal has closed the routes of n: since then, or about to be, n is Released.
Closed(n) ==
    status[n] = "released" \/ \E d \in Remover : rm[d].n = n /\ rm[d].pc = "commit"

\* A client asks for a change of a number, whatever its status: nothing looks at that.
UpBegin(u, n, dto) ==
    /\ up[u].pc = "idle"
    /\ status[n] # "absent"
    /\ dto.fwd # Keep \/ dto.src # Keep
    /\ up' = [up EXCEPT ![u] = [pc |-> "load", n |-> n, fwd |-> dto.fwd, src |-> dto.src,
                                try |-> 1]]
    /\ mishaps' = IF dto.fwd # Keep /\ Closed(n) THEN mishaps \cup {<<"rerouted", n>>}
                  ELSE mishaps
    /\ UNCHANGED <<rowVars, lockVars, prov, rm, del, stale, raced>>

AfterRoute(u) ==
    CASE up[u].src = Keep -> "commit" [] up[u].src = None -> "write" [] OTHER -> "find"

\* The transaction begins and reads the row; its updated_at is kept for later.
UpLoad(u) ==
    /\ up[u].pc = "load"
    /\ up' = [up EXCEPT ![u].pc = IF up[u].fwd = Keep THEN AfterRoute(u) ELSE "route"]
    /\ UNCHANGED <<rowVars, lockVars, prov, rm, del, histVars>>

\* Lock the active route and write its number, or insert one (whoever inserts at the same
\* time waits for the other and updates).  A NULL number for no route changes nothing.
UpRoute(u) ==
    LET n == up[u].n IN
    /\ up[u].pc = "route"
    /\ Free(routeLock[n], u)
    /\ routeLock' = IF route[n] = NoRoute /\ up[u].fwd = None THEN routeLock
                    ELSE [routeLock EXCEPT ![n] = u]
    /\ up' = [up EXCEPT ![u].pc = AfterRoute(u)]
    /\ UNCHANGED <<rowVars, rowLock, srcLock, prov, rm, del, histVars>>

\* The source exists: its removal, if any, has not committed.
UpFindSource(u) ==
    /\ up[u].pc = "find"
    /\ up[u].src \in live
    /\ up' = [up EXCEPT ![u].pc = "write"]
    /\ UNCHANGED <<rowVars, lockVars, prov, rm, del, histVars>>

\* What u has read is no longer needed.
Forget(u) == stale' = stale \ {u} /\ outdated' = outdated \ {u}

\* NotFound: rolled back, not tried again.
UpNoSource(u) ==
    /\ up[u].pc = "find"
    /\ up[u].src \notin live
    /\ up' = [up EXCEPT ![u] = UpIdle]
    /\ Unlock(u) /\ Forget(u)
    /\ UNCHANGED <<status, source, route, live, prov, rm, del, raced, mishaps>>

\* UPDATE ... WHERE updated_at = what was read, once the row is free.
UpWrite(u) ==
    LET n == up[u].n IN
    /\ up[u].pc = "write"
    /\ Free(rowLock[n], u)
    /\ u \notin outdated
    /\ rowLock' = [rowLock EXCEPT ![n] = u]
    /\ up' = [up EXCEPT ![u].pc = "commit"]
    /\ UNCHANGED <<rowVars, routeLock, srcLock, prov, rm, del, histVars>>

\* Variant: one time too many.
RetryOnceMore(u) ==
    /\ Unlock(u)
    /\ up' = [up EXCEPT ![u] =
                 IF @.try <= MAX_RETRIES
                 THEN [@ EXCEPT !.pc = "load", !.try = up[u].try + 1]
                 ELSE UpIdle]
    /\ Forget(u)
    /\ UNCHANGED <<status, source, route, live, prov, rm, del, raced, mishaps>>

\* Roll back and try again from the start, up to MAX_RETRIES times in all.
Retry(u) ==
    /\ Unlock(u)
    /\ up' = [up EXCEPT ![u] =
                 IF @.try < MAX_RETRIES
                 THEN [@ EXCEPT !.pc = "load", !.try = up[u].try + 1]
                 ELSE UpIdle]
    /\ Forget(u)
    /\ UNCHANGED <<status, source, route, live, prov, rm, del, raced, mishaps>>

\* No row has that updated_at any more: ConflictException.
UpConflict(u) ==
    /\ up[u].pc = "write"
    /\ Free(rowLock[up[u].n], u)
    /\ u \in outdated
    /\ Retry(u)

\* 40P01, which isRetryablePgError() knows.
UpVictim(u) == Deadlocked(u) /\ Retry(u)

UpCommit(u) ==
    LET n == up[u].n
        wrote == rowLock[n] = u IN
    /\ up[u].pc = "commit"
    /\ route' = IF routeLock[n] = u THEN [route EXCEPT ![n] = up[u].fwd] ELSE route
    /\ source' = IF wrote THEN [source EXCEPT ![n] = up[u].src] ELSE source
    /\ IF wrote THEN NoteLate(n, up[u].src) ELSE UNCHANGED del
    /\ up' = [up EXCEPT ![u] = UpIdle]
    /\ Unlock(u)
    /\ LET readers == IF wrote THEN Readers(n) ELSE {} IN
        /\ stale' = (stale \cup readers) \ {u}
        /\ outdated' = (outdated \cup readers) \ {u}
    /\ UNCHANGED <<status, live, prov, rm, raced, mishaps>>

UpStep(u) ==
    \/ UpLoad(u) \/ UpRoute(u) \/ UpFindSource(u) \/ UpNoSource(u)
    \/ UpWrite(u) \/ UpConflict(u) \/ UpVictim(u) \/ UpCommit(u)

-----------------------------------------------------------------------------
(* CallTrackingService.remove, as far as rows and routes go *)

\* A statement on the row of n alone, committed at once.
SetStatus(n, value) ==
    /\ rowLock[n] = None
    /\ status' = [status EXCEPT ![n] = value]
    /\ Changed({n}) /\ Stamped({n})

\* First transaction.  A row that is Released already is as good as one that is Active.
RmMark(d, n) ==
    /\ rm[d].pc = "idle"
    /\ status[n] \in {"active", "released"}
    /\ SetStatus(n, "releasing")
    /\ rm' = [rm EXCEPT ![d] = [pc |-> "twilio", n |-> n]]
    /\ UNCHANGED <<source, route, live, lockVars, prov, up, del, raced, mishaps>>

\* Second transaction when Twilio failed.
RmRevert(d) ==
    /\ rm[d].pc = "twilio"
    /\ SetStatus(rm[d].n, "active")
    /\ rm' = [rm EXCEPT ![d] = RmIdle]
    /\ UNCHANGED <<source, route, live, lockVars, prov, up, del, raced, mishaps>>

\* Second transaction when the number is gone: the row first ...
RmBegin(d) ==
    /\ rm[d].pc = "twilio"
    /\ rm' = [rm EXCEPT ![d].pc = "row"]
    /\ UNCHANGED <<rowVars, lockVars, prov, up, del, histVars>>

\* Variant: a row that is locked is an error (NOWAIT).
RmRowNoWait(d) ==
    LET n == rm[d].n
        got == Free(rowLock[n], d) IN
    /\ rm[d].pc = "row"
    /\ rowLock' = IF got THEN [rowLock EXCEPT ![n] = d] ELSE rowLock
    /\ rm' = [rm EXCEPT ![d] = IF got THEN [@ EXCEPT !.pc = "route"] ELSE RmIdle]
    /\ UNCHANGED <<rowVars, routeLock, srcLock, prov, up, del, histVars>>

\* (Where it clears twilio_phone_sid it changes a key, and it and an update that inserts a
\* route wait for each other too.  The model lets both go on, which adds orders and hides no
\* deadlock: the removal waits before it holds anything, and once it has the row it does not
\* wait for a route that is still being inserted.)
RmRow(d) ==
    LET n == rm[d].n IN
    /\ rm[d].pc = "row"
    /\ Free(rowLock[n], d)
    /\ rowLock' = [rowLock EXCEPT ![n] = d]
    /\ rm' = [rm EXCEPT ![d].pc = "route"]
    /\ UNCHANGED <<rowVars, routeLock, srcLock, prov, up, del, histVars>>

\* Variant: the routes are left to the row they belong to.
RmRouteStays(d) ==
    /\ rm[d].pc = "route"
    /\ rm' = [rm EXCEPT ![d].pc = "commit"]
    /\ UNCHANGED <<rowVars, lockVars, prov, up, del, histVars>>

\* ... then its active routes: the one that is committed, if somebody else has locked it
\* after a wait; one that is just being inserted is not seen.
RmRoute(d) ==
    LET n == rm[d].n IN
    /\ rm[d].pc = "route"
    /\ \/ route[n] = NoRoute /\ UNCHANGED routeLock
       \/ /\ route[n] # NoRoute /\ Free(routeLock[n], d)
          /\ routeLock' = [routeLock EXCEPT ![n] = d]
    /\ rm' = [rm EXCEPT ![d].pc = "commit"]
    /\ mishaps' = IF \E u \in Updater : up[u].n = n /\ up[u].fwd # Keep
                  THEN mishaps \cup {<<"rerouted", n>>} ELSE mishaps \ {<<"rerouted", n>>}
    /\ UNCHANGED <<rowVars, rowLock, srcLock, prov, up, del, stale, raced>>

RmCommit(d) ==
    LET n == rm[d].n IN
    /\ rm[d].pc = "commit"
    /\ status' = [status EXCEPT ![n] = "released"]
    /\ route' = IF routeLock[n] = d THEN [route EXCEPT ![n] = NoRoute] ELSE route
    /\ rm' = [rm EXCEPT ![d] = RmIdle]
    /\ Unlock(d)
    /\ Changed({n}) /\ Stamped({n})
    /\ UNCHANGED <<source, live, prov, up, del, raced, mishaps>>

RmStep(d) ==
    \/ RmRevert(d) \/ RmBegin(d) \/ RmRow(d) \/ RmRoute(d) \/ RmCommit(d)

-----------------------------------------------------------------------------
(* MarketingSourcesService.remove *)

DelBegin(x, s) ==
    /\ del[x].pc = "idle"
    /\ del' = [del EXCEPT ![x] = [DelIdle EXCEPT !.pc = "mark", !.s = s]]
    /\ UNCHANGED <<rowVars, lockVars, prov, up, rm, histVars>>

\* Mark it deleted, or find that it is, which changes nothing but goes on the same way.
DelMark(x) ==
    LET s == del[x].s IN
    /\ del[x].pc = "mark"
    /\ Free(srcLock[s], x)
    /\ srcLock' = IF s \in live THEN [srcLock EXCEPT ![s] = x] ELSE srcLock
    /\ del' = [del EXCEPT ![x].pc = "list"]
    /\ UNCHANGED <<rowVars, rowLock, routeLock, prov, up, rm, histVars>>

\* The next number to detach, in no particular order.
DetachNext(x, todo) ==
    \/ /\ todo = {}
       /\ del' = [del EXCEPT ![x] = [@ EXCEPT !.pc = "commit", !.todo = {}, !.at = None]]
    \/ \E n \in todo :
           del' = [del EXCEPT ![x] = [@ EXCEPT !.pc = "detach", !.todo = todo, !.at = n]]

\* One UPDATE detaches the numbers that name the source when it starts ...
DelList(x) ==
    /\ del[x].pc = "list"
    /\ DetachNext(x, {n \in Num : source[n] = del[x].s})
    /\ UNCHANGED <<rowVars, lockVars, prov, up, rm, histVars>>

\* Variant: rows that are locked are passed over (SKIP LOCKED).
DelDetachSkipsLocked(x) ==
    LET n == del[x].at IN
    /\ del[x].pc = "detach"
    /\ rowLock' = IF source[n] = del[x].s /\ Free(rowLock[n], x)
                  THEN [rowLock EXCEPT ![n] = x] ELSE rowLock
    /\ DetachNext(x, del[x].todo \ {n})
    /\ UNCHANGED <<rowVars, routeLock, srcLock, prov, up, rm, histVars>>

\* ... row by row, waiting for a row that is locked and looking at it again then.
DelDetach(x) ==
    LET n == del[x].at IN
    /\ del[x].pc = "detach"
    /\ Free(rowLock[n], x)
    /\ rowLock' = IF source[n] = del[x].s THEN [rowLock EXCEPT ![n] = x] ELSE rowLock
    /\ DetachNext(x, del[x].todo \ {n})
    /\ UNCHANGED <<rowVars, routeLock, srcLock, prov, up, rm, histVars>>

\* Variant: the rows are detached by hand-written SQL that leaves updated_at alone.
DelCommitUnstamped(x) ==
    LET s == del[x].s
        mine == {n \in Num : rowLock[n] = x} IN
    /\ del[x].pc = "commit"
    /\ live' = live \ {s}
    /\ source' = [n \in Num |-> IF n \in mine THEN None ELSE source[n]]
    /\ del' = [del EXCEPT ![x] = DelIdle]
    /\ Unlock(x)
    /\ Changed(mine) /\ UNCHANGED outdated
    /\ raced' = {p \in raced : p[2] # s} \cup ((Attaching(s) \cup del[x].late) \X {s})
    /\ UNCHANGED <<status, route, prov, up, rm, mishaps>>

DelCommit(x) ==
    LET s == del[x].s
        mine == {n \in Num : rowLock[n] = x} IN
    /\ del[x].pc = "commit"
    /\ live' = live \ {s}
    /\ source' = [n \in Num |-> IF n \in mine THEN None ELSE source[n]]
    /\ del' = [del EXCEPT ![x] = DelIdle]
    /\ Unlock(x)
    /\ Changed(mine) /\ Stamped(mine)
    /\ raced' = {p \in raced : p[2] # s} \cup ((Attaching(s) \cup del[x].late) \X {s})
    /\ UNCHANGED <<status, route, prov, up, rm, mishaps>>

DelStep(x) == DelMark(x) \/ DelList(x) \/ DelDetach(x) \/ DelCommit(x)

\* A removal that Postgres aborts: the request fails, nothing tries again.
Victim(h) ==
    /\ Deadlocked(h)
    /\ rm' = [d \in Remover |-> IF d = h THEN RmIdle ELSE rm[d]]
    /\ del' = [x \in Deleter |-> IF x = h THEN DelIdle ELSE del[x]]
    /\ Unlock(h)
    /\ mishaps' = mishaps \cup {<<"victim", rm[d].n>> : d \in {h} \cap Remover}
    /\ UNCHANGED <<rowVars, prov, up, stale, raced>>

-----------------------------------------------------------------------------

Next ==
    \/ \E n \in Num : ProvisionInserts(n) \/ \E s \in Source : ProvisionFinds(n, s)
    \/ \E u \in Updater, n \in Num, dto \in Request : UpBegin(u, n, dto)
    \/ \E u \in Updater : UpStep(u)
    \/ \E d \in Remover, n \in Num : RmMark(d, n)
    \/ \E d \in Remover : RmStep(d)
    \/ \E x \in Deleter, s \in Source : DelBegin(x, s)
    \/ \E x \in Deleter : DelStep(x)
    \/ \E h \in Remover \cup Deleter : Victim(h)

Spec == Init /\ [][Next]_vars

-----------------------------------------------------------------------------
(* Properties *)

\* Optimistic locking works against every writer of the row, the removals included: an
\* update that writes the row writes over what it read.
WritesWhatItRead ==
    \A u \in Updater : up[u].pc = "commit" /\ rowLock[up[u].n] = u => u \notin stale

\* A Released number has an active route only if, since its routes were last closed, an
\* update of its route has been under way: one that overlapped the closing, or one that came
\* after it (update() does not look at the status of the row).  The routes that were given
\* before are closed, those included that an update had locked when the removal came.
RoutedIsLive ==
    \A n \in Num :
        status[n] = "released" /\ route[n] # NoRoute => <<"rerouted", n>> \in mishaps

\* A number names a deleted source only if an update or a provision request had found
\* that source before its removal committed; removing the source again clears it.
NoDangling ==
    \A n \in Num : source[n] # None /\ source[n] \notin live => <<n, source[n]>> \in raced

\* A row stays Releasing, with nothing that works on it, only if its removal was picked to
\* break a deadlock with an update of both fields: waiting for locks alone never does it.
StuckOnlyAsVictim ==
    \A n \in Num :
        status[n] = "releasing" =>
            <<"victim", n>> \in mishaps \/ \E d \in Remover : rm[d].n = n

=============================================================================
