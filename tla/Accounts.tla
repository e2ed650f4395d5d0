------------------------------ MODULE Accounts ------------------------------
(***************************************************************************)
(* BusinessesService (create, update, remove) and AuthService (login,      *)
(* refresh, logout) on the table of businesses.  Each statement that       *)
(* commits is a step, and every one that writes a row sets updated_at,     *)
(* here a counter of the row's writes: so do the ones that only store the  *)
(* hash of a refresh token.  name stands for businessName; email goes the  *)
(* same way.  The limit of numbers is in NumberInventory.                  *)
(***************************************************************************)
EXTENDS Naturals

CONSTANTS
    Writer,     \* requests to businesses; a create request also names the row it inserts
    Session,    \* requests to auth; a login or refresh also names the token it signs
    Existing,   \* businesses that are there in the beginning, signed in with a token
    Name, NameOf,
    Like,       \* the names that match a name taken as a pattern
    NoName,     \* an update that leaves the name alone
    NoToken,
    MaxRetries

Account == Writer \cup Existing
Token == Session \cup Existing
Request == Writer \cup Session

\* Names that find each other, as those that differ only in case do.  A name with a backslash
\* does not even find itself: the backslash is the escape character of the pattern.
Alike(n, k) == k \in Like[n] /\ n \in Like[k]

ASSUME AccountAssumption ==
    /\ Writer \cap Existing = {} /\ Session \cap Existing = {} /\ Writer \cap Session = {}
    /\ NameOf \in [Existing -> Name]
    /\ \A a, c \in Existing : NameOf[a] = NameOf[c] \/ Alike(NameOf[a], NameOf[c]) => a = c
    /\ NoName \notin Name /\ NoToken \notin Token /\ MaxRetries \in Nat \ {0}

VARIABLES
    row,      \* the table
    job,      \* where each request to businesses is
    visit,    \* where each request to auth is
    answer,   \* what each was told
    together, \* history: pairs of requests that were under way at the same time
    namer,    \* history: the request that named a row last, a row itself if none did
    clashed   \* history: requests that the unique index has refused

history == <<together, namer, clashed>>
vars == <<row, job, visit, answer, history>>

\* hidden: status is Deleted; gone: deleted_at is set too, and finders leave it out.
Row == [state : {"absent", "live", "hidden", "gone"}, name : Name \cup {NoName},
        writes : Nat, hash : Token \cup {NoToken}]

\* seen: updated_at as read.  from: the same at the first attempt.
Job == [pc : {"idle", "insert", "load", "write", "hide", "drop", "ended"},
        id : Account, name : Name \cup {NoName},
        attempt : 1..MaxRetries, seen : Nat, from : Nat]

\* id: the business, the session itself before one is known.  used: the token a refresh
\* presents.
Visit == [pc : {"idle", "store", "ended"}, id : Account \cup Session,
          used : Token \cup {NoToken}]

\* lost: the token was stored and the answer did not arrive.
Answers == {"none", "ok", "lost", "out", "inUse", "notFound", "refused", "conflict", "error"}

TypeOK ==
    /\ row \in [Account -> Row]
    /\ job \in [Writer -> Job]
    /\ visit \in [Session -> Visit]
    /\ answer \in [Request -> Answers]
    /\ together \subseteq SUBSET Request
    /\ namer \in [Account -> Account]
    /\ clashed \subseteq Writer

Init ==
    /\ row = [a \in Account |->
                 [state |-> IF a \in Existing THEN "live" ELSE "absent",
                  name |-> IF a \in Existing THEN NameOf[a] ELSE NoName,
                  writes |-> 0,
                  hash |-> IF a \in Existing THEN a ELSE NoToken]]
    /\ job = [w \in Writer |-> [pc |-> "idle", id |-> w, name |-> NoName,
                                attempt |-> 1, seen |-> 0, from |-> 0]]
    /\ visit = [s \in Session |-> [pc |-> "idle", id |-> s, used |-> NoToken]]
    /\ answer = [r \in Request |-> "none"]
    /\ together = {} /\ namer = [a \in Account |-> a] /\ clashed = {}

-----------------------------------------------------------------------------

Visible(a) == row[a].state \in {"live", "hidden"}

\* ILIKE with the new name, unescaped, as the pattern, over all businesses not gone.
Taken(n) == \E a \in Account : Visible(a) /\ row[a].name \in Like[n]

\* The unique index: the name as it is, gone rows too.
Clash(id, n) == \E a \in Account \ {id} : row[a].state # "absent" /\ row[a].name = n

Underway == {w \in Writer : job[w].pc \notin {"idle", "ended"}}
            \cup {s \in Session : visit[s].pc = "store"}

\* The requests that are under way in the state that is reached have met.
Watch == together' = together \cup {{r, s} : r, s \in Underway'}

Write(a, new) == row' = [row EXCEPT ![a] = [new EXCEPT !.writes = new.writes + 1]]

Goto(w, pc) == job' = [job EXCEPT ![w].pc = pc] /\ UNCHANGED answer
Reply(w, a) ==
    /\ job' = [job EXCEPT ![w].pc = "ended"]
    /\ answer' = [answer EXCEPT ![w] = a]

Begin(w, pc, id, n) ==
    /\ job' = [job EXCEPT ![w].pc = pc, ![w].id = id, ![w].name = n]
    /\ UNCHANGED answer

-----------------------------------------------------------------------------
(* Businesses *)

\* The password is hashed before the row is saved.
Create(w, n) ==
    /\ job[w].pc = "idle"
    /\ IF Taken(n) THEN Reply(w, "inUse") ELSE Begin(w, "insert", w, n)
    /\ UNCHANGED <<row, visit, namer, clashed>> /\ Watch

\* save() is not awaited: the refusal of the index is not handled, an internal error.
Insert(w) ==
    /\ job[w].pc = "insert"
    /\ IF Clash(w, job[w].name)
       THEN Reply(w, "error") /\ UNCHANGED <<row, namer>>
       ELSE /\ Reply(w, "ok")
            /\ Write(w, [row[w] EXCEPT !.state = "live", !.name = job[w].name])
            /\ UNCHANGED namer
    /\ UNCHANGED <<visit, clashed>> /\ Watch

\* Variant: a name that differs in case is not looked for.
BeginUpdateExactly(w, a, n) ==
    /\ job[w].pc = "idle" /\ row[a].state # "absent"
    /\ IF \E c \in Account : Visible(c) /\ row[c].name = n
       THEN Reply(w, "inUse") ELSE Begin(w, "load", a, n)
    /\ UNCHANGED <<row, visit, namer, clashed>> /\ Watch

\* The row that is updated is among those that are looked at.
BeginUpdate(w, a, n) ==
    /\ job[w].pc = "idle" /\ row[a].state # "absent"
    /\ IF n # NoName /\ Taken(n) THEN Reply(w, "inUse") ELSE Begin(w, "load", a, n)
    /\ UNCHANGED <<row, visit, namer, clashed>> /\ Watch

\* Each attempt reads the row again; the new password is hashed after that.
Load(w) ==
    LET q == job[w]
        now == row[q.id].writes IN
    /\ q.pc = "load"
    /\ IF Visible(q.id)
       THEN /\ job' = [job EXCEPT ![w] =
                          [q EXCEPT !.pc = "write", !.seen = now,
                                    !.from = IF q.attempt = 1 THEN now ELSE q.from]]
            /\ UNCHANGED answer
       ELSE Reply(w, "notFound")
    /\ UNCHANGED <<row, visit, namer, clashed>> /\ Watch

\* Variant: a conflict is tried again with the row that was read first.
RetryUnread(w) ==
    IF job[w].attempt < MaxRetries
    THEN /\ job' = [job EXCEPT ![w].pc = "write", ![w].attempt = @ + 1]
         /\ UNCHANGED answer
    ELSE Reply(w, "conflict")

Retry(w) ==
    IF job[w].attempt < MaxRetries
    THEN /\ job' = [job EXCEPT ![w].pc = "load", ![w].attempt = @ + 1]
         /\ UNCHANGED answer
    ELSE Reply(w, "conflict")

\* UPDATE ... WHERE updated_at is as read, and commit.  isRetryablePgError takes a duplicate
\* for a conflict.
Update(w) ==
    LET q == job[w]
        named == IF q.name = NoName THEN row[q.id].name ELSE q.name IN
    /\ q.pc = "write"
    /\ IF row[q.id].writes # q.seen
       THEN Retry(w) /\ UNCHANGED <<row, namer, clashed>>
       ELSE IF Clash(q.id, named)
       THEN Retry(w) /\ clashed' = clashed \cup {w} /\ UNCHANGED <<row, namer>>
       ELSE /\ Reply(w, "ok")
            /\ Write(q.id, [row[q.id] EXCEPT !.name = named])
            /\ namer' = [namer EXCEPT ![q.id] = IF q.name = NoName THEN @ ELSE w]
            /\ UNCHANGED clashed
    /\ UNCHANGED visit /\ Watch

BeginRemove(w, a) ==
    /\ job[w].pc = "idle" /\ row[a].state # "absent"
    /\ IF Visible(a) THEN Begin(w, "hide", a, NoName) ELSE Reply(w, "notFound")
    /\ UNCHANGED <<row, visit, namer, clashed>> /\ Watch

Hide(w) ==
    LET a == job[w].id IN
    /\ job[w].pc = "hide"
    /\ Write(a, [row[a] EXCEPT !.state = IF row[a].state = "live" THEN "hidden"
                                         ELSE row[a].state])
    /\ Goto(w, "drop")
    /\ UNCHANGED <<visit, namer, clashed>> /\ Watch

Drop(w) ==
    LET a == job[w].id IN
    /\ job[w].pc = "drop"
    /\ Write(a, [row[a] EXCEPT !.state = "gone"])
    /\ Reply(w, "ok")
    /\ UNCHANGED <<visit, namer, clashed>> /\ Watch

-----------------------------------------------------------------------------
(* Auth *)

Admit(s, a, t) ==
    /\ visit[s].pc = "idle"
    /\ visit' = [visit EXCEPT ![s] = [pc |-> "store", id |-> a, used |-> t]]
    /\ UNCHANGED answer

Dismiss(s, t, a) ==
    /\ visit[s].pc = "idle"
    /\ visit' = [visit EXCEPT ![s].pc = "ended", ![s].used = t]
    /\ answer' = [answer EXCEPT ![s] = a]

\* validateUser and the signing of the pair; status is not looked at.
Login(s, a) ==
    /\ row[a].state # "absent"
    /\ IF Visible(a) THEN Admit(s, a, NoToken) ELSE Dismiss(s, NoToken, "refused")
    /\ UNCHANGED <<row, job, namer, clashed>> /\ Watch

\* The tokens clients have, and whose they are.
Given == Existing \cup {s \in Session : answer[s] = "ok"}
Subject(t) == IF t \in Existing THEN t ELSE visit[t].id

\* The hash is compared as it was loaded.
Refresh(s, t) ==
    /\ t \in Given
    /\ IF Visible(Subject(t)) /\ row[Subject(t)].hash = t
       THEN Admit(s, Subject(t), t) ELSE Dismiss(s, t, "refused")
    /\ UNCHANGED <<row, job, namer, clashed>> /\ Watch

\* Variant: the hash is stored at the login only.
StoreOnce(s) ==
    LET v == visit[s] IN
    /\ v.pc = "store"
    /\ Write(v.id, [row[v.id] EXCEPT !.hash = IF v.used = NoToken THEN s ELSE row[v.id].hash])
    /\ visit' = [visit EXCEPT ![s].pc = "ended"]
    /\ answer' = [answer EXCEPT ![s] = "ok"]
    /\ UNCHANGED <<job, namer, clashed>> /\ Watch

\* Whatever has become of the row meanwhile; the process may die before the answer.
Store(s) ==
    LET v == visit[s] IN
    /\ v.pc = "store"
    /\ Write(v.id, [row[v.id] EXCEPT !.hash = s])
    /\ visit' = [visit EXCEPT ![s].pc = "ended"]
    /\ \E a \in {"ok", "lost"} : answer' = [answer EXCEPT ![s] = a]
    /\ UNCHANGED <<job, namer, clashed>> /\ Watch

\* The access token is not compared with anything stored.
Logout(s, a) ==
    /\ row[a].state # "absent"
    /\ Write(a, [row[a] EXCEPT !.hash = NoToken])
    /\ Dismiss(s, NoToken, "out")
    /\ UNCHANGED <<job, namer, clashed>> /\ Watch

-----------------------------------------------------------------------------

\* The process dies: a request ends where it is.
Crash(r) ==
    /\ r \in Underway
    /\ \/ r \in Writer /\ job' = [job EXCEPT ![r].pc = "ended"] /\ UNCHANGED visit
       \/ r \in Session /\ visit' = [visit EXCEPT ![r].pc = "ended"] /\ UNCHANGED job
    /\ UNCHANGED <<row, answer, namer, clashed>> /\ Watch

Next ==
    \/ \E w \in Writer :
          \/ \E n \in Name : Create(w, n)
          \/ \E a \in Account, n \in Name \cup {NoName} : BeginUpdate(w, a, n)
          \/ \E a \in Account : BeginRemove(w, a)
          \/ Insert(w) \/ Load(w) \/ Update(w) \/ Hide(w) \/ Drop(w)
    \/ \E s \in Session :
          \/ \E a \in Account : Login(s, a) \/ Logout(s, a)
          \/ \E t \in Token : Refresh(s, t)
          \/ Store(s)
    \/ \E r \in Request : Crash(r)

Spec == Init /\ [][Next]_vars

-----------------------------------------------------------------------------
(* Properties *)

\* No index keeps two businesses from having names that differ only in case; the check
\* does, if the names find each other, which names with a backslash do not, and unless the
\* requests that gave the names were both past it before one had written.
AlikeOnlyIfRaced ==
    \A a, c \in Account :
        a # c /\ Visible(a) /\ Visible(c) /\ Alike(row[a].name, row[c].name)
            => {namer[a], namer[c]} \in together

\* "Please retry" is answered only to an update whose row others (deletions, logins, token
\* refreshes and logouts among them) have written at least as often as it tried, or whose
\* name the index refused.
ConflictMeansContention ==
    \A w \in Writer :
        answer[w] = "conflict" =>
            w \in clashed \/ row[job[w].id].writes >= job[w].from + MaxRetries

\* Two refreshes get new tokens for the same token only if they were under way at the
\* same time; one that was cut off before it stored leaves the token good for another.
TokensWorkOnce ==
    \A s, t \in {v \in Session : answer[v] \in {"ok", "lost"} /\ visit[v].used # NoToken} :
        s # t /\ visit[s].used = visit[t].used => {s, t} \in together

=============================================================================
