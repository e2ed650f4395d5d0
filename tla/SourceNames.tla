----------------------------- MODULE SourceNames -----------------------------
(***************************************************************************)
(* MarketingSourcesService: create, update and remove of sources, as far   *)
(* as their names, their deletion and the optimistic locking of update go. *)
(* What update and remove share with tracking numbers is in Configuration. *)
(* Each statement that commits is a step; updated_at is a counter of the   *)
(* writes of a row, all of which set it.                                   *)
(***************************************************************************)
EXTENDS Naturals

CONSTANTS
    Request,    \* requests of clients; a create request also names the row it inserts
    Business,
    Name,
    Existing,   \* sources that are there in the beginning ...
    OwnerOf,    \* ... and their business
    NameOf,     \* ... and name
    NoName,     \* an update that leaves the name alone
    MaxRetries

Source == Request \cup Existing

ASSUME NameAssumption ==
    /\ Request \cap Existing = {} /\ Business # {} /\ Name # {}
    /\ OwnerOf \in [Existing -> Business] /\ NameOf \in [Existing -> Name]
    /\ \A s, t \in Existing : NameOf[s] = NameOf[t] => s = t
    /\ NoName \notin Name /\ MaxRetries \in Nat \ {0}

VARIABLES
    row,     \* the table
    req,     \* where each request is
    answer,  \* what it was told
    met      \* history: while it ran, another row had the name it asks for

vars == <<row, req, answer, met>>

Row == [state : {"absent", "live", "deleted"}, biz : Business, name : Name, writes : Nat]
Absent == [state |-> "absent", biz |-> CHOOSE b \in Business : TRUE,
           name |-> CHOOSE n \in Name : TRUE, writes |-> 0]

\* id: the row it is about.  seen: updated_at as read.
Job == [pc : {"idle", "insert", "guard", "load", "write", "reread", "ended"},
        biz : Business, id : Source, name : Name \cup {NoName},
        attempt : 1..MaxRetries, seen : Nat]

Answers == {"none", "ok", "inUse", "notFound", "forbidden", "conflict", "error"}

TypeOK ==
    /\ row \in [Source -> Row]
    /\ req \in [Request -> Job]
    /\ answer \in [Request -> Answers]
    /\ met \in [Request -> BOOLEAN]

IdleJob(r) == [pc |-> "idle", biz |-> CHOOSE b \in Business : TRUE, id |-> r,
               name |-> NoName, attempt |-> 1, seen |-> 0]

Init ==
    /\ row = [s \in Source |->
                 IF s \in Existing
                 THEN [state |-> "live", biz |-> OwnerOf[s], name |-> NameOf[s], writes |-> 0]
                 ELSE Absent]
    /\ req = [r \in Request |-> IdleJob(r)]
    /\ answer = [r \in Request |-> "none"]
    /\ met = [r \in Request |-> FALSE]

-----------------------------------------------------------------------------

\* The index on name spans all rows: those of other businesses and deleted ones too.
Clash(id, n) == \E s \in Source \ {id} : row[s].state # "absent" /\ row[s].name = n

\* Whether a request that runs has a rival for its name, in the state that is reached.
Watch ==
    met' = [r \in Request |->
               met[r] \/ /\ req[r].pc # "ended" /\ req'[r].pc # "idle"
                         /\ \E s \in Source \ {req'[r].id} :
                                row'[s].state # "absent" /\ row'[s].name = req'[r].name]

Goto(r, pc) == req' = [req EXCEPT ![r].pc = pc] /\ UNCHANGED answer
Reply(r, a) ==
    /\ req' = [req EXCEPT ![r].pc = "ended"]
    /\ answer' = [answer EXCEPT ![r] = a]

Begin(r, pc, b, id, n) ==
    /\ req[r].pc = "idle"
    /\ req' = [req EXCEPT ![r] = [@ EXCEPT !.pc = pc, !.biz = b, !.id = id, !.name = n]]
    /\ UNCHANGED answer

-----------------------------------------------------------------------------
(* create *)

\* exists() leaves deleted rows out, and is not limited to the business.
Create(r, b, n) ==
    /\ IF \E s \in Source : row[s].state = "live" /\ row[s].name = n
       THEN /\ req[r].pc = "idle"
            /\ req' = [req EXCEPT ![r] = [@ EXCEPT !.pc = "ended", !.biz = b, !.name = n]]
            /\ answer' = [answer EXCEPT ![r] = "inUse"]
       ELSE Begin(r, "insert", b, r, n)
    /\ UNCHANGED row /\ Watch

\* The promise of save() is returned, not awaited: if the index refuses the row, the catch
\* block is passed by and the answer is an internal error.
Insert(r) ==
    /\ req[r].pc = "insert"
    /\ IF Clash(r, req[r].name)
       THEN Reply(r, "error") /\ UNCHANGED row
       ELSE /\ Reply(r, "ok")
            /\ row' = [row EXCEPT ![r] = [state |-> "live", biz |-> req[r].biz,
                                          name |-> req[r].name, writes |-> 1]]
    /\ Watch

-----------------------------------------------------------------------------
(* update *)

BeginUpdate(r, b, s, n) ==
    /\ row[s].state # "absent"
    /\ Begin(r, IF n = NoName THEN "load" ELSE "guard", b, s, n)
    /\ UNCHANGED row /\ Watch

\* Variant: the source itself is not excepted.
GuardAnyRow(r) ==
    /\ req[r].pc = "guard"
    /\ IF \E s \in Source : /\ row[s].state = "live" /\ row[s].biz = req[r].biz
                            /\ row[s].name = req[r].name
       THEN Reply(r, "inUse") ELSE Goto(r, "load")
    /\ UNCHANGED row /\ Watch

\* Another live source of this business has the name.
Guard(r) ==
    /\ req[r].pc = "guard"
    /\ IF \E s \in Source \ {req[r].id} :
              /\ row[s].state = "live" /\ row[s].biz = req[r].biz
              /\ row[s].name = req[r].name
       THEN Reply(r, "inUse") ELSE Goto(r, "load")
    /\ UNCHANGED row /\ Watch

\* Each attempt reads the row again.
Load(r) ==
    LET q == req[r]
        s == row[q.id] IN
    /\ q.pc = "load"
    /\ CASE s.state # "live" -> Reply(r, "notFound")
         [] s.state = "live" /\ s.biz # q.biz -> Reply(r, "forbidden")
         [] OTHER ->
              /\ req' = [req EXCEPT ![r] = [@ EXCEPT !.pc = "write", !.seen = s.writes]]
              /\ UNCHANGED answer
    /\ UNCHANGED row /\ Watch

Retry(r) ==
    IF req[r].attempt < MaxRetries
    THEN /\ req' = [req EXCEPT ![r] = [@ EXCEPT !.pc = "load",
                                               !.attempt = req[r].attempt + 1]]
         /\ UNCHANGED answer
    ELSE Reply(r, "conflict")

\* UPDATE ... WHERE updated_at is as read, and commit.  A duplicate is answered at once,
\* though it counts as retryable.
Write(r) ==
    LET q == req[r] IN
    /\ q.pc = "write"
    /\ \/ row[q.id].writes # q.seen /\ Retry(r) /\ UNCHANGED row
       \/ /\ row[q.id].writes = q.seen /\ q.name # NoName /\ Clash(q.id, q.name)
          /\ Reply(r, "inUse") /\ UNCHANGED row
       \/ /\ row[q.id].writes = q.seen /\ ~Clash(q.id, q.name)
          /\ row' = [row EXCEPT ![q.id] =
                        [@ EXCEPT !.name = IF q.name = NoName THEN row[q.id].name ELSE q.name,
                                  !.writes = row[q.id].writes + 1]]
          /\ Goto(r, "reread")
    /\ Watch

\* The answer shows the row of that moment, or none.
Reread(r) ==
    /\ req[r].pc = "reread"
    /\ Reply(r, "ok")
    /\ UNCHANGED row /\ Watch

-----------------------------------------------------------------------------
(* remove *)

\* Variant: a source is deleted without a new updated_at.
RemoveUnstamped(r, b, s) ==
    /\ req[r].pc = "idle" /\ row[s].state = "live" /\ row[s].biz = b
    /\ row' = [row EXCEPT ![s].state = "deleted"]
    /\ Reply(r, "ok")
    /\ Watch

\* One transaction; removing again is a success.  TypeORM adds updated_at to the UPDATE.
Remove(r, b, s) ==
    /\ req[r].pc = "idle" /\ row[s].state # "absent"
    /\ IF row[s].biz # b
       THEN Reply(r, "forbidden") /\ UNCHANGED row
       ELSE /\ Reply(r, "ok")
            /\ row' = IF row[s].state = "deleted" THEN row
                      ELSE [row EXCEPT ![s] = [@ EXCEPT !.state = "deleted",
                                                        !.writes = row[s].writes + 1]]
    /\ Watch

Next == \E r \in Request :
    \/ \E b \in Business, n \in Name : Create(r, b, n)
    \/ Insert(r)
    \/ \E b \in Business, s \in Source, n \in Name \cup {NoName} : BeginUpdate(r, b, s, n)
    \/ Guard(r) \/ Load(r) \/ Write(r) \/ Reread(r)
    \/ \E b \in Business, s \in Source : Remove(r, b, s)

Spec == Init /\ [][Next]_vars

-----------------------------------------------------------------------------
(* Properties *)

\* "Already in use" and the internal error of create are only ever answered to a request
\* that met another row with the name it asked for, live or deleted, of whatever business:
\* a source can always be saved under the name it has.
RefusedForACause ==
    \A r \in Request : answer[r] \in {"inUse", "error"} => met[r]

\* A deleted source is never changed again, whatever updates were under way: update() does
\* not look at the status when it writes, so this rests on remove() setting updated_at.
DeletedStays ==
    [][\A s \in Source : row[s].state = "deleted" => row'[s] = row[s]]_vars

=============================================================================
