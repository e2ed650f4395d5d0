-------------------------- MODULE SourceNamesProofs --------------------------
(***************************************************************************)
(* Theorems about SourceNames for any number of requests, businesses,      *)
(* names, sources and retries.                                             *)
(***************************************************************************)
EXTENDS SourceNames, TLAPS

-----------------------------------------------------------------------------
(* Types *)

\* A row that was not inserted belongs to a request that has not come so far.
Vacant ==
    \A r \in Request :
        req[r].pc \in {"idle", "insert"} =>
            /\ req[r].id = r /\ row[r].state = "absent"
            /\ req[r].pc = "insert" => req[r].name \in Name

LEMMA InitTyped == Init => TypeOK /\ Vacant
<1> SUFFICES ASSUME Init PROVE TypeOK /\ Vacant
  OBVIOUS
<1>1. Absent \in Row
  BY NameAssumption DEF Absent, Row
<1>2. \A r \in Request : IdleJob(r) \in Job
  BY NameAssumption DEF IdleJob, Job, Source
<1>3. \A s \in Existing :
        [state |-> "live", biz |-> OwnerOf[s], name |-> NameOf[s], writes |-> 0] \in Row
  BY NameAssumption DEF Row
<1>4. TypeOK
  BY <1>1, <1>2, <1>3 DEF Init, TypeOK, Answers
<1>5. Vacant
  BY NameAssumption DEF Init, Vacant, IdleJob, Absent, Source
<1> QED
  BY <1>4, <1>5

\* The history variable.
LEMMA WatchTyped == TypeOK /\ Watch => met' \in [Request -> BOOLEAN]
  BY DEF TypeOK, Watch

\* The two ways on that leave the rest of a job alone.
LEMMA GotoReply ==
    ASSUME TypeOK, NEW r \in Request,
           \/ \E pc \in {"load", "reread"} : Goto(r, pc)
           \/ \E a \in Answers : Reply(r, a)
    PROVE  /\ req' \in [Request -> Job] /\ answer' \in [Request -> Answers]
           /\ \A q \in Request \ {r} : req'[q] = req[q] /\ answer'[q] = answer[q]
           /\ req'[r].pc \in {"load", "reread", "ended"}
           /\ req'[r].id = req[r].id /\ req'[r].name = req[r].name
<1>0. req[r] \in Job
  BY DEF TypeOK
<1>1. \A pc \in {"load", "reread", "ended"} : [req[r] EXCEPT !.pc = pc] \in Job
  BY <1>0 DEF Job
<1>2. PICK pc \in {"load", "reread", "ended"} : req' = [req EXCEPT ![r].pc = pc]
  BY DEF Goto, Reply
<1>3. answer' \in [Request -> Answers]
      /\ \A q \in Request \ {r} : answer'[q] = answer[q]
  BY DEF Goto, Reply, TypeOK
<1>4. req'[r] = [req[r] EXCEPT !.pc = pc]
  BY <1>2 DEF TypeOK
<1>5. req' \in [Request -> Job] /\ \A q \in Request \ {r} : req'[q] = req[q]
  BY <1>1, <1>2 DEF TypeOK
<1>6. /\ req'[r].pc = pc
      /\ req'[r].id = req[r].id /\ req'[r].name = req[r].name
  BY <1>0, <1>4 DEF Job
<1> QED
  BY <1>3, <1>5, <1>6

-----------------------------------------------------------------------------
(* What one step of a request does *)

\* A source that a request has read is there, and if it was deleted since, its updated_at
\* is no longer what was read.
Fenced ==
    \A r \in Request :
        req[r].pc = "write" =>
            LET s == row[req[r].id] IN
            /\ s.state \in {"live", "deleted"}
            /\ req[r].seen <= s.writes
            /\ s.state = "deleted" => req[r].seen < s.writes

Sound == TypeOK /\ Vacant /\ Fenced

\* A row stays as it is, is inserted by its request, or is live and written once more.
RowMove(r, s) ==
    \/ row'[s] = row[s]
    \/ s = r /\ row[s].state = "absent" /\ row'[s].state = "live"
    \/ /\ row[s].state = "live" /\ row'[s].state \in {"live", "deleted"}
       /\ row'[s].writes = row[s].writes + 1

RivalOf(r) == \E s \in Source \ {req'[r].id} :
                  row'[s].state # "absent" /\ row'[s].name = req'[r].name

\* The part of a step that the invariants rest on.
Effect(r) ==
    /\ Watch
    /\ row' \in [Source -> Row] /\ req' \in [Request -> Job]
    /\ answer' \in [Request -> Answers]
    /\ \A q \in Request \ {r} : req'[q] = req[q] /\ answer'[q] = answer[q]
    /\ \A s \in Source : RowMove(r, s)
    /\ req[r].pc # "ended" /\ req'[r].pc # "idle"
    /\ req'[r].pc = "insert" =>
           req'[r].id = r /\ req'[r].name \in Name /\ row'[r].state = "absent"
    /\ req'[r].pc = "write" =>
           LET s == row'[req'[r].id] IN s.state = "live" /\ req'[r].seen = s.writes
    /\ answer'[r] \in {"inUse", "error"} => answer'[r] = answer[r] \/ RivalOf(r)

LEMMA BeginEffect ==
    ASSUME Sound, NEW r \in Request, NEW pc \in {"insert", "guard", "load"},
           NEW b \in Business, NEW s \in Source, NEW n \in Name \cup {NoName},
           Begin(r, pc, b, s, n), UNCHANGED row, Watch,
           pc = "insert" => s = r /\ n \in Name
    PROVE  Effect(r)
<1>0. req[r] \in Job
  BY DEF Sound, TypeOK
<1>1. [req[r] EXCEPT !.pc = pc, !.biz = b, !.id = s, !.name = n] \in Job
  BY <1>0 DEF Job
<1>2. req'[r] = [req[r] EXCEPT !.pc = pc, !.biz = b, !.id = s, !.name = n]
  BY DEF Begin, Sound, TypeOK
<1>3. req'[r].pc = pc /\ req'[r].id = s /\ req'[r].name = n
  BY <1>0, <1>2 DEF Job
<1>4. req' \in [Request -> Job] /\ \A q \in Request \ {r} : req'[q] = req[q]
  BY <1>1 DEF Begin, Sound, TypeOK
<1>5. row[r].state = "absent"
  BY DEF Begin, Sound, Vacant
<1> QED
  BY <1>3, <1>4, <1>5 DEF Begin, Effect, RowMove, Sound, TypeOK

LEMMA CreateEffect ==
    ASSUME Sound, NEW r \in Request, NEW b \in Business, NEW n \in Name, Create(r, b, n)
    PROVE  Effect(r)
<1>0. req[r] \in Job /\ req[r].pc = "idle"
  BY DEF Create, Begin, Sound, TypeOK
<1>1. CASE \E s \in Source : row[s].state = "live" /\ row[s].name = n
  <2>1. /\ req' = [req EXCEPT ![r] = [@ EXCEPT !.pc = "ended", !.biz = b, !.name = n]]
        /\ answer' = [answer EXCEPT ![r] = "inUse"]
    BY <1>1 DEF Create
  <2>2. [req[r] EXCEPT !.pc = "ended", !.biz = b, !.name = n] \in Job
    BY <1>0 DEF Job
  <2>3. /\ req' \in [Request -> Job] /\ answer' \in [Request -> Answers]
        /\ \A q \in Request \ {r} : req'[q] = req[q] /\ answer'[q] = answer[q]
    BY <2>1, <2>2 DEF Sound, TypeOK, Answers
  <2>4. req'[r] = [req[r] EXCEPT !.pc = "ended", !.biz = b, !.name = n]
    BY <2>1 DEF Sound, TypeOK
  <2>5. req'[r].pc = "ended" /\ req'[r].id = r /\ req'[r].name = n
    BY <1>0, <2>4 DEF Job, Sound, Vacant
  <2>6. row[r].state = "absent"
    BY <1>0 DEF Sound, Vacant
  <2>7. RivalOf(r)
    BY <1>1, <2>5, <2>6 DEF Create, RivalOf
  <2> QED
    BY <1>0, <2>3, <2>5, <2>7 DEF Create, Effect, RowMove, Sound, TypeOK
<1>2. CASE ~\E s \in Source : row[s].state = "live" /\ row[s].name = n
  BY <1>2, BeginEffect DEF Create, Source
<1> QED
  BY <1>1, <1>2

LEMMA InsertEffect ==
    ASSUME Sound, NEW r \in Request, Insert(r)
    PROVE  Effect(r)
<1>0. /\ req[r] \in Job /\ req[r].pc = "insert"
      /\ req[r].id = r /\ row[r].state = "absent" /\ req[r].name \in Name
  BY DEF Insert, Sound, TypeOK, Vacant
<1>1. CASE Clash(r, req[r].name)
  <2>1. Reply(r, "error") /\ UNCHANGED row /\ Watch
    BY <1>1 DEF Insert
  <2>2. /\ req' \in [Request -> Job] /\ answer' \in [Request -> Answers]
        /\ \A q \in Request \ {r} : req'[q] = req[q] /\ answer'[q] = answer[q]
        /\ req'[r].id = req[r].id /\ req'[r].name = req[r].name
    BY <2>1, GotoReply DEF Sound, Answers
  <2>3. req'[r].pc = "ended"
    BY <2>1, <1>0 DEF Reply, Job, Sound, TypeOK
  <2>4. RivalOf(r)
    BY <1>0, <1>1, <2>1, <2>2 DEF Clash, RivalOf
  <2> QED
    BY <1>0, <2>1, <2>2, <2>3, <2>4 DEF Effect, RowMove, Sound, TypeOK
<1>2. CASE ~Clash(r, req[r].name)
  <2> DEFINE w == [state |-> "live", biz |-> req[r].biz, name |-> req[r].name, writes |-> 1]
  <2>1. Reply(r, "ok") /\ Watch /\ row' = [row EXCEPT ![r] = w]
    BY <1>2 DEF Insert
  <2>2. /\ req' \in [Request -> Job] /\ answer' \in [Request -> Answers]
        /\ \A q \in Request \ {r} : req'[q] = req[q] /\ answer'[q] = answer[q]
    BY <2>1, GotoReply DEF Sound, Answers
  <2>3. req'[r].pc = "ended" /\ answer'[r] = "ok"
    BY <2>1, <1>0 DEF Reply, Job, Sound, TypeOK
  <2>4. w \in Row /\ w.state = "live"
    BY <1>0 DEF Row, Job
  <2> HIDE DEF w
  <2>5. row' \in [Source -> Row] /\ \A s \in Source : RowMove(r, s)
    BY <1>0, <2>1, <2>4 DEF RowMove, Sound, TypeOK, Source
  <2> QED
    BY <1>0, <2>1, <2>2, <2>3, <2>5 DEF Effect
<1> QED
  BY <1>1, <1>2

\* A step that changes no row and moves on, or answers for a reason.
LEMMA QuietEffect ==
    ASSUME Sound, NEW r \in Request, req[r].pc # "ended", UNCHANGED row, Watch,
           \/ \E pc \in {"load", "reread"} : Goto(r, pc)
           \/ \E a \in Answers : Reply(r, a) /\ (a \in {"inUse", "error"} => RivalOf(r))
    PROVE  Effect(r)
<1>1. /\ req' \in [Request -> Job] /\ answer' \in [Request -> Answers]
      /\ \A q \in Request \ {r} : req'[q] = req[q] /\ answer'[q] = answer[q]
      /\ req'[r].pc \in {"load", "reread", "ended"}
  BY GotoReply DEF Sound
<1>2. answer'[r] \in {"inUse", "error"} => answer'[r] = answer[r] \/ RivalOf(r)
  BY DEF Goto, Reply, Sound, TypeOK
<1> QED
  BY <1>1, <1>2 DEF Effect, RowMove, Sound, TypeOK

LEMMA GuardEffect ==
    ASSUME Sound, NEW r \in Request, Guard(r)
    PROVE  Effect(r)
<1> DEFINE taken == \E s \in Source \ {req[r].id} :
                        /\ row[s].state = "live" /\ row[s].biz = req[r].biz
                        /\ row[s].name = req[r].name
<1>1. CASE taken
  <2>1. Reply(r, "inUse")
    BY <1>1 DEF Guard
  <2>2. req'[r].id = req[r].id /\ req'[r].name = req[r].name
    BY <2>1, GotoReply DEF Sound, Answers
  <2>3. RivalOf(r)
    BY <1>1, <2>2 DEF Guard, RivalOf
  <2> QED
    BY <2>1, <2>3, QuietEffect DEF Guard, Answers
<1>2. CASE ~taken
  BY <1>2, QuietEffect DEF Guard
<1> QED
  BY <1>1, <1>2

LEMMA LoadEffect ==
    ASSUME Sound, NEW r \in Request, Load(r)
    PROVE  Effect(r)
<1> DEFINE w == row[req[r].id]
<1>0. /\ req[r] \in Job /\ req[r].pc = "load" /\ w \in Row
      /\ UNCHANGED row /\ Watch
  BY DEF Load, Sound, TypeOK, Job
<1>1. CASE w.state # "live"
  <2>1. Reply(r, "notFound")
    BY <1>1 DEF Load
  <2> QED
    BY <1>0, <2>1, QuietEffect DEF Answers
<1>2. CASE w.state = "live" /\ w.biz # req[r].biz
  <2>1. Reply(r, "forbidden")
    BY <1>2 DEF Load
  <2> QED
    BY <1>0, <2>1, QuietEffect DEF Answers
<1>3. CASE w.state = "live" /\ w.biz = req[r].biz
  <2>1. /\ req' = [req EXCEPT ![r] = [@ EXCEPT !.pc = "write", !.seen = w.writes]]
        /\ UNCHANGED answer
    BY <1>3 DEF Load
  <2>2. [req[r] EXCEPT !.pc = "write", !.seen = w.writes] \in Job
    BY <1>0 DEF Job, Row
  <2>3. req' \in [Request -> Job] /\ \A q \in Request \ {r} : req'[q] = req[q]
    BY <2>1, <2>2 DEF Sound, TypeOK
  <2>4. req'[r] = [req[r] EXCEPT !.pc = "write", !.seen = w.writes]
    BY <2>1 DEF Sound, TypeOK
  <2>5. req'[r].pc = "write" /\ req'[r].id = req[r].id /\ req'[r].seen = w.writes
    BY <1>0, <2>4 DEF Job
  <2> QED
    BY <1>0, <1>3, <2>1, <2>3, <2>5 DEF Effect, RowMove, Sound, TypeOK
<1> QED
  BY <1>1, <1>2, <1>3

LEMMA WriteEffect ==
    ASSUME Sound, NEW r \in Request, Write(r)
    PROVE  Effect(r)
<1> DEFINE q == req[r]
           w == row[q.id]
           n == IF q.name = NoName THEN w.name ELSE q.name
           x == [w EXCEPT !.name = n, !.writes = w.writes + 1]
<1>0. /\ q \in Job /\ q.id \in Source /\ q.pc = "write" /\ w \in Row /\ Watch
      /\ w.state \in {"live", "deleted"} /\ (w.state = "deleted" => q.seen < w.writes)
  BY DEF Write, Sound, TypeOK, Job, Fenced
<1>1. CASE w.writes # q.seen /\ Retry(r) /\ UNCHANGED row
  <2>1. CASE q.attempt < MaxRetries
    <3> DEFINE j == [q EXCEPT !.pc = "load", !.attempt = q.attempt + 1]
    <3>1. req' = [req EXCEPT ![r] = j] /\ UNCHANGED answer
      BY <1>1, <2>1 DEF Retry
    <3>2. j \in Job /\ j.pc = "load"
      <4>1. q.attempt + 1 \in 1..MaxRetries
        BY <1>0, <2>1, NameAssumption DEF Job
      <4> QED
        BY <1>0, <4>1 DEF Job
    <3> HIDE DEF j
    <3>3. /\ req' \in [Request -> Job] /\ req'[r].pc = "load"
          /\ \A p \in Request \ {r} : req'[p] = req[p]
      BY <3>1, <3>2 DEF Sound, TypeOK
    <3> QED
      BY <1>0, <1>1, <3>1, <3>3 DEF Effect, RowMove, Sound, TypeOK
  <2>2. CASE ~(q.attempt < MaxRetries)
    BY <1>0, <1>1, <2>2, QuietEffect DEF Retry, Answers
  <2> QED
    BY <2>1, <2>2
<1>2. CASE Clash(q.id, q.name) /\ Reply(r, "inUse") /\ UNCHANGED row
  <2>1. req'[r].id = q.id /\ req'[r].name = q.name
    BY <1>2, GotoReply DEF Sound, Answers
  <2>2. RivalOf(r)
    BY <1>2, <2>1 DEF Clash, RivalOf
  <2> QED
    BY <1>0, <1>2, <2>2, QuietEffect DEF Answers
<1>3. CASE w.writes = q.seen /\ Goto(r, "reread") /\ row' = [row EXCEPT ![q.id] = x]
  <2>1. /\ req' \in [Request -> Job] /\ answer' \in [Request -> Answers]
        /\ \A p \in Request \ {r} : req'[p] = req[p] /\ answer'[p] = answer[p]
    BY <1>3, GotoReply DEF Sound
  <2>2. req'[r].pc = "reread" /\ UNCHANGED answer
    BY <1>0, <1>3 DEF Goto, Job, Sound, TypeOK
  <2>3. w.state = "live"
    BY <1>0, <1>3 DEF Job, Row
  <2>4. n \in Name /\ w.writes + 1 \in Nat
    BY <1>0 DEF Job, Row
  <2> HIDE DEF n
  <2>5. x \in Row /\ x.state = "live" /\ x.writes = w.writes + 1
    BY <1>0, <2>3, <2>4 DEF Row
  <2> HIDE DEF x
  <2>6. row' \in [Source -> Row] /\ \A s \in Source : RowMove(r, s)
    BY <1>0, <1>3, <2>3, <2>5 DEF RowMove, Sound, TypeOK
  <2> QED
    BY <1>0, <2>1, <2>2, <2>6 DEF Effect
<1> QED
  BY <1>1, <1>2, <1>3 DEF Write

LEMMA RemoveEffect ==
    ASSUME Sound, NEW r \in Request, NEW b \in Business, NEW s \in Source, Remove(r, b, s)
    PROVE  Effect(r)
<1> DEFINE w == row[s]
           x == [w EXCEPT !.state = "deleted", !.writes = w.writes + 1]
<1>0. req[r] \in Job /\ req[r].pc = "idle" /\ w \in Row /\ Watch /\ w.state # "absent"
  BY DEF Remove, Sound, TypeOK
<1>1. CASE w.biz # b \/ w.state = "deleted"
  <2>1. UNCHANGED row /\ \E a \in {"ok", "forbidden"} : Reply(r, a)
    BY <1>1 DEF Remove
  <2> QED
    BY <1>0, <2>1, QuietEffect DEF Answers
<1>2. CASE w.biz = b /\ w.state # "deleted"
  <2>1. Reply(r, "ok") /\ row' = [row EXCEPT ![s] = x]
    BY <1>2 DEF Remove
  <2>2. /\ req' \in [Request -> Job] /\ answer' \in [Request -> Answers]
        /\ \A q \in Request \ {r} : req'[q] = req[q] /\ answer'[q] = answer[q]
    BY <2>1, GotoReply DEF Sound, Answers
  <2>3. req'[r].pc = "ended" /\ answer'[r] = "ok"
    BY <1>0, <2>1 DEF Reply, Job, Sound, TypeOK
  <2>4. w.state = "live" /\ w.writes + 1 \in Nat
    BY <1>0, <1>2 DEF Row
  <2>5. x \in Row /\ x.state = "deleted" /\ x.writes = w.writes + 1
    BY <1>0, <2>4 DEF Row
  <2> HIDE DEF x
  <2>6. row' \in [Source -> Row] /\ \A t \in Source : RowMove(r, t)
    BY <1>0, <2>1, <2>4, <2>5 DEF RowMove, Sound, TypeOK
  <2> QED
    BY <1>0, <2>2, <2>3, <2>6 DEF Effect
<1> QED
  BY <1>1, <1>2

\* Every step is the step of a request, with that effect.
LEMMA NextEffect ==
    ASSUME Sound, Next
    PROVE  \E r \in Request : Effect(r)
<1>1. PICK r \in Request :
        \/ \E b \in Business, n \in Name : Create(r, b, n)
        \/ Insert(r)
        \/ \E b \in Business, s \in Source, n \in Name \cup {NoName} : BeginUpdate(r, b, s, n)
        \/ Guard(r) \/ Load(r) \/ Write(r) \/ Reread(r)
        \/ \E b \in Business, s \in Source : Remove(r, b, s)
  BY DEF Next
<1>2. ASSUME NEW b \in Business, NEW s \in Source, NEW n \in Name \cup {NoName},
             BeginUpdate(r, b, s, n)
      PROVE  Effect(r)
  BY <1>2, BeginEffect DEF BeginUpdate
<1>3. CASE Reread(r)
  BY <1>3, QuietEffect DEF Reread, Answers
<1> QED
  BY <1>1, <1>2, <1>3, CreateEffect, InsertEffect, GuardEffect, LoadEffect, WriteEffect,
     RemoveEffect

-----------------------------------------------------------------------------
(* Theorems *)

LEMMA InitSound == Init => Sound
<1>1. Init => Fenced
  BY DEF Init, Fenced, IdleJob
<1> QED
  BY <1>1, InitTyped DEF Sound

LEMMA StepSound == Sound /\ [Next]_vars => Sound'
<1> SUFFICES ASSUME Sound, [Next]_vars PROVE Sound'
  OBVIOUS
<1>1. CASE UNCHANGED vars
  BY <1>1 DEF vars, Sound, TypeOK, Vacant, Fenced
<1>2. ASSUME NEW r \in Request, Effect(r) PROVE Sound'
  <2>1. TypeOK'
    BY <1>2, WatchTyped DEF Effect, Sound, TypeOK
  <2>2. ASSUME NEW q \in Request, req'[q].pc \in {"idle", "insert"}
        PROVE  /\ req'[q].id = q /\ row'[q].state = "absent"
               /\ req'[q].pc = "insert" => req'[q].name \in Name
    <3>1. CASE q = r
      BY <1>2, <2>2, <3>1 DEF Effect
    <3>2. CASE q # r
      <4>1. /\ req[q].id = q /\ row[q].state = "absent"
            /\ req[q].pc = "insert" => req[q].name \in Name
        BY <1>2, <2>2, <3>2 DEF Effect, Sound, Vacant
      <4>2. row'[q] = row[q]
        BY <1>2, <3>2, <4>1 DEF Effect, RowMove, Source
      <4> QED
        BY <1>2, <3>2, <4>1, <4>2 DEF Effect
    <3> QED
      BY <3>1, <3>2
  <2>3. ASSUME NEW q \in Request, req'[q].pc = "write"
        PROVE  /\ row'[req'[q].id].state \in {"live", "deleted"}
               /\ req'[q].seen <= row'[req'[q].id].writes
               /\ row'[req'[q].id].state = "deleted"
                    => req'[q].seen < row'[req'[q].id].writes
    <3>0. req'[q] \in Job /\ req'[q].id \in Source /\ req'[q].seen \in Nat
          /\ row'[req'[q].id] \in Row /\ row'[req'[q].id].writes \in Nat
      BY <2>1 DEF TypeOK, Job, Row
    <3>1. CASE q = r
      BY <1>2, <2>3, <3>0, <3>1 DEF Effect
    <3>2. CASE q # r
      <4>1. req'[q] = req[q]
        BY <1>2, <3>2 DEF Effect
      <4> DEFINE s == req[q].id
      <4>2. /\ row[s].state \in {"live", "deleted"}
            /\ req[q].seen <= row[s].writes
            /\ row[s].state = "deleted" => req[q].seen < row[s].writes
            /\ row[s].writes \in Nat
        BY <2>3, <3>0, <4>1 DEF Sound, Fenced, TypeOK, Row
      <4>3. RowMove(r, s)
        BY <1>2, <3>0, <4>1 DEF Effect
      <4> QED
        BY <3>0, <4>1, <4>2, <4>3 DEF RowMove
    <3> QED
      BY <3>1, <3>2
  <2> QED
    BY <2>1, <2>2, <2>3 DEF Sound, Vacant, Fenced
<1> QED
  BY <1>1, <1>2, NextEffect

\* The type invariant of SourceNames.
THEOREM TypeCorrect == Spec => []TypeOK
<1>1. Sound => TypeOK
  BY DEF Sound
<1> QED
  BY <1>1, InitSound, StepSound, PTL DEF Spec

\* Whatever updates are under way, a deleted source stays as remove() left it: what an
\* update has read of it before is out of date, and its write does not match.
THEOREM DeletionIsFinal == Spec => DeletedStays
<1>1. ASSUME Sound, [Next]_vars, NEW s \in Source, row[s].state = "deleted"
      PROVE  row'[s] = row[s]
  <2>1. CASE UNCHANGED vars
    BY <2>1 DEF vars
  <2>2. ASSUME NEW r \in Request, Effect(r) PROVE row'[s] = row[s]
    BY <1>1, <2>2 DEF Effect, RowMove
  <2> QED
    BY <1>1, <2>1, <2>2, NextEffect
<1>2. Sound /\ [Next]_vars
        => [\A s \in Source : row[s].state = "deleted" => row'[s] = row[s]]_vars
  BY <1>1
<1> QED
  BY <1>2, InitSound, StepSound, PTL DEF Spec, DeletedStays

\* Whoever is told that a name is in use, or gets the internal error, has met another row
\* of that name.
THEOREM RefusalHasACause == Spec => []RefusedForACause
<1>1. Init => RefusedForACause
  BY DEF Init, RefusedForACause
<1>2. ASSUME Sound, RefusedForACause, [Next]_vars
      PROVE  RefusedForACause'
  <2>1. CASE UNCHANGED vars
    BY <1>2, <2>1 DEF vars, RefusedForACause
  <2>2. ASSUME NEW r \in Request, Effect(r) PROVE RefusedForACause'
    <3>1. ASSUME NEW q \in Request PROVE met[q] => met'[q]
      BY <2>2, <3>1 DEF Effect, Watch
    <3>2. RivalOf(r) => met'[r]
      BY <2>2 DEF Effect, Watch, RivalOf
    <3> QED
      BY <1>2, <2>2, <3>1, <3>2 DEF Effect, RefusedForACause
  <2> QED
    BY <1>2, <2>1, <2>2, NextEffect
<1> QED
  BY <1>1, <1>2, InitSound, StepSound, PTL DEF Spec

=============================================================================
