---------------------------- MODULE AccountsProofs ----------------------------
(***************************************************************************)
(* Theorems about Accounts for any number of requests, sessions,           *)
(* businesses, names and retries.                                          *)
(***************************************************************************)
EXTENDS Accounts, TLAPS

-----------------------------------------------------------------------------
(* The inductive invariant *)

\* Requests that are under way have met.
Meeting == \A r, s \in Underway : {r, s} \in together

\* A request inserts its own row, once, and writes no row that is not there.
Grounded ==
    /\ \A a \in Account : row[a].state # "absent" => row[a].name \in Name
    /\ \A w \in Writer :
           /\ row[w].state = "absent" => namer[w] = w
           /\ job[w].pc \in {"idle", "insert"} => row[w].state = "absent" /\ job[w].id = w
           /\ job[w].pc = "insert" => job[w].name \in Name
           /\ job[w].pc \in {"load", "write", "hide", "drop"} =>
                  row[job[w].id].state # "absent"
           /\ job[w].pc = "idle" => job[w].attempt = 1
           /\ job[w].pc # "ended" => answer[w] = "none"

\* What an update has read is what the row was; unless the row was written since, it can
\* still be seen.
Read(w) ==
    job[w].pc = "write" =>
        /\ job[w].seen <= row[job[w].id].writes
        /\ row[job[w].id].writes = job[w].seen => Visible(job[w].id)

Sound == TypeOK /\ Grounded /\ \A w \in Writer : Read(w)

-----------------------------------------------------------------------------
(* What the parts of a step do *)

LEMMA WatchTyped == TypeOK /\ Watch => together' \subseteq SUBSET Request
<1> SUFFICES ASSUME TypeOK, Watch PROVE together' \subseteq SUBSET Request
  OBVIOUS
<1>1. Underway' \subseteq Request
  BY DEF Underway, Request
<1> QED
  BY <1>1 DEF Watch, TypeOK

LEMMA WriteMoves ==
    ASSUME TypeOK, NEW a \in Account, NEW new \in Row, Write(a, new)
    PROVE  /\ row' \in [Account -> Row]
           /\ \A c \in Account \ {a} : row'[c] = row[c]
           /\ row'[a].state = new.state /\ row'[a].name = new.name
           /\ row'[a].hash = new.hash /\ row'[a].writes = new.writes + 1
<1> DEFINE x == [new EXCEPT !.writes = new.writes + 1]
<1>1. row' = [row EXCEPT ![a] = x]
  BY DEF Write
<1>2. /\ x \in Row /\ x.state = new.state /\ x.name = new.name
      /\ x.hash = new.hash /\ x.writes = new.writes + 1
  BY DEF Row
<1> HIDE DEF x
<1> QED
  BY <1>1, <1>2 DEF TypeOK

\* A job goes to another place of the program and leaves the rest of it alone.
JobKept(w) ==
    /\ job' \in [Writer -> Job] /\ answer' \in [Request -> Answers]
    /\ \A v \in Writer \ {w} : job'[v] = job[v]
    /\ \A r \in Request \ {w} : answer'[r] = answer[r]
    /\ job'[w].attempt = job[w].attempt
    /\ job'[w].seen = job[w].seen /\ job'[w].from = job[w].from

LEMMA GotoMoves ==
    ASSUME TypeOK, NEW w \in Writer, NEW pc \in {"load", "drop", "ended"}, Goto(w, pc)
    PROVE  /\ JobKept(w) /\ job'[w].pc = pc /\ answer'[w] = answer[w]
           /\ job'[w].id = job[w].id /\ job'[w].name = job[w].name
<1> DEFINE x == [job[w] EXCEPT !.pc = pc]
<1>0. job[w] \in Job
  BY DEF TypeOK
<1>1. job' = [job EXCEPT ![w] = x] /\ answer' = answer
  BY DEF Goto
<1>2. /\ x \in Job /\ x.pc = pc /\ x.id = job[w].id /\ x.name = job[w].name
      /\ x.attempt = job[w].attempt /\ x.seen = job[w].seen /\ x.from = job[w].from
  BY <1>0 DEF Job
<1> HIDE DEF x
<1> QED
  BY <1>1, <1>2 DEF TypeOK, JobKept

LEMMA ReplyMoves ==
    ASSUME TypeOK, NEW w \in Writer, NEW a \in Answers, Reply(w, a)
    PROVE  /\ JobKept(w) /\ job'[w].pc = "ended" /\ answer'[w] = a
           /\ job'[w].id = job[w].id /\ job'[w].name = job[w].name
<1> DEFINE x == [job[w] EXCEPT !.pc = "ended"]
<1>0. job[w] \in Job
  BY DEF TypeOK
<1>1. job' = [job EXCEPT ![w] = x] /\ answer' = [answer EXCEPT ![w] = a]
  BY DEF Reply
<1>2. /\ x \in Job /\ x.pc = "ended" /\ x.id = job[w].id /\ x.name = job[w].name
      /\ x.attempt = job[w].attempt /\ x.seen = job[w].seen /\ x.from = job[w].from
  BY <1>0 DEF Job
<1> HIDE DEF x
<1> QED
  BY <1>1, <1>2 DEF TypeOK, JobKept, Request

LEMMA BeginMoves ==
    ASSUME TypeOK, NEW w \in Writer, NEW pc \in {"insert", "load", "hide"},
           NEW a \in Account, NEW n \in Name \cup {NoName}, Begin(w, pc, a, n)
    PROVE  /\ JobKept(w) /\ job'[w].pc = pc /\ answer'[w] = answer[w]
           /\ job'[w].id = a /\ job'[w].name = n
<1> DEFINE x == [job[w] EXCEPT !.pc = pc, !.id = a, !.name = n]
<1>0. job[w] \in Job
  BY DEF TypeOK
<1>1. job' = [job EXCEPT ![w] = x] /\ answer' = answer
  BY DEF Begin, TypeOK
<1>2. /\ x \in Job /\ x.pc = pc /\ x.id = a /\ x.name = n
      /\ x.attempt = job[w].attempt /\ x.seen = job[w].seen /\ x.from = job[w].from
  BY <1>0 DEF Job
<1> HIDE DEF x
<1> QED
  BY <1>1, <1>2 DEF TypeOK, JobKept

-----------------------------------------------------------------------------
(* What a step of a request to businesses does *)

\* A row stays as it is or is written by somebody who leaves its name alone.
RowKept(a) ==
    /\ namer'[a] = namer[a]
    /\ \/ row'[a] = row[a]
       \/ /\ row[a].state # "absent" /\ row'[a].state # "absent"
          /\ row'[a].state \in {"live", "hidden"} => Visible(a)
          /\ row'[a].name = row[a].name /\ row'[a].writes = row[a].writes + 1

\* A request gives its row its name.
RowNamed(w, a) ==
    /\ a = job[w].id /\ namer'[a] = w
    /\ \/ job[w].pc = "insert" /\ row[a].state = "absent"
       \/ job[w].pc = "write" /\ Visible(a)
    /\ row'[a].state # "absent" /\ job[w].name \in Name
    /\ row'[a].name = job[w].name /\ row'[a].writes = row[a].writes + 1

Still == row' = row /\ namer' = namer

\* Why an attempt to update has failed.
Beaten(w) == w \in clashed' \/ row[job[w].id].writes # job[w].seen

JobGoes(w) ==
    LET q == job[w]
        p == job'[w] IN
    /\ q.pc # "ended" /\ p.pc # "idle"
    /\ p.pc # "ended" => answer'[w] = "none"
    /\ p.pc = "insert" =>
           /\ q.pc = "idle" /\ Still /\ p.id = w
           /\ p.name \in Name /\ ~Taken(p.name)
    /\ p.pc = "load" =>
           /\ Still
           /\ \/ /\ q.pc = "idle" /\ row[p.id].state # "absent" /\ p.attempt = q.attempt
                 /\ p.name # NoName => ~Taken(p.name)
              \/ /\ q.pc = "write" /\ p.id = q.id /\ p.name = q.name /\ p.from = q.from
                 /\ p.attempt = q.attempt + 1 /\ Beaten(w)
    /\ p.pc = "write" =>
           /\ q.pc = "load" /\ Still /\ p.id = q.id /\ p.name = q.name
           /\ p.attempt = q.attempt /\ Visible(q.id) /\ p.seen = row[q.id].writes
           /\ p.from = IF q.attempt = 1 THEN p.seen ELSE q.from
    /\ p.pc \in {"hide", "drop"} => row[p.id].state # "absent"
    /\ answer'[w] = "conflict" =>
           /\ q.pc = "write" /\ Still /\ p.id = q.id /\ p.from = q.from
           /\ q.attempt = MaxRetries /\ Beaten(w)

Step(w) ==
    /\ Watch /\ visit' = visit
    /\ row' \in [Account -> Row] /\ job' \in [Writer -> Job]
    /\ answer' \in [Request -> Answers] /\ namer' \in [Account -> Account]
    /\ clashed \subseteq clashed' /\ clashed' \subseteq Writer
    /\ \A v \in Writer \ {w} : job'[v] = job[v]
    /\ \A r \in Request \ {w} : answer'[r] = answer[r]
    /\ \A a \in Account : row'[a].hash = row[a].hash
    /\ \A a \in Account : RowKept(a) \/ RowNamed(w, a)
    /\ JobGoes(w)

\* A step that only moves the job on, or answers it.
LEMMA Passing ==
    ASSUME Sound, NEW w \in Writer, JobKept(w), JobGoes(w), Watch,
           UNCHANGED <<row, visit, namer, clashed>>
    PROVE  Step(w)
BY DEF Sound, TypeOK, JobKept, Step, RowKept

LEMMA CreateStep ==
    ASSUME Sound, NEW w \in Writer, NEW n \in Name, Create(w, n)
    PROVE  Step(w)
<1>0. /\ TypeOK /\ job[w].pc = "idle" /\ job[w].id = w /\ answer[w] = "none"
      /\ w \in Account /\ w \in Request /\ n # NoName /\ n \in Name \cup {NoName}
  BY AccountAssumption DEF Create, Sound, Grounded, Account, Request
<1>1. CASE Taken(n)
  <2>1. Reply(w, "inUse")
    BY <1>1 DEF Create
  <2>2. JobKept(w) /\ job'[w].pc = "ended" /\ answer'[w] = "inUse"
    BY <1>0, <2>1, ReplyMoves DEF Answers
  <2>3. JobGoes(w)
    BY <1>0, <2>2 DEF JobGoes
  <2> QED
    BY <2>2, <2>3, Passing DEF Create
<1>2. CASE ~Taken(n)
  <2>1. Begin(w, "insert", w, n)
    BY <1>2 DEF Create
  <2>2. /\ JobKept(w) /\ job'[w].pc = "insert" /\ answer'[w] = "none"
        /\ job'[w].id = w /\ job'[w].name = n
    BY <1>0, <2>1, BeginMoves
  <2>3. JobGoes(w)
    BY <1>0, <1>2, <2>2 DEF JobGoes, Create, Still
  <2> QED
    BY <2>2, <2>3, Passing DEF Create
<1> QED
  BY <1>1, <1>2

LEMMA InsertStep ==
    ASSUME Sound, NEW w \in Writer, Insert(w)
    PROVE  Step(w)
<1>0. /\ TypeOK /\ job[w].pc = "insert" /\ job[w].id = w /\ answer[w] = "none"
      /\ w \in Account /\ w \in Request /\ row[w] \in Row /\ row[w].state = "absent"
      /\ job[w].name \in Name /\ namer[w] = w
  BY DEF Insert, Sound, Grounded, Account, Request, TypeOK
<1>1. CASE Clash(w, job[w].name)
  <2>1. Reply(w, "error") /\ UNCHANGED <<row, visit, namer, clashed>> /\ Watch
    BY <1>1 DEF Insert
  <2>2. JobKept(w) /\ job'[w].pc = "ended" /\ answer'[w] = "error"
    BY <1>0, <2>1, ReplyMoves DEF Answers
  <2>3. JobGoes(w)
    BY <1>0, <2>2 DEF JobGoes
  <2> QED
    BY <2>1, <2>2, <2>3, Passing
<1>2. CASE ~Clash(w, job[w].name)
  <2> DEFINE x == [row[w] EXCEPT !.state = "live", !.name = job[w].name]
  <2>1. Reply(w, "ok") /\ UNCHANGED <<visit, namer, clashed>> /\ Watch /\ Write(w, x)
    BY <1>2 DEF Insert
  <2>2. /\ x \in Row /\ x.state = "live" /\ x.name = job[w].name
        /\ x.writes = row[w].writes /\ x.hash = row[w].hash
    BY <1>0 DEF Row
  <2> HIDE DEF x
  <2>3. JobKept(w) /\ job'[w].pc = "ended" /\ answer'[w] = "ok"
    BY <1>0, <2>1, ReplyMoves DEF Answers
  <2>4. /\ row' \in [Account -> Row] /\ \A c \in Account \ {w} : row'[c] = row[c]
        /\ row'[w].state = "live" /\ row'[w].name = job[w].name
        /\ row'[w].hash = row[w].hash /\ row'[w].writes = row[w].writes + 1
    BY <1>0, <2>1, <2>2, WriteMoves
  <2>5. JobGoes(w)
    BY <1>0, <2>3 DEF JobGoes
  <2>6. RowNamed(w, w)
    BY <1>0, <2>1, <2>4 DEF RowNamed
  <2>7. \A a \in Account : RowKept(a) \/ RowNamed(w, a)
    BY <2>1, <2>4, <2>6 DEF RowKept
  <2> QED
    BY <1>0, <2>1, <2>3, <2>4, <2>5, <2>7 DEF Step, JobKept, TypeOK
<1> QED
  BY <1>1, <1>2

LEMMA BeginUpdateStep ==
    ASSUME Sound, NEW w \in Writer, NEW a \in Account, NEW n \in Name \cup {NoName},
           BeginUpdate(w, a, n)
    PROVE  Step(w)
<1>0. /\ TypeOK /\ job[w].pc = "idle" /\ answer[w] = "none" /\ w \in Request
      /\ row[a].state # "absent"
  BY DEF BeginUpdate, Sound, Grounded, Request
<1>1. CASE n # NoName /\ Taken(n)
  <2>1. Reply(w, "inUse")
    BY <1>1 DEF BeginUpdate
  <2>2. JobKept(w) /\ job'[w].pc = "ended" /\ answer'[w] = "inUse"
    BY <1>0, <2>1, ReplyMoves DEF Answers
  <2>3. JobGoes(w)
    BY <1>0, <2>2 DEF JobGoes
  <2> QED
    BY <2>2, <2>3, Passing DEF BeginUpdate
<1>2. CASE ~(n # NoName /\ Taken(n))
  <2>1. Begin(w, "load", a, n)
    BY <1>2 DEF BeginUpdate
  <2>2. /\ JobKept(w) /\ job'[w].pc = "load" /\ answer'[w] = "none"
        /\ job'[w].id = a /\ job'[w].name = n
    BY <1>0, <2>1, BeginMoves
  <2>3. JobGoes(w)
    BY <1>0, <1>2, <2>2 DEF JobGoes, JobKept, BeginUpdate, Still
  <2> QED
    BY <2>2, <2>3, Passing DEF BeginUpdate
<1> QED
  BY <1>1, <1>2

LEMMA LoadStep ==
    ASSUME Sound, NEW w \in Writer, Load(w)
    PROVE  Step(w)
<1> DEFINE q == job[w]
           now == row[q.id].writes
<1>0. /\ TypeOK /\ q \in Job /\ q.pc = "load" /\ answer[w] = "none" /\ w \in Request
      /\ row[q.id] \in Row /\ now \in Nat
      /\ UNCHANGED <<row, visit, namer, clashed>> /\ Watch
  BY DEF Load, Sound, Grounded, Request, TypeOK, Job, Row
<1>1. CASE Visible(q.id)
  <2> DEFINE x == [q EXCEPT !.pc = "write", !.seen = now,
                            !.from = IF q.attempt = 1 THEN now ELSE q.from]
  <2>1. job' = [job EXCEPT ![w] = x] /\ answer' = answer
    BY <1>1 DEF Load
  <2>2. /\ x \in Job /\ x.pc = "write" /\ x.id = q.id /\ x.name = q.name
        /\ x.attempt = q.attempt /\ x.seen = now
        /\ x.from = IF q.attempt = 1 THEN now ELSE q.from
    BY <1>0 DEF Job
  <2> HIDE DEF x
  <2>3. /\ job' \in [Writer -> Job] /\ job'[w] = x
        /\ \A v \in Writer \ {w} : job'[v] = job[v]
    BY <1>0, <2>1, <2>2 DEF TypeOK
  <2>4. JobGoes(w)
    BY <1>0, <1>1, <2>1, <2>2, <2>3 DEF JobGoes, Still
  <2> QED
    BY <1>0, <2>1, <2>3, <2>4 DEF Step, TypeOK, RowKept
<1>2. CASE ~Visible(q.id)
  <2>1. Reply(w, "notFound")
    BY <1>2 DEF Load
  <2>2. JobKept(w) /\ job'[w].pc = "ended" /\ answer'[w] = "notFound"
    BY <1>0, <2>1, ReplyMoves DEF Answers
  <2>3. JobGoes(w)
    BY <1>0, <2>2 DEF JobGoes
  <2> QED
    BY <1>0, <2>2, <2>3, Passing
<1> QED
  BY <1>1, <1>2

\* A failed attempt is followed by another, or given up.
LEMMA RetryStep ==
    ASSUME Sound, NEW w \in Writer, job[w].pc = "write", Retry(w), Watch, Beaten(w),
           UNCHANGED <<row, visit, namer>>, clashed \subseteq clashed', clashed' \subseteq Writer
    PROVE  Step(w)
<1> DEFINE q == job[w]
<1>0. TypeOK /\ q \in Job /\ answer[w] = "none" /\ w \in Request
  BY DEF Sound, Grounded, Request, TypeOK
<1>1. CASE q.attempt < MaxRetries
  <2> DEFINE x == [q EXCEPT !.pc = "load", !.attempt = q.attempt + 1]
  <2>1. job' = [job EXCEPT ![w] = x] /\ answer' = answer
    BY <1>0, <1>1 DEF Retry, TypeOK
  <2>2. q.attempt + 1 \in 1..MaxRetries
    BY <1>0, <1>1, AccountAssumption DEF Job
  <2>3. /\ x \in Job /\ x.pc = "load" /\ x.id = q.id /\ x.name = q.name
        /\ x.attempt = q.attempt + 1 /\ x.from = q.from
    BY <1>0, <2>2 DEF Job
  <2> HIDE DEF x
  <2>4. /\ job' \in [Writer -> Job] /\ job'[w] = x
        /\ \A v \in Writer \ {w} : job'[v] = job[v]
    BY <1>0, <2>1, <2>3 DEF TypeOK
  <2>5. JobGoes(w)
    BY <1>0, <2>1, <2>3, <2>4 DEF JobGoes, Still
  <2> QED
    BY <1>0, <2>1, <2>4, <2>5 DEF Step, TypeOK, RowKept
<1>2. CASE ~(q.attempt < MaxRetries)
  <2>1. Reply(w, "conflict")
    BY <1>2 DEF Retry
  <2>2. /\ JobKept(w) /\ job'[w].pc = "ended" /\ answer'[w] = "conflict"
        /\ job'[w].id = q.id
    BY <1>0, <2>1, ReplyMoves DEF Answers
  <2>3. q.attempt = MaxRetries
    BY <1>0, <1>2, AccountAssumption DEF Job
  <2>4. JobGoes(w)
    BY <1>0, <2>2, <2>3 DEF JobGoes, Still, JobKept
  <2> QED
    BY <1>0, <2>2, <2>4 DEF Step, TypeOK, RowKept, JobKept
<1> QED
  BY <1>1, <1>2

LEMMA UpdateStep ==
    ASSUME Sound, NEW w \in Writer, Update(w)
    PROVE  Step(w)
<1> DEFINE q == job[w]
           named == IF q.name = NoName THEN row[q.id].name ELSE q.name
<1>0. /\ TypeOK /\ q \in Job /\ q.pc = "write" /\ answer[w] = "none" /\ w \in Request
      /\ w \in Account /\ q.id \in Account /\ row[q.id] \in Row /\ row[q.id].state # "absent"
      /\ row[q.id].name \in Name /\ UNCHANGED visit /\ Watch
      /\ row[q.id].writes = q.seen => Visible(q.id)
  BY DEF Update, Sound, Grounded, Read, Request, Account, TypeOK, Job
<1>1. CASE row[q.id].writes # q.seen
  BY <1>0, <1>1, RetryStep DEF Update, Beaten, TypeOK
<1>2. CASE row[q.id].writes = q.seen /\ Clash(q.id, named)
  BY <1>0, <1>2, RetryStep DEF Update, Beaten, TypeOK
<1>3. CASE row[q.id].writes = q.seen /\ ~Clash(q.id, named)
  <2> DEFINE x == [row[q.id] EXCEPT !.name = named]
  <2>1. /\ Reply(w, "ok") /\ Write(q.id, x) /\ UNCHANGED clashed
        /\ namer' = [namer EXCEPT ![q.id] = IF q.name = NoName THEN @ ELSE w]
    BY <1>3 DEF Update
  <2>2. named \in Name
    BY <1>0 DEF Job
  <2>3. /\ x \in Row /\ x.state = row[q.id].state /\ x.name = named
        /\ x.writes = row[q.id].writes /\ x.hash = row[q.id].hash
    BY <1>0, <2>2 DEF Row
  <2> HIDE DEF x
  <2>4. JobKept(w) /\ job'[w].pc = "ended" /\ answer'[w] = "ok"
    BY <1>0, <2>1, ReplyMoves DEF Answers
  <2>5. /\ row' \in [Account -> Row] /\ \A c \in Account \ {q.id} : row'[c] = row[c]
        /\ row'[q.id].state = row[q.id].state /\ row'[q.id].name = named
        /\ row'[q.id].hash = row[q.id].hash
        /\ row'[q.id].writes = row[q.id].writes + 1
    BY <1>0, <2>1, <2>3, WriteMoves
  <2>6. /\ namer' \in [Account -> Account]
        /\ \A c \in Account \ {q.id} : namer'[c] = namer[c]
        /\ namer'[q.id] = IF q.name = NoName THEN namer[q.id] ELSE w
    BY <1>0, <2>1 DEF TypeOK
  <2>7. JobGoes(w)
    BY <1>0, <2>4 DEF JobGoes
  <2>8. RowKept(q.id) \/ RowNamed(w, q.id)
    <3>1. CASE q.name = NoName
      BY <1>0, <2>5, <2>6, <3>1 DEF RowKept, Visible
    <3>2. CASE q.name # NoName
      <4>1. Visible(q.id)
        BY <1>0, <1>3
      <4> QED
        BY <1>0, <2>2, <2>5, <2>6, <3>2, <4>1 DEF RowNamed
    <3> QED
      BY <3>1, <3>2
  <2>9. \A a \in Account : RowKept(a) \/ RowNamed(w, a)
    BY <2>5, <2>6, <2>8 DEF RowKept
  <2> QED
    BY <1>0, <2>1, <2>4, <2>5, <2>6, <2>7, <2>9 DEF Step, JobKept, TypeOK
<1> QED
  BY <1>1, <1>2, <1>3

LEMMA BeginRemoveStep ==
    ASSUME Sound, NEW w \in Writer, NEW a \in Account, BeginRemove(w, a)
    PROVE  Step(w)
<1>0. /\ TypeOK /\ job[w].pc = "idle" /\ answer[w] = "none" /\ w \in Request
      /\ row[a].state # "absent"
  BY DEF BeginRemove, Sound, Grounded, Request
<1>1. CASE ~Visible(a)
  <2>1. Reply(w, "notFound")
    BY <1>1 DEF BeginRemove
  <2>2. JobKept(w) /\ job'[w].pc = "ended" /\ answer'[w] = "notFound"
    BY <1>0, <2>1, ReplyMoves DEF Answers
  <2>3. JobGoes(w)
    BY <1>0, <2>2 DEF JobGoes
  <2> QED
    BY <2>2, <2>3, Passing DEF BeginRemove
<1>2. CASE Visible(a)
  <2>1. Begin(w, "hide", a, NoName)
    BY <1>2 DEF BeginRemove
  <2>2. /\ JobKept(w) /\ job'[w].pc = "hide" /\ answer'[w] = "none"
        /\ job'[w].id = a
    BY <1>0, <2>1, BeginMoves
  <2>3. JobGoes(w)
    BY <1>0, <2>2 DEF JobGoes
  <2> QED
    BY <2>2, <2>3, Passing DEF BeginRemove
<1> QED
  BY <1>1, <1>2

\* The two statements of a removal.
LEMMA RemoveSteps ==
    ASSUME Sound, NEW w \in Writer, Hide(w) \/ Drop(w)
    PROVE  Step(w)
<1> DEFINE a == job[w].id
<1>0. /\ TypeOK /\ job[w] \in Job /\ answer[w] = "none" /\ w \in Request
      /\ job[w].pc \in {"hide", "drop"}
      /\ a \in Account /\ row[a] \in Row /\ row[a].state # "absent"
      /\ UNCHANGED <<visit, namer, clashed>> /\ Watch
  BY DEF Hide, Drop, Sound, Grounded, Request, TypeOK, Job
<1>1. \E st \in {"live", "hidden", "gone"} :
          /\ Write(a, [row[a] EXCEPT !.state = st])
          /\ st \in {"live", "hidden"} => row[a].state \in {"live", "hidden"}
  <2>1. CASE Hide(w)
    <3> DEFINE st == IF row[a].state = "live" THEN "hidden" ELSE row[a].state
    <3>1. Write(a, [row[a] EXCEPT !.state = st])
      BY <2>1 DEF Hide
    <3>2. /\ st \in {"live", "hidden", "gone"}
          /\ st \in {"live", "hidden"} => row[a].state \in {"live", "hidden"}
      BY <1>0 DEF Row
    <3> HIDE DEF st
    <3> QED
      BY <3>1, <3>2
  <2>2. CASE Drop(w)
    BY <2>2 DEF Drop
  <2> QED
    BY <2>1, <2>2
<1>2. PICK st \in {"live", "hidden", "gone"} :
          /\ Write(a, [row[a] EXCEPT !.state = st])
          /\ st \in {"live", "hidden"} => row[a].state \in {"live", "hidden"}
  BY <1>1
<1> DEFINE x == [row[a] EXCEPT !.state = st]
<1>3. /\ x \in Row /\ x.state = st /\ x.name = row[a].name
      /\ x.writes = row[a].writes /\ x.hash = row[a].hash
  BY <1>0 DEF Row
<1>4. Write(a, x)
  BY <1>2
<1> HIDE DEF x
<1>5. /\ row' \in [Account -> Row] /\ \A c \in Account \ {a} : row'[c] = row[c]
      /\ row'[a].state = st /\ row'[a].name = row[a].name
      /\ row'[a].hash = row[a].hash /\ row'[a].writes = row[a].writes + 1
  BY <1>0, <1>3, <1>4, WriteMoves
<1>6. \A c \in Account : RowKept(c)
  BY <1>0, <1>2, <1>5 DEF RowKept, Visible
<1>7. JobKept(w) /\ JobGoes(w)
  <2>1. CASE Hide(w)
    <3>1. /\ JobKept(w) /\ job'[w].pc = "drop" /\ answer'[w] = "none"
          /\ job'[w].id = a
      BY <1>0, <2>1, GotoMoves DEF Hide
    <3> QED
      BY <1>0, <3>1 DEF JobGoes
  <2>2. CASE Drop(w)
    <3>1. JobKept(w) /\ job'[w].pc = "ended" /\ answer'[w] = "ok"
      BY <1>0, <2>2, ReplyMoves DEF Drop, Answers
    <3> QED
      BY <1>0, <3>1 DEF JobGoes
  <2> QED
    BY <2>1, <2>2
<1> QED
  BY <1>0, <1>5, <1>6, <1>7 DEF Step, JobKept, TypeOK

\* The process dies with the request.
LEMMA CrashOfWriter ==
    ASSUME Sound, NEW w \in Writer, w \in Underway, job' = [job EXCEPT ![w].pc = "ended"],
           UNCHANGED <<row, visit, answer, namer, clashed>>, Watch
    PROVE  Step(w)
<1>0. TypeOK /\ job[w].pc \notin {"idle", "ended"} /\ answer[w] = "none"
  BY AccountAssumption DEF Sound, Underway, Grounded
<1>1. Goto(w, "ended")
  BY DEF Goto
<1>2. JobKept(w) /\ job'[w].pc = "ended" /\ answer'[w] = "none"
  BY <1>0, <1>1, GotoMoves
<1>3. JobGoes(w)
  BY <1>0, <1>2 DEF JobGoes
<1> QED
  BY <1>2, <1>3, Passing

-----------------------------------------------------------------------------
(* What a step of a request to auth does *)

\* A session is let in, stores the hash of its token, or comes to its end without a token.
LetIn(s) ==
    LET p == visit'[s] IN
    /\ visit[s].pc = "idle" /\ p.pc = "store" /\ p.id \in Account
    /\ row[p.id].state # "absent" /\ row' = row /\ answer' = answer
    /\ p.used = NoToken \/ /\ p.used \in Given /\ p.id = Subject(p.used)
                           /\ row[p.id].hash = p.used

Signed(s) ==
    LET q == visit[s] IN
    /\ q.pc = "store" /\ visit'[s].pc = "ended"
    /\ visit'[s].id = q.id /\ visit'[s].used = q.used
    /\ row'[q.id].hash = s /\ \A a \in Account \ {q.id} : row'[a].hash = row[a].hash
    /\ answer'[s] \in {"ok", "lost"}

SentOff(s) ==
    /\ visit[s].pc # "ended" /\ visit'[s].pc = "ended"
    /\ visit'[s].used \in Given \cup {NoToken, visit[s].used}
    /\ \A a \in Account : row'[a].hash \in {row[a].hash, NoToken}
    /\ answer'[s] \notin {"ok", "lost", "conflict"}

SessionStep(s) ==
    /\ Watch /\ job' = job /\ namer' = namer /\ clashed' = clashed
    /\ row' \in [Account -> Row] /\ visit' \in [Session -> Visit]
    /\ answer' \in [Request -> Answers]
    /\ \A t \in Session \ {s} : visit'[t] = visit[t]
    /\ \A r \in Request \ {s} : answer'[r] = answer[r]
    /\ \A a \in Account : RowKept(a)
    /\ LetIn(s) \/ Signed(s) \/ SentOff(s)

LEMMA AdmitStep ==
    ASSUME TypeOK, NEW s \in Session, NEW a \in Account, NEW t \in Token \cup {NoToken},
           Admit(s, a, t), UNCHANGED <<row, job, namer, clashed>>, Watch,
           row[a].state # "absent",
           t = NoToken \/ (t \in Given /\ a = Subject(t) /\ row[a].hash = t)
    PROVE  SessionStep(s)
<1> DEFINE x == [pc |-> "store", id |-> a, used |-> t]
<1>1. visit' = [visit EXCEPT ![s] = x] /\ answer' = answer /\ visit[s].pc = "idle"
  BY DEF Admit
<1>2. x \in Visit /\ x.pc = "store" /\ x.id = a /\ x.used = t
  BY DEF Visit
<1> HIDE DEF x
<1>3. /\ visit' \in [Session -> Visit] /\ visit'[s] = x
      /\ \A v \in Session \ {s} : visit'[v] = visit[v]
  BY <1>1, <1>2 DEF TypeOK
<1>4. LetIn(s)
  BY <1>1, <1>2, <1>3 DEF LetIn
<1> QED
  BY <1>1, <1>3, <1>4 DEF SessionStep, RowKept, TypeOK

LEMMA DismissMoves ==
    ASSUME TypeOK, NEW s \in Session, NEW t \in Token \cup {NoToken}, NEW a \in Answers,
           Dismiss(s, t, a)
    PROVE  /\ visit' \in [Session -> Visit] /\ answer' \in [Request -> Answers]
           /\ \A v \in Session \ {s} : visit'[v] = visit[v]
           /\ \A r \in Request \ {s} : answer'[r] = answer[r]
           /\ visit[s].pc # "ended" /\ visit'[s].pc = "ended" /\ visit'[s].used = t
           /\ answer'[s] = a
<1> DEFINE x == [visit[s] EXCEPT !.pc = "ended", !.used = t]
<1>0. visit[s] \in Visit /\ s \in Request
  BY DEF TypeOK, Request
<1>1. /\ visit' = [visit EXCEPT ![s] = x] /\ answer' = [answer EXCEPT ![s] = a]
      /\ visit[s].pc = "idle"
  BY DEF Dismiss, TypeOK
<1>2. x \in Visit /\ x.pc = "ended" /\ x.used = t
  BY <1>0 DEF Visit
<1> HIDE DEF x
<1> QED
  BY <1>0, <1>1, <1>2 DEF TypeOK

\* A session that is sent away and changes no row.
LEMMA RefusedStep ==
    ASSUME TypeOK, NEW s \in Session, NEW t \in Given \cup {NoToken}, Dismiss(s, t, "refused"),
           UNCHANGED <<row, job, namer, clashed>>, Watch
    PROVE  SessionStep(s)
<1>1. t \in Token \cup {NoToken}
  BY DEF Given, Token
<1>2. /\ visit' \in [Session -> Visit] /\ answer' \in [Request -> Answers]
      /\ \A v \in Session \ {s} : visit'[v] = visit[v]
      /\ \A r \in Request \ {s} : answer'[r] = answer[r]
      /\ visit[s].pc # "ended" /\ visit'[s].pc = "ended" /\ visit'[s].used = t
      /\ answer'[s] = "refused"
  BY <1>1, DismissMoves DEF Answers
<1>3. SentOff(s)
  BY <1>2 DEF SentOff
<1> QED
  BY <1>2, <1>3 DEF SessionStep, RowKept, TypeOK

LEMMA LoginStep ==
    ASSUME TypeOK, NEW s \in Session, NEW a \in Account, Login(s, a)
    PROVE  SessionStep(s)
BY AdmitStep, RefusedStep DEF Login

LEMMA SubjectTyped ==
    ASSUME TypeOK, NEW t \in Token
    PROVE  Subject(t) \in Account \cup Session
BY DEF TypeOK, Subject, Token, Account, Visit

LEMMA RefreshStep ==
    ASSUME TypeOK, NEW s \in Session, NEW t \in Token, Refresh(s, t),
           t \in Given => Subject(t) \in Account
    PROVE  SessionStep(s)
<1>1. CASE Visible(Subject(t)) /\ row[Subject(t)].hash = t
  <2>1. /\ Admit(s, Subject(t), t) /\ t \in Given /\ Subject(t) \in Account
        /\ row[Subject(t)].state # "absent"
        /\ UNCHANGED <<row, job, namer, clashed>> /\ Watch
    BY <1>1 DEF Refresh, Visible
  <2> QED
    BY <1>1, <2>1, AdmitStep
<1>2. CASE ~(Visible(Subject(t)) /\ row[Subject(t)].hash = t)
  BY <1>2, RefusedStep DEF Refresh
<1> QED
  BY <1>1, <1>2

LEMMA StoreStep ==
    ASSUME TypeOK, NEW s \in Session, Store(s), visit[s].id \in Account,
           row[visit[s].id].state # "absent"
    PROVE  SessionStep(s)
<1> DEFINE v == visit[s]
           a == v.id
           x == [row[a] EXCEPT !.hash = s]
           y == [v EXCEPT !.pc = "ended"]
<1>0. /\ v \in Visit /\ v.pc = "store" /\ row[a] \in Row /\ s \in Request /\ Watch
      /\ UNCHANGED <<job, namer, clashed>>
  BY DEF Store, TypeOK, Request
<1>1. Write(a, x) /\ visit' = [visit EXCEPT ![s] = y]
  BY DEF Store, TypeOK
<1>2. /\ x \in Row /\ x.state = row[a].state /\ x.name = row[a].name
      /\ x.writes = row[a].writes /\ x.hash = s
  BY <1>0 DEF Row, Token
<1>3. y \in Visit /\ y.pc = "ended" /\ y.id = a /\ y.used = v.used
  BY <1>0 DEF Visit
<1>4. /\ answer' \in [Request -> Answers] /\ answer'[s] \in {"ok", "lost"}
      /\ \A r \in Request \ {s} : answer'[r] = answer[r]
  BY <1>0 DEF Store, TypeOK, Answers
<1> HIDE DEF x, y
<1>5. /\ visit' \in [Session -> Visit] /\ visit'[s] = y
      /\ \A t \in Session \ {s} : visit'[t] = visit[t]
  BY <1>1, <1>3 DEF TypeOK
<1>6. /\ row' \in [Account -> Row] /\ \A c \in Account \ {a} : row'[c] = row[c]
      /\ row'[a].state = row[a].state /\ row'[a].name = row[a].name
      /\ row'[a].hash = s /\ row'[a].writes = row[a].writes + 1
  BY <1>1, <1>2, WriteMoves
<1>7. \A c \in Account : RowKept(c)
  BY <1>0, <1>6 DEF RowKept, Visible
<1>8. Signed(s)
  BY <1>0, <1>3, <1>4, <1>5, <1>6 DEF Signed
<1> QED
  BY <1>0, <1>4, <1>5, <1>6, <1>7, <1>8 DEF SessionStep

LEMMA LogoutStep ==
    ASSUME TypeOK, NEW s \in Session, NEW a \in Account, Logout(s, a)
    PROVE  SessionStep(s)
<1> DEFINE x == [row[a] EXCEPT !.hash = NoToken]
<1>0. /\ row[a] \in Row /\ row[a].state # "absent" /\ Watch
      /\ Write(a, x) /\ Dismiss(s, NoToken, "out") /\ UNCHANGED <<job, namer, clashed>>
  BY DEF Logout, TypeOK
<1>1. /\ x \in Row /\ x.state = row[a].state /\ x.name = row[a].name
      /\ x.writes = row[a].writes /\ x.hash = NoToken
  BY <1>0 DEF Row
<1> HIDE DEF x
<1>2. /\ visit' \in [Session -> Visit] /\ answer' \in [Request -> Answers]
      /\ \A v \in Session \ {s} : visit'[v] = visit[v]
      /\ \A r \in Request \ {s} : answer'[r] = answer[r]
      /\ visit[s].pc # "ended" /\ visit'[s].pc = "ended" /\ visit'[s].used = NoToken
      /\ answer'[s] = "out"
  BY <1>0, DismissMoves DEF Answers
<1>3. /\ row' \in [Account -> Row] /\ \A c \in Account \ {a} : row'[c] = row[c]
      /\ row'[a].state = row[a].state /\ row'[a].name = row[a].name
      /\ row'[a].hash = NoToken /\ row'[a].writes = row[a].writes + 1
  BY <1>0, <1>1, WriteMoves
<1>4. \A c \in Account : RowKept(c)
  BY <1>0, <1>3 DEF RowKept, Visible
<1>5. SentOff(s)
  BY <1>2, <1>3 DEF SentOff
<1> QED
  BY <1>0, <1>2, <1>3, <1>4, <1>5 DEF SessionStep

LEMMA CrashOfSession ==
    ASSUME TypeOK, NEW s \in Session, s \in Underway, answer[s] = "none",
           visit' = [visit EXCEPT ![s].pc = "ended"],
           UNCHANGED <<row, job, answer, namer, clashed>>, Watch
    PROVE  SessionStep(s)
<1> DEFINE y == [visit[s] EXCEPT !.pc = "ended"]
<1>0. visit[s] \in Visit /\ visit[s].pc = "store"
  BY AccountAssumption DEF TypeOK, Underway
<1>1. y \in Visit /\ y.pc = "ended" /\ y.used = visit[s].used
  BY <1>0 DEF Visit
<1>2. visit' = [visit EXCEPT ![s] = y]
  BY DEF TypeOK
<1> HIDE DEF y
<1>3. /\ visit' \in [Session -> Visit] /\ visit'[s] = y
      /\ \A t \in Session \ {s} : visit'[t] = visit[t]
  BY <1>1, <1>2 DEF TypeOK
<1>4. SentOff(s)
  BY <1>0, <1>1, <1>3 DEF SentOff
<1> QED
  BY <1>3, <1>4 DEF SessionStep, RowKept, TypeOK

-----------------------------------------------------------------------------
(* The structure of the table and the jobs *)

\* A token that was given belongs to a row, stays with it, and is presented for it.
Tokens ==
    /\ \A s \in Session :
           /\ answer[s] # "none" => visit[s].pc = "ended"
           /\ visit[s].pc = "store" => row[visit[s].id].state # "absent"
           /\ visit[s].pc = "store" \/ answer[s] \in {"ok", "lost"} => visit[s].id \in Account
           /\ visit[s].used # NoToken => visit[s].used \in Given
           /\ visit[s].pc = "store" \/ answer[s] \in {"ok", "lost"} =>
                  visit[s].used = NoToken \/ visit[s].id = Subject(visit[s].used)

LEMMA InitSound == Init => Sound /\ Meeting /\ Tokens
<1> SUFFICES ASSUME Init PROVE Sound /\ Meeting /\ Tokens
  OBVIOUS
<1>1. \A a \in Account :
         [state |-> IF a \in Existing THEN "live" ELSE "absent",
          name |-> IF a \in Existing THEN NameOf[a] ELSE NoName,
          writes |-> 0, hash |-> IF a \in Existing THEN a ELSE NoToken] \in Row
  BY AccountAssumption DEF Row, Token
<1>2. \A w \in Writer : [pc |-> "idle", id |-> w, name |-> NoName,
                         attempt |-> 1, seen |-> 0, from |-> 0] \in Job
  BY AccountAssumption DEF Job, Account
<1>3. \A s \in Session : [pc |-> "idle", id |-> s, used |-> NoToken] \in Visit
  BY DEF Visit
<1>4. TypeOK
  BY <1>1, <1>2, <1>3 DEF Init, TypeOK, Answers
<1>5. Grounded
  <2>1. \A a \in Account : row[a].state # "absent" => a \in Existing /\ row[a].name = NameOf[a]
    BY DEF Init
  <2>2. \A a \in Existing : NameOf[a] \in Name
    BY AccountAssumption
  <2>3. \A w \in Writer : /\ w \in Account /\ w \notin Existing /\ w \in Request
                         /\ job[w].pc = "idle" /\ job[w].id = w /\ job[w].attempt = 1
    BY AccountAssumption DEF Init, Account, Request
  <2>4. \A w \in Writer : row[w].state = "absent" /\ namer[w] = w /\ answer[w] = "none"
    BY <2>3 DEF Init
  <2> QED
    BY <2>1, <2>2, <2>3, <2>4 DEF Grounded
<1>6. \A w \in Writer : Read(w)
  BY DEF Init, Read
<1>7. Meeting
  BY DEF Init, Meeting, Underway
<1>8. Tokens
  <2>1. \A s \in Session : /\ visit[s].pc = "idle" /\ visit[s].used = NoToken
                          /\ answer[s] = "none"
    BY DEF Init, Request
  <2> QED
    BY <2>1 DEF Tokens
<1> QED
  BY <1>4, <1>5, <1>6, <1>7, <1>8 DEF Sound

LEMMA MeetingStep == ASSUME Watch PROVE Meeting'
BY DEF Watch, Meeting

LEMMA StepTypes ==
    ASSUME TypeOK, \/ \E w \in Writer : Step(w)
                   \/ \E s \in Session : SessionStep(s)
    PROVE  TypeOK'
<1>1. TypeOK /\ Watch
  BY DEF Step, SessionStep
<1>2. together' \subseteq SUBSET Request
  BY <1>1, WatchTyped
<1> QED
  BY <1>2 DEF Step, SessionStep, TypeOK

LEMMA StepGrounded ==
    ASSUME Sound, NEW w \in Writer, Step(w)
    PROVE  Grounded' /\ \A v \in Writer : Read(v)'
<1> DEFINE q == job[w]
           p == job'[w]
<1>0. /\ TypeOK /\ TypeOK' /\ Grounded /\ q \in Job /\ p \in Job /\ w \in Account
      /\ w \in Request
  BY StepTypes DEF Sound, TypeOK, Step, Account, Request
<1>1. ASSUME NEW a \in Account
      PROVE  /\ row'[a].state # "absent" => row'[a].name \in Name
             /\ row[a].state # "absent" => row'[a].state # "absent"
             /\ row'[a].writes >= row[a].writes
             /\ row'[a].writes = row[a].writes =>
                    row'[a] = row[a]
             /\ row'[a].state = "absent" => row'[a] = row[a] /\ namer'[a] = namer[a]
  <2>1. row[a] \in Row /\ row'[a] \in Row /\ row[a].writes \in Nat
    BY <1>0 DEF TypeOK, Row
  <2>2. RowKept(a) \/ RowNamed(w, a)
    BY DEF Step
  <2> QED
    BY <1>0, <2>1, <2>2 DEF RowKept, RowNamed, Grounded
<1>2. ASSUME NEW v \in Writer \ {w}, job[v].pc \in {"idle", "insert"}
      PROVE  row'[v] = row[v]
  <2>1. row[v].state = "absent" /\ v \in Account
    BY <1>0, <1>2 DEF Grounded, Account
  <2>2. ~RowNamed(w, v)
    <3> SUFFICES ASSUME RowNamed(w, v) PROVE FALSE
      OBVIOUS
    <3>1. q.pc = "insert" /\ v = q.id
      BY <2>1 DEF RowNamed, Visible
    <3> QED
      BY <1>0, <3>1 DEF Grounded
  <2> QED
    BY <2>1, <2>2 DEF Step, RowKept
<1>3. ASSUME NEW v \in Writer \ {w}
      PROVE  /\ row'[v].state = "absent" => namer'[v] = v
             /\ job'[v].pc \in {"idle", "insert"} =>
                    row'[v].state = "absent" /\ job'[v].id = v
             /\ job'[v].pc = "insert" => job'[v].name \in Name
             /\ job'[v].pc \in {"load", "write", "hide", "drop"} =>
                    row'[job'[v].id].state # "absent"
             /\ job'[v].pc = "idle" => job'[v].attempt = 1
             /\ job'[v].pc # "ended" => answer'[v] = "none"
             /\ Read(v)'
  <2>1. /\ job'[v] = job[v] /\ answer'[v] = answer[v] /\ v \in Account /\ v \in Request
        /\ job[v] \in Job /\ job[v].id \in Account
    BY <1>0 DEF Step, TypeOK, Job, Account, Request
  <2>2. Read(v)'
    <3> SUFFICES ASSUME job[v].pc = "write"
                 PROVE  /\ job[v].seen <= row'[job[v].id].writes
                        /\ row'[job[v].id].writes = job[v].seen => Visible(job[v].id)'
      BY <2>1 DEF Read
    <3> DEFINE a == job[v].id
    <3>1. /\ job[v].seen <= row[a].writes
          /\ row[a].writes = job[v].seen => row[a].state \in {"live", "hidden"}
      BY DEF Sound, Read, Visible
    <3>2. row[a].writes \in Nat /\ row'[a].writes \in Nat /\ job[v].seen \in Nat
      BY <1>0, <2>1 DEF TypeOK, Row, Job
    <3>3. /\ row'[a].writes >= row[a].writes
          /\ row'[a].writes = row[a].writes => row'[a] = row[a]
      BY <1>1, <2>1
    <3>4. /\ job[v].seen <= row'[a].writes
          /\ row'[a].writes = job[v].seen => row'[a].state \in {"live", "hidden"}
      BY <3>1, <3>2, <3>3
    <3> QED
      BY <2>1, <3>4 DEF Visible
  <2> QED
    BY <1>0, <1>1, <1>2, <2>1, <2>2 DEF Grounded
<1>4. /\ row'[w].state = "absent" => namer'[w] = w
      /\ p.pc \in {"idle", "insert"} => row'[w].state = "absent" /\ p.id = w
      /\ p.pc = "insert" => p.name \in Name
      /\ p.pc \in {"load", "write", "hide", "drop"} => row'[p.id].state # "absent"
      /\ p.pc = "idle" => p.attempt = 1
      /\ p.pc # "ended" => answer'[w] = "none"
      /\ Read(w)'
  <2>1. JobGoes(w)
    BY DEF Step
  <2>2. row'[w].state = "absent" => namer'[w] = w
    BY <1>0, <1>1 DEF Grounded
  <2>3. p.pc \in {"load", "write", "hide", "drop"} => row[p.id].state # "absent"
    BY <1>0, <2>1 DEF JobGoes, Grounded
  <2>4. p.pc \in {"load", "write", "hide", "drop"} => row'[p.id].state # "absent"
    BY <1>0, <1>1, <2>3 DEF Job
  <2>5. Read(w)'
    <3>1. p.pc = "write" => /\ p.seen = row'[p.id].writes /\ p.seen \in Nat
                            /\ row'[p.id].state \in {"live", "hidden"}
      BY <1>0, <2>1 DEF JobGoes, Still, Visible, Job
    <3> QED
      BY <3>1 DEF Read, Visible
  <2> QED
    BY <1>0, <2>1, <2>2, <2>4, <2>5 DEF JobGoes, Still, Grounded
<1>5. Grounded'
  <2>1. \A a \in Account : row'[a].state # "absent" => row'[a].name \in Name
    BY <1>1
  <2> QED
    BY <1>3, <1>4, <2>1 DEF Grounded
<1> QED
  BY <1>3, <1>4, <1>5

LEMMA SessionGrounded ==
    ASSUME Sound, NEW s \in Session, SessionStep(s)
    PROVE  Grounded' /\ \A v \in Writer : Read(v)'
<1>0. /\ TypeOK /\ TypeOK' /\ Grounded /\ job' = job /\ namer' = namer
      /\ \A v \in Writer : answer'[v] = answer[v]
  BY StepTypes, AccountAssumption DEF Sound, SessionStep, Request
<1>1. ASSUME NEW a \in Account
      PROVE  /\ row'[a].state # "absent" => row'[a].name \in Name
             /\ row[a].state # "absent" <=> row'[a].state # "absent"
             /\ row'[a].writes >= row[a].writes
             /\ row'[a].writes = row[a].writes => row'[a] = row[a]
  <2>1. row[a] \in Row /\ row'[a] \in Row /\ row[a].writes \in Nat
    BY <1>0 DEF TypeOK, Row
  <2>2. RowKept(a)
    BY DEF SessionStep
  <2> QED
    BY <1>0, <2>1, <2>2 DEF RowKept, Grounded
<1>2. ASSUME NEW v \in Writer
      PROVE  Read(v)'
  <2> SUFFICES ASSUME job[v].pc = "write"
               PROVE  /\ job[v].seen <= row'[job[v].id].writes
                      /\ row'[job[v].id].writes = job[v].seen => Visible(job[v].id)'
    BY <1>0 DEF Read
  <2> DEFINE a == job[v].id
  <2>1. /\ job[v].seen <= row[a].writes
        /\ row[a].writes = job[v].seen => row[a].state \in {"live", "hidden"}
    BY DEF Sound, Read, Visible
  <2>2. a \in Account /\ row[a].writes \in Nat /\ row'[a].writes \in Nat /\ job[v].seen \in Nat
    BY <1>0 DEF TypeOK, Row, Job
  <2>3. /\ row'[a].writes >= row[a].writes
        /\ row'[a].writes = row[a].writes => row'[a] = row[a]
    BY <1>1, <2>2
  <2>4. /\ job[v].seen <= row'[a].writes
        /\ row'[a].writes = job[v].seen => row'[a].state \in {"live", "hidden"}
    BY <2>1, <2>2, <2>3
  <2> QED
    BY <1>0, <2>4 DEF Visible
<1>3. Grounded'
  <2>1. \A v \in Writer : job[v] \in Job /\ job[v].id \in Account /\ v \in Account
    BY <1>0 DEF TypeOK, Job, Account
  <2> QED
    BY <1>0, <1>1, <2>1 DEF Grounded
<1> QED
  BY <1>2, <1>3

\* A row that is there stays there.
LEMMA RowsStay ==
    ASSUME TypeOK, NEW a \in Account, row[a].state # "absent",
           \/ \E w \in Writer : Step(w)
           \/ \E s \in Session : SessionStep(s)
    PROVE  row'[a].state # "absent"
BY DEF Step, SessionStep, RowKept, RowNamed

LEMMA StepTokens ==
    ASSUME Sound, Tokens, NEW w \in Writer, Step(w)
    PROVE  Tokens'
<1>1. TypeOK /\ visit' = visit
  BY DEF Sound, Step
<1>2. \A s \in Session : answer'[s] = answer[s]
  BY AccountAssumption DEF Step, Request
<1>3. Given' = Given
  BY <1>2 DEF Given
<1>4. \A s \in Session : visit[s].pc = "store" => row'[visit[s].id].state # "absent"
  BY <1>1, RowsStay DEF Tokens
<1>5. \A t : Subject(t)' = Subject(t)
  BY <1>1 DEF Subject
<1> QED
  BY <1>1, <1>2, <1>3, <1>4, <1>5 DEF Tokens, Subject

\* A given token stays given, to the same business.
LEMMA GivenStays ==
    ASSUME TypeOK, Tokens, NEW s \in Session, SessionStep(s), NEW t \in Given
    PROVE  t \in Given' /\ Subject(t)' = Subject(t) /\ (t \in Session => t # s)
<1>1. visit[s].pc # "ended"
  BY DEF SessionStep, LetIn, Signed, SentOff
<1>2. t \in Session => visit[t].pc = "ended" /\ t \in Request
  BY AccountAssumption DEF Given, Tokens, Request
<1>3. t \in Session => t # s /\ visit'[t] = visit[t] /\ answer'[t] = answer[t]
  BY <1>1, <1>2 DEF SessionStep
<1> QED
  BY <1>3, AccountAssumption DEF Given, Subject

LEMMA SessionTokens ==
    ASSUME Sound, Tokens, NEW s \in Session, SessionStep(s)
    PROVE  Tokens'
<1>0. TypeOK /\ TypeOK' /\ s \in Request /\ NoToken \notin Given /\ NoToken \notin Given'
  BY StepTypes, AccountAssumption DEF Sound, Request, Given, Token
<1>1. ASSUME NEW v \in Session \ {s}
      PROVE  /\ answer'[v] # "none" => visit'[v].pc = "ended"
             /\ visit'[v].pc = "store" => row'[visit'[v].id].state # "absent"
             /\ visit'[v].pc = "store" \/ answer'[v] \in {"ok", "lost"} =>
                    visit'[v].id \in Account
             /\ visit'[v].used # NoToken => visit'[v].used \in Given'
             /\ visit'[v].pc = "store" \/ answer'[v] \in {"ok", "lost"} =>
                    visit'[v].used = NoToken \/ visit'[v].id = Subject(visit[v].used)'
  <2>1. visit'[v] = visit[v] /\ answer'[v] = answer[v]
    BY DEF SessionStep, Request
  <2>2. visit[v].used # NoToken =>
            visit[v].used \in Given' /\ Subject(visit[v].used)' = Subject(visit[v].used)
    <3> SUFFICES ASSUME visit[v].used # NoToken
                 PROVE  /\ visit[v].used \in Given'
                        /\ Subject(visit[v].used)' = Subject(visit[v].used)
      OBVIOUS
    <3> DEFINE t == visit[v].used
    <3>1. t \in Given
      BY DEF Tokens
    <3>2. t \in Session => visit'[t] = visit[t]
      BY <1>0, <3>1, GivenStays, AccountAssumption DEF SessionStep
    <3>3. t \in Given'
      BY <1>0, <3>1, GivenStays
    <3> QED
      BY <2>1, <3>1, <3>2, <3>3 DEF Subject, Given
  <2>3. visit[v].pc = "store" => row'[visit[v].id].state # "absent"
    BY <1>0, RowsStay DEF Tokens
  <2> QED
    BY <2>1, <2>2, <2>3 DEF Tokens
<1>2. /\ answer'[s] # "none" => visit'[s].pc = "ended"
      /\ visit'[s].pc = "store" => row'[visit'[s].id].state # "absent"
      /\ visit'[s].pc = "store" \/ answer'[s] \in {"ok", "lost"} =>
             visit'[s].id \in Account
      /\ visit'[s].used # NoToken => visit'[s].used \in Given'
      /\ visit'[s].pc = "store" \/ answer'[s] \in {"ok", "lost"} =>
             visit'[s].used = NoToken \/ visit'[s].id = Subject(visit[s].used)'
  <2> DEFINE t == visit'[s].used
  <2>1. t \in Given \cup {NoToken}
    BY DEF SessionStep, LetIn, Signed, SentOff, Tokens
  <2>2. t # NoToken => /\ t \in Given' /\ (t \in Session => visit'[t] = visit[t])
                       /\ (t \notin Existing => t \in Session)
    <3> SUFFICES ASSUME t # NoToken
                 PROVE  /\ t \in Given' /\ (t \in Session => visit'[t] = visit[t])
                        /\ (t \notin Existing => t \in Session)
      OBVIOUS
    <3>1. t \in Given
      BY <2>1
    <3>2. PICK u \in Given : u = t
      BY <3>1
    <3>3. u \in Given' /\ (u \in Session => u # s)
      BY <1>0, GivenStays
    <3> QED
      BY <3>2, <3>3 DEF SessionStep, Given
  <2>3. t # NoToken => Subject(visit[s].used)' = Subject(t)
    BY <2>2 DEF Subject
  <2>4. CASE LetIn(s)
    BY <1>0, <2>2, <2>3, <2>4 DEF LetIn, Tokens
  <2>5. CASE Signed(s)
    BY <1>0, <2>2, <2>3, <2>5 DEF Signed, Tokens
  <2>6. CASE SentOff(s)
    BY <1>0, <2>2, <2>3, <2>6 DEF SentOff, Tokens
  <2> QED
    BY <2>4, <2>5, <2>6 DEF SessionStep
<1> QED
  BY <1>1, <1>2 DEF Tokens

-----------------------------------------------------------------------------
(* Names *)

\* A row that got a name like the one a request still has to write got it from a request
\* that was under way with this one: the check would have seen it otherwise.
LateOnlyIfRaced ==
    \A w \in Writer, c \in Account :
        (/\ job[w].pc \in {"insert", "load", "write"} /\ job[w].name # NoName
         /\ c # job[w].id /\ Visible(c) /\ Alike(row[c].name, job[w].name))
            => {w, namer[c]} \in together

LEMMA AlikeBoth == ASSUME NEW n, NEW k, Alike(n, k) PROVE Alike(k, n)
  BY DEF Alike

LEMMA CheckSeesAlike ==
    ASSUME NEW n \in Name, ~Taken(n), NEW c \in Account, Visible(c)
    PROVE  ~Alike(row[c].name, n)
  BY DEF Taken, Alike

LEMMA StepNames ==
    ASSUME Sound, Meeting, LateOnlyIfRaced, AlikeOnlyIfRaced, NEW w \in Writer, Step(w)
    PROVE  LateOnlyIfRaced' /\ AlikeOnlyIfRaced'
<1> DEFINE q == job[w]
           p == job'[w]
<1>0. /\ TypeOK /\ Grounded /\ together \subseteq together' /\ JobGoes(w)
      /\ q \in Job /\ p \in Job
  BY DEF Sound, TypeOK, Step, Watch
<1>1. ASSUME NEW a \in Account, Visible(a)', RowKept(a)
      PROVE  Visible(a) /\ row'[a].name = row[a].name /\ namer'[a] = namer[a]
  BY <1>1 DEF RowKept, Visible
<1>2. ASSUME NEW a \in Account, RowNamed(w, a)
      PROVE  /\ a = q.id /\ row'[a].name = q.name /\ namer'[a] = w
             /\ q.pc \in {"insert", "write"} /\ q.name # NoName /\ w \in Underway
  BY <1>2, AccountAssumption DEF RowNamed, Underway
<1>3. ASSUME NEW a \in Account, NEW c \in Account, a # c, Visible(a)', Visible(c)',
             Alike(row'[a].name, row'[c].name), RowKept(c)
      PROVE  {namer'[a], namer'[c]} \in together
  <2>1. CASE RowKept(a)
    BY <1>1, <1>3, <2>1 DEF AlikeOnlyIfRaced
  <2>2. CASE RowNamed(w, a)
    BY <1>1, <1>2, <1>3, <2>2, AlikeBoth DEF LateOnlyIfRaced
  <2> QED
    BY <2>1, <2>2 DEF Step
<1>4. AlikeOnlyIfRaced'
  <2> SUFFICES ASSUME NEW a \in Account, NEW c \in Account, a # c, Visible(a)', Visible(c)',
                      Alike(row'[a].name, row'[c].name)
               PROVE  {namer'[a], namer'[c]} \in together'
    BY DEF AlikeOnlyIfRaced
  <2>1. CASE RowKept(c)
    BY <1>0, <1>3, <2>1
  <2>2. CASE RowNamed(w, c)
    <3>1. RowKept(a)
      BY <1>2, <2>2 DEF Step
    <3>2. {namer'[c], namer'[a]} \in together
      BY <1>3, <3>1, AlikeBoth
    <3> QED
      BY <1>0, <3>2
  <2> QED
    BY <2>1, <2>2 DEF Step
<1>5. LateOnlyIfRaced'
  <2> SUFFICES ASSUME NEW v \in Writer, NEW c \in Account,
                      job'[v].pc \in {"insert", "load", "write"}, job'[v].name # NoName,
                      c # job'[v].id, Visible(c)', Alike(row'[c].name, job'[v].name)
               PROVE  {v, namer'[c]} \in together'
    BY DEF LateOnlyIfRaced
  <2>1. CASE v # w
    <3>1. job'[v] = job[v]
      BY <2>1 DEF Step
    <3>2. CASE RowKept(c)
      BY <1>0, <1>1, <3>1, <3>2 DEF LateOnlyIfRaced
    <3>3. CASE RowNamed(w, c)
      <4>1. v \in Underway
        BY <3>1 DEF Underway
      <4> QED
        BY <1>0, <1>2, <3>3, <4>1 DEF Meeting
    <3> QED
      BY <3>2, <3>3 DEF Step
  <2>2. CASE v = w
    <3>1. Still
      BY <1>0, <2>2 DEF JobGoes
    <3>2. Visible(c) /\ row'[c].name = row[c].name /\ namer'[c] = namer[c]
      BY <3>1 DEF Still, Visible
    <3>3. ~(p.name \in Name /\ ~Taken(p.name))
      BY <1>0, <2>2, <3>2, CheckSeesAlike
    <3>4. p.name \in Name
      BY <1>0, <2>2 DEF Job
    <3>5. /\ q.pc \in {"load", "write"} /\ p.id = q.id /\ p.name = q.name
      BY <1>0, <2>2, <3>3, <3>4 DEF JobGoes
    <3> QED
      BY <1>0, <2>2, <3>2, <3>5 DEF LateOnlyIfRaced
  <2> QED
    BY <2>1, <2>2
<1> QED
  BY <1>4, <1>5

LEMMA SessionNames ==
    ASSUME Sound, LateOnlyIfRaced, AlikeOnlyIfRaced, NEW s \in Session, SessionStep(s)
    PROVE  LateOnlyIfRaced' /\ AlikeOnlyIfRaced'
<1>1. job' = job /\ together \subseteq together'
  BY DEF SessionStep, Watch
<1>2. ASSUME NEW a \in Account, Visible(a)'
      PROVE  Visible(a) /\ row'[a].name = row[a].name /\ namer'[a] = namer[a]
  BY <1>2 DEF SessionStep, RowKept, Visible
<1> QED
  BY <1>1, <1>2 DEF LateOnlyIfRaced, AlikeOnlyIfRaced

-----------------------------------------------------------------------------
(* Conflicts *)

\* Every attempt that has failed found a write that came after the one it had read, unless
\* the name was refused.
Contended(w) ==
    LET q == job[w] IN
    /\ q.pc = "load" => \/ q.attempt = 1 \/ w \in clashed
                        \/ row[q.id].writes >= q.from + (q.attempt - 1)
    /\ q.pc = "write" => w \in clashed \/ q.seen >= q.from + (q.attempt - 1)

Fought(w) ==
    answer[w] = "conflict" =>
        w \in clashed \/ row[job[w].id].writes >= job[w].from + MaxRetries

\* Rows are written more and more often.
LEMMA WritesGrow ==
    ASSUME TypeOK, NEW a \in Account,
           \/ \E w \in Writer : Step(w)
           \/ \E s \in Session : SessionStep(s)
    PROVE  row[a].writes \in Nat /\ row'[a].writes \in Nat /\ row'[a].writes >= row[a].writes
<1>1. TypeOK'
  BY StepTypes
<1>2. row[a].writes \in Nat /\ row'[a].writes \in Nat
  BY <1>1 DEF TypeOK, Row
<1>3. row'[a] = row[a] \/ row'[a].writes = row[a].writes + 1
  BY DEF Step, SessionStep, RowKept, RowNamed
<1> QED
  BY <1>2, <1>3

\* A job that does not move stays as contended as it is.
LEMMA OthersContended ==
    ASSUME TypeOK, NEW v \in Writer, Contended(v), Fought(v),
           job'[v] = job[v], answer'[v] = answer[v], clashed \subseteq clashed',
           \/ \E w \in Writer : Step(w)
           \/ \E s \in Session : SessionStep(s)
    PROVE  Contended(v)' /\ Fought(v)'
<1> DEFINE q == job[v]
           a == q.id
<1>1. q \in Job /\ a \in Account /\ q.from \in Nat /\ q.attempt \in Nat /\ MaxRetries \in Nat
  BY AccountAssumption DEF TypeOK, Job
<1>2. row[a].writes \in Nat /\ row'[a].writes \in Nat /\ row'[a].writes >= row[a].writes
  BY <1>1, WritesGrow
<1> HIDE DEF a
<1>3. row[a].writes >= q.from + (q.attempt - 1) => row'[a].writes >= q.from + (q.attempt - 1)
  BY <1>1, <1>2
<1>4. row[a].writes >= q.from + MaxRetries => row'[a].writes >= q.from + MaxRetries
  BY <1>1, <1>2
<1> QED
  BY <1>3, <1>4 DEF Contended, Fought, a

LEMMA StepContended ==
    ASSUME Sound, NEW w \in Writer, Step(w), \A v \in Writer : Contended(v) /\ Fought(v)
    PROVE  \A v \in Writer : Contended(v)' /\ Fought(v)'
<1>0. TypeOK /\ clashed \subseteq clashed' /\ JobGoes(w)
  BY DEF Sound, Step
<1>1. ASSUME NEW v \in Writer \ {w}
      PROVE  Contended(v)' /\ Fought(v)'
  BY <1>0, OthersContended DEF Step, Request
<1>2. Contended(w)' /\ Fought(w)'
  <2> DEFINE q == job[w]
             p == job'[w]
             a == q.id
  <2>1. /\ q \in Job /\ p \in Job /\ a \in Account /\ q.from \in Nat /\ q.attempt \in Nat
        /\ q.seen \in Nat /\ MaxRetries \in Nat /\ row[a].writes \in Nat
        /\ q.pc = "write" => q.seen <= row[a].writes
    BY <1>0, AccountAssumption DEF Sound, Read, Step, TypeOK, Job, Row
  <2>2. (q.pc = "write" /\ Beaten(w)) =>
            w \in clashed' \/ row[a].writes >= q.from + q.attempt
    BY <1>0, <2>1 DEF Beaten, Contended
  <2>3. p.pc = "load" =>
            p.attempt = 1 \/ w \in clashed' \/ row'[p.id].writes >= p.from + (p.attempt - 1)
    BY <1>0, <2>1, <2>2 DEF JobGoes, Still, Sound, Grounded
  <2>4. p.pc = "write" => w \in clashed' \/ p.seen >= p.from + (p.attempt - 1)
    BY <1>0, <2>1 DEF JobGoes, Contended
  <2>5. answer'[w] = "conflict" =>
            w \in clashed' \/ row'[p.id].writes >= p.from + MaxRetries
    BY <1>0, <2>1, <2>2 DEF JobGoes, Still
  <2> QED
    BY <2>3, <2>4, <2>5 DEF Contended, Fought
<1> QED
  BY <1>1, <1>2

LEMMA SessionContended ==
    ASSUME Sound, NEW s \in Session, SessionStep(s), \A v \in Writer : Contended(v) /\ Fought(v)
    PROVE  \A v \in Writer : Contended(v)' /\ Fought(v)'
<1>1. /\ TypeOK /\ clashed \subseteq clashed' /\ job' = job
      /\ \A v \in Writer : answer'[v] = answer[v]
  BY AccountAssumption DEF Sound, SessionStep, Request
<1> QED
  BY <1>1, OthersContended

-----------------------------------------------------------------------------
(* Refresh tokens *)

\* The sessions that got new tokens for a refresh token.
Spenders == {s \in Session : answer[s] \in {"ok", "lost"} /\ visit[s].used # NoToken}

\* A token that was spent is no longer the one the row keeps, and who is about to store
\* a new one for it came while the spender was there.
SpentForGood ==
    \A s \in Spenders :
        /\ row[Subject(visit[s].used)].hash # visit[s].used
        /\ \A t \in Session : visit[t].pc = "store" /\ visit[t].used = visit[s].used =>
                                  {s, t} \in together

LEMMA StepSpent ==
    ASSUME Sound, Tokens, SpentForGood, TokensWorkOnce, NEW w \in Writer, Step(w)
    PROVE  SpentForGood' /\ TokensWorkOnce'
<1>1. /\ TypeOK /\ visit' = visit /\ together \subseteq together'
      /\ \A a \in Account : row'[a].hash = row[a].hash
  BY DEF Sound, Step, Watch
<1>2. \A s \in Session : answer'[s] = answer[s]
  BY AccountAssumption DEF Step, Request
<1>3. ASSUME NEW s \in Spenders
      PROVE  Subject(visit[s].used) \in Account /\ Subject(visit[s].used)' = Subject(visit[s].used)
  BY <1>1 DEF Spenders, Tokens, Subject
<1>4. Spenders' = Spenders
  BY <1>1, <1>2 DEF Spenders
<1>5. SpentForGood'
  <2> SUFFICES ASSUME NEW s \in Spenders
               PROVE  /\ row'[Subject(visit[s].used)].hash # visit[s].used
                      /\ \A t \in Session :
                            visit[t].pc = "store" /\ visit[t].used = visit[s].used =>
                                {s, t} \in together'
    BY <1>1, <1>3, <1>4 DEF SpentForGood
  <2> QED
    BY <1>1, <1>3 DEF SpentForGood
<1>6. TokensWorkOnce'
  BY <1>1, <1>2 DEF TokensWorkOnce
<1> QED
  BY <1>5, <1>6

LEMMA SessionSpent ==
    ASSUME Sound, Meeting, Tokens, SpentForGood, TokensWorkOnce,
           NEW s \in Session, SessionStep(s)
    PROVE  SpentForGood' /\ TokensWorkOnce'
<1>0. /\ TypeOK /\ TypeOK' /\ together \subseteq together' /\ Tokens'
      /\ NoToken \notin Session /\ s \in Request
  BY StepTypes, SessionTokens, AccountAssumption
     DEF Sound, SessionStep, Watch, Token, Request
<1>1. ASSUME NEW v \in Session \ {s}
      PROVE  visit'[v] = visit[v] /\ answer'[v] = answer[v]
  BY DEF SessionStep, Request
\* The token of a spender is a given one, of the business the spender was for.
<1>2. ASSUME NEW v \in Spenders
      PROVE  LET t == visit[v].used IN
             /\ v \in Session /\ v # s /\ visit'[v] = visit[v] /\ answer'[v] = answer[v]
             /\ t \in Given /\ Subject(t) \in Account /\ Subject(visit[v].used)' = Subject(t)
             /\ t # s \/ visit[s].pc # "store"
  <2>1. /\ v \in Session /\ answer[v] \in {"ok", "lost"} /\ visit[v].used # NoToken
        /\ visit[v].pc = "ended"
    BY DEF Spenders, Tokens
  <2>2. visit[s].pc # "ended"
    BY DEF SessionStep, LetIn, Signed, SentOff
  <2>3. v # s /\ visit'[v] = visit[v] /\ answer'[v] = answer[v]
    BY <1>1, <2>1, <2>2
  <2>4. visit[v].used \in Given /\ Subject(visit[v].used) \in Account
    BY <2>1 DEF Tokens
  <2>5. PICK t \in Given : t = visit[v].used
    BY <2>4
  <2>6. Subject(t)' = Subject(t) /\ (t \in Session => t # s)
    BY <1>0, GivenStays
  <2> QED
    BY <2>1, <2>3, <2>4, <2>5, <2>6 DEF Subject
<1>3. ASSUME NEW v \in Spenders, NEW t \in Session, t # s, visit[t].pc = "store",
             visit[t].used = visit[v].used
      PROVE  {v, t} \in together'
  BY <1>0, <1>3 DEF SpentForGood
\* A token that was spent is not the one that is kept after the step either.
<1>4. ASSUME NEW v \in Spenders
      PROVE  row'[Subject(visit[v].used)].hash # visit[v].used
  <2> DEFINE t == visit[v].used
             a == Subject(t)
  <2>1. row[a].hash # t /\ a \in Account /\ t # NoToken
    BY <1>2 DEF SpentForGood, Spenders
  <2>2. row'[a].hash \in {row[a].hash, NoToken} \/ (Signed(s) /\ row'[a].hash = s)
    BY <2>1 DEF SessionStep, LetIn, Signed, SentOff
  <2>3. Signed(s) => t # s
    BY <1>2 DEF Signed
  <2> QED
    BY <2>1, <2>2, <2>3
<1>5. CASE ~Signed(s)
  <2>1. Spenders' \subseteq Spenders
    BY <1>1, <1>5 DEF Spenders, SessionStep, LetIn, SentOff, Tokens
  <2>2. ASSUME NEW v \in Spenders, NEW t \in Session, visit'[t].pc = "store",
               visit'[t].used = visit[v].used
        PROVE  {v, t} \in together'
    <3>1. CASE t = s
      <4>1. LetIn(s) /\ visit'[s].used # NoToken
        BY <1>5, <2>2, <3>1 DEF SessionStep, SentOff, Spenders
      <4>2. row[Subject(visit'[s].used)].hash = visit'[s].used
        BY <4>1 DEF LetIn
      <4> QED
        BY <2>2, <3>1, <4>2 DEF SpentForGood
    <3>2. CASE t # s
      BY <1>1, <1>3, <2>2, <3>2
    <3> QED
      BY <3>1, <3>2
  <2>3. SpentForGood'
    <3> SUFFICES ASSUME NEW v \in Spenders
                 PROVE  /\ row'[Subject(visit[v].used)'].hash # visit'[v].used
                        /\ \A t \in Session :
                              visit'[t].pc = "store" /\ visit'[t].used = visit'[v].used =>
                                  {v, t} \in together'
      BY <2>1 DEF SpentForGood
    <3> QED
      BY <1>2, <1>4, <2>2
  <2>4. TokensWorkOnce'
    <3> SUFFICES ASSUME NEW v \in Spenders, NEW t \in Spenders, v # t,
                        visit'[v].used = visit'[t].used
                 PROVE  {v, t} \in together'
      BY <2>1 DEF TokensWorkOnce, Spenders
    <3> QED
      BY <1>0, <1>2 DEF TokensWorkOnce, Spenders
  <2> QED
    BY <2>3, <2>4
<1>6. CASE Signed(s)
  <2>0. /\ visit[s].pc = "store" /\ visit'[s].pc = "ended" /\ visit'[s].used = visit[s].used
        /\ visit'[s].id = visit[s].id /\ visit[s].id \in Account /\ row'[visit[s].id].hash = s
        /\ s \in Underway /\ answer'[s] \in {"ok", "lost"}
    BY <1>6 DEF Signed, Tokens, Underway
  <2>1. Spenders' \subseteq Spenders \cup {s}
    BY <1>1 DEF Spenders
  <2>2. visit[s].used # NoToken =>
            /\ Subject(visit[s].used)' = visit[s].id /\ visit[s].used # s
    <3> SUFFICES ASSUME visit[s].used # NoToken
                 PROVE  Subject(visit[s].used)' = visit[s].id /\ visit[s].used # s
      OBVIOUS
    <3>1. visit[s].used \in Given
      BY DEF Tokens
    <3>2. PICK t \in Given : t = visit[s].used
      BY <3>1
    <3>3. t \in Session => t # s
      BY <1>0, GivenStays
    <3>4. Subject(visit[s].used)' = visit'[s].id
      BY <1>0, <2>0 DEF Tokens
    <3> QED
      BY <2>0, <3>2, <3>3, <3>4
  <2>3. ASSUME NEW v \in Session \ {s}, visit[v].pc = "store", visit[v].used = visit[s].used
        PROVE  {s, v} \in together'
    BY <1>0, <2>0, <2>3 DEF Meeting, Underway
  <2>4. ASSUME NEW v \in Spenders, visit[v].used = visit[s].used
        PROVE  {s, v} \in together' /\ {v, s} \in together'
    <3>1. {v, s} \in together
      BY <2>0, <2>4 DEF SpentForGood
    <3>2. {v, s} = {s, v}
      OBVIOUS
    <3> QED
      BY <1>0, <3>1, <3>2
  <2>5. SpentForGood'
    <3> SUFFICES ASSUME NEW v \in Spenders \cup {s}, visit'[v].used # NoToken
                 PROVE  /\ row'[Subject(visit[v].used)'].hash # visit'[v].used
                        /\ \A t \in Session :
                              visit'[t].pc = "store" /\ visit'[t].used = visit'[v].used =>
                                  {v, t} \in together'
      BY <2>1 DEF SpentForGood, Spenders
    <3>1. CASE v = s
      BY <1>1, <2>0, <2>2, <2>3, <3>1
    <3>2. CASE v \in Spenders
      BY <1>1, <1>2, <1>3, <1>4, <2>0, <3>2
    <3> QED
      BY <3>1, <3>2
  <2>6. TokensWorkOnce'
    <3> SUFFICES ASSUME NEW v \in Spenders \cup {s}, NEW t \in Spenders \cup {s}, v # t,
                        visit'[v].used = visit'[t].used
                 PROVE  {v, t} \in together'
      BY <2>1 DEF TokensWorkOnce, Spenders
    <3>1. CASE v \in Spenders /\ t \in Spenders
      BY <1>0, <1>2, <3>1 DEF TokensWorkOnce, Spenders
    <3>2. CASE v = s \/ t = s
      BY <1>2, <2>0, <2>4, <3>2
    <3> QED
      BY <3>1, <3>2
  <2> QED
    BY <2>5, <2>6
<1> QED
  BY <1>5, <1>6

-----------------------------------------------------------------------------
(* The theorem *)

IInv ==
    /\ Sound /\ Meeting /\ Tokens
    /\ LateOnlyIfRaced /\ AlikeOnlyIfRaced
    /\ \A w \in Writer : Contended(w) /\ Fought(w)
    /\ SpentForGood /\ TokensWorkOnce

LEMMA InitIInv == Init => IInv
<1> SUFFICES ASSUME Init PROVE IInv
  OBVIOUS
<1>1. Sound /\ Meeting /\ Tokens
  BY InitSound
<1>2. LateOnlyIfRaced
  BY DEF Init, LateOnlyIfRaced
<1>3. AlikeOnlyIfRaced
  <2>1. \A a \in Account : Visible(a) => a \in Existing /\ row[a].name = NameOf[a]
    BY DEF Init, Visible
  <2> QED
    BY <2>1, AccountAssumption DEF AlikeOnlyIfRaced
<1>4. \A r \in Request : answer[r] = "none"
  BY DEF Init
<1>5. \A w \in Writer : Contended(w) /\ Fought(w)
  BY <1>4 DEF Init, Contended, Fought, Request
<1>6. SpentForGood /\ TokensWorkOnce
  BY <1>4 DEF SpentForGood, Spenders, TokensWorkOnce, Request
<1> QED
  BY <1>1, <1>2, <1>3, <1>5, <1>6 DEF IInv

\* Every step is one of a request.
LEMMA NextSteps ==
    ASSUME Sound, Tokens, Next
    PROVE  (\E w \in Writer : Step(w)) \/ (\E s \in Session : SessionStep(s))
<1>0. TypeOK
  BY DEF Sound
<1>1. ASSUME NEW w \in Writer,
             \/ \E n \in Name : Create(w, n)
             \/ \E a \in Account, n \in Name \cup {NoName} : BeginUpdate(w, a, n)
             \/ \E a \in Account : BeginRemove(w, a)
             \/ Insert(w) \/ Load(w) \/ Update(w) \/ Hide(w) \/ Drop(w)
      PROVE  Step(w)
  BY <1>1, CreateStep, BeginUpdateStep, BeginRemoveStep, InsertStep, LoadStep, UpdateStep,
     RemoveSteps
<1>2. ASSUME NEW s \in Session, \E a \in Account : Login(s, a) \/ Logout(s, a)
      PROVE  SessionStep(s)
  BY <1>0, <1>2, LoginStep, LogoutStep
<1>3. ASSUME NEW s \in Session, NEW t \in Token, Refresh(s, t)
      PROVE  SessionStep(s)
  <2>1. t \in Given => Subject(t) \in Account
    BY DEF Given, Subject, Account, Tokens
  <2> QED
    BY <1>0, <1>3, <2>1, RefreshStep
<1>4. ASSUME NEW s \in Session, Store(s)
      PROVE  SessionStep(s)
  BY <1>0, <1>4, StoreStep DEF Tokens, Store
<1>5. ASSUME NEW r \in Request, Crash(r)
      PROVE  (\E w \in Writer : Step(w)) \/ (\E s \in Session : SessionStep(s))
  <2>1. CASE r \in Writer /\ job' = [job EXCEPT ![r].pc = "ended"] /\ UNCHANGED visit
    BY <1>5, <2>1, CrashOfWriter DEF Crash
  <2>2. CASE r \in Session /\ visit' = [visit EXCEPT ![r].pc = "ended"] /\ UNCHANGED job
    <3>1. visit[r].pc = "store"
      BY <1>5, <2>2, AccountAssumption DEF Crash, Underway
    <3>2. answer[r] = "none"
      BY <2>2, <3>1 DEF Tokens
    <3> QED
      BY <1>0, <1>5, <2>2, <3>2, CrashOfSession DEF Crash
  <2> QED
    BY <1>5, <2>1, <2>2 DEF Crash
<1> QED
  BY <1>1, <1>2, <1>3, <1>4, <1>5 DEF Next

LEMMA NextIInv == IInv /\ [Next]_vars => IInv'
<1> SUFFICES ASSUME IInv, [Next]_vars PROVE IInv'
  OBVIOUS
<1>1. CASE UNCHANGED vars
  BY <1>1 DEF vars, history, IInv, Sound, TypeOK, Grounded, Read, Visible, Meeting, Underway,
     Tokens, Given, Subject, LateOnlyIfRaced, AlikeOnlyIfRaced, Contended, Fought,
     SpentForGood, Spenders, TokensWorkOnce
<1>2. ASSUME NEW w \in Writer, Step(w)
      PROVE  IInv'
  <2>1. TypeOK' /\ Grounded' /\ \A v \in Writer : Read(v)'
    BY <1>2, StepTypes, StepGrounded DEF IInv, Sound
  <2>2. Meeting' /\ Tokens'
    BY <1>2, MeetingStep, StepTokens DEF IInv, Step
  <2>3. LateOnlyIfRaced' /\ AlikeOnlyIfRaced'
    BY <1>2, StepNames DEF IInv
  <2>4. \A v \in Writer : Contended(v)' /\ Fought(v)'
    BY <1>2, StepContended DEF IInv
  <2>5. SpentForGood' /\ TokensWorkOnce'
    BY <1>2, StepSpent DEF IInv
  <2> QED
    BY <2>1, <2>2, <2>3, <2>4, <2>5 DEF IInv, Sound
<1>3. ASSUME NEW s \in Session, SessionStep(s)
      PROVE  IInv'
  <2>1. TypeOK' /\ Grounded' /\ \A v \in Writer : Read(v)'
    BY <1>3, StepTypes, SessionGrounded DEF IInv, Sound
  <2>2. Meeting' /\ Tokens'
    BY <1>3, MeetingStep, SessionTokens DEF IInv, SessionStep
  <2>3. LateOnlyIfRaced' /\ AlikeOnlyIfRaced'
    BY <1>3, SessionNames DEF IInv
  <2>4. \A v \in Writer : Contended(v)' /\ Fought(v)'
    BY <1>3, SessionContended DEF IInv
  <2>5. SpentForGood' /\ TokensWorkOnce'
    BY <1>3, SessionSpent DEF IInv
  <2> QED
    BY <2>1, <2>2, <2>3, <2>4, <2>5 DEF IInv, Sound
<1> QED
  BY <1>1, <1>2, <1>3, NextSteps DEF IInv

LEMMA Invariance == Spec => []IInv
<1> QED
  BY InitIInv, NextIInv, PTL DEF Spec

\* Every reachable state is well typed.
THEOREM Typing == Spec => []TypeOK
<1>1. IInv => TypeOK
  BY DEF IInv, Sound
<1> QED
  BY <1>1, Invariance, PTL

\* Two businesses that can be seen have names that find each other, as names that differ only
\* in case do unless there is a backslash in them, only if the requests that gave them the
\* names raced.  Nothing is assumed of what a pattern finds.
THEOREM NamesDifferUnlessRaced == Spec => []AlikeOnlyIfRaced
<1>1. IInv => AlikeOnlyIfRaced
  BY DEF IInv
<1> QED
  BY <1>1, Invariance, PTL

\* An update gives up with a conflict only after as many writes by others as it made
\* attempts, or after the index has refused its name.
THEOREM ConflictsHaveCauses == Spec => []ConflictMeansContention
<1>1. IInv => ConflictMeansContention
  BY DEF IInv, Fought, ConflictMeansContention
<1> QED
  BY <1>1, Invariance, PTL

\* No two sessions that did not overlap got new tokens for one refresh token.
THEOREM RefreshTokensWorkOnce == Spec => []TokensWorkOnce
<1>1. IInv => TokensWorkOnce
  BY DEF IInv
<1> QED
  BY <1>1, Invariance, PTL

=============================================================================
