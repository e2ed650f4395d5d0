-------------------------- MODULE CallPipelineProofs --------------------------
(***************************************************************************)
(* Theorems about one call: the webhooks alone (CallWebhooks), for any     *)
(* number of handlers and of repeated webhooks; the queue job alone        *)
(* (RecordingWorkflow), for any number of attempts; and both processes on  *)
(* one row (CallPipeline).  Whatever faults there are.                     *)
(***************************************************************************)
EXTENDS CallPipeline, TLAPS

-----------------------------------------------------------------------------
(* Merging into a row *)

Columns == {"status", "result", "department", "scored", "url", "key", "text"}

LEMMA RowColumns == ASSUME NEW e \in Row PROVE DOMAIN e = Columns
  BY DEF Row, Columns

\* A patched row, column by column.
LEMMA MergedColumns ==
    ASSUME NEW e \in Row, NEW p, NEW x, x = [c \in Columns |-> x[c]],
           \A c \in Columns : x[c] = IF c \in DOMAIN p THEN p[c] ELSE e[c]
    PROVE  Merge(e, p) = x
<1>1. Merge(e, p) = [c \in Columns |-> IF c \in DOMAIN p THEN p[c] ELSE e[c]]
  BY RowColumns DEF Merge
<1> QED
  BY <1>1

-----------------------------------------------------------------------------
(* What the webhooks save *)

\* What the three webhooks that update the row save.
LEMMA CompletedRow ==
    ASSUME NEW e \in Row
    PROVE  Merge(e, Patch("completed")) = [e EXCEPT !.status = "completed"]
<1> DEFINE p == Patch("completed")
           x == [e EXCEPT !.status = "completed"]
<1>1. DOMAIN p = {"status"} /\ p["status"] = "completed"
  BY DEF Patch
<1>2. /\ x = [c \in Columns |-> x[c]]
      /\ \A c \in Columns : x[c] = IF c = "status" THEN "completed" ELSE e[c]
  BY RowColumns DEF Columns, Row
<1> HIDE DEF p, x
<1>3. \A c \in Columns : x[c] = IF c \in DOMAIN p THEN p[c] ELSE e[c]
  BY <1>1, <1>2
<1>4. Merge(e, p) = x
  BY <1>2, <1>3, MergedColumns
<1> QED
  BY <1>4 DEF p, x

LEMMA MissedRow ==
    ASSUME NEW e \in Row
    PROVE  Merge(e, Patch("missed"))
             = [e EXCEPT !.status = "missed", !.result = "not_connected"]
<1> DEFINE p == Patch("missed")
           x == [e EXCEPT !.status = "missed", !.result = "not_connected"]
<1>1. /\ DOMAIN p = {"status", "result"}
      /\ p["status"] = "missed" /\ p["result"] = "not_connected"
  BY DEF Patch
<1>2. /\ x = [c \in Columns |-> x[c]]
      /\ \A c \in Columns : x[c] = CASE c = "status" -> "missed"
                                     [] c = "result" -> "not_connected"
                                     [] OTHER        -> e[c]
  BY RowColumns DEF Columns, Row
<1> HIDE DEF p, x
<1>3. \A c \in Columns : x[c] = IF c \in DOMAIN p THEN p[c] ELSE e[c]
  BY <1>1, <1>2 DEF Columns
<1>4. Merge(e, p) = x
  BY <1>2, <1>3, MergedColumns
<1> QED
  BY <1>4 DEF p, x

LEMMA RecordedRow ==
    ASSUME NEW e \in Row
    PROVE  Merge(e, Patch("recording")) = [e EXCEPT !.url = TRUE]
<1> DEFINE p == Patch("recording")
           x == [e EXCEPT !.url = TRUE]
<1>1. DOMAIN p = {"url"} /\ p["url"] = TRUE
  BY DEF Patch
<1>2. /\ x = [c \in Columns |-> x[c]]
      /\ \A c \in Columns : x[c] = IF c = "url" THEN TRUE ELSE e[c]
  BY RowColumns DEF Columns, Row
<1> HIDE DEF p, x
<1>3. \A c \in Columns : x[c] = IF c \in DOMAIN p THEN p[c] ELSE e[c]
  BY <1>1, <1>2
<1>4. Merge(e, p) = x
  BY <1>2, <1>3, MergedColumns
<1> QED
  BY <1>4 DEF p, x

\* What a saved row is, column by column.
LEMMA SavedRow ==
    ASSUME NEW e \in Row, NEW k \in {"completed", "missed", "recording"}
    PROVE  LET m == Merge(e, Patch(k)) IN
           /\ m \in Row
           /\ m.status = IF k = "recording" THEN e.status ELSE k
           /\ m.result = IF k = "missed" THEN "not_connected" ELSE e.result
           /\ m.url = (e.url \/ k = "recording")
           /\ m.key = e.key /\ m.text = e.text /\ m.scored = e.scored
           /\ m.department = e.department
<1>1. CASE k = "completed"
  BY <1>1, CompletedRow DEF Row
<1>2. CASE k = "missed"
  <2> DEFINE x == [e EXCEPT !.status = "missed", !.result = "not_connected"]
  <2>1. /\ x \in Row /\ x.status = "missed" /\ x.result = "not_connected"
        /\ x.url = e.url /\ x.key = e.key /\ x.text = e.text /\ x.scored = e.scored
        /\ x.department = e.department
    BY DEF Row
  <2>2. Merge(e, Patch(k)) = x
    BY <1>2, MissedRow
  <2> HIDE DEF x
  <2>3. e.url \in BOOLEAN
    BY DEF Row
  <2> QED
    BY <1>2, <2>1, <2>2, <2>3
<1>3. CASE k = "recording"
  <2> DEFINE x == [e EXCEPT !.url = TRUE]
  <2>1. /\ x \in Row /\ x.status = e.status /\ x.result = e.result
        /\ x.url = TRUE /\ x.key = e.key /\ x.text = e.text /\ x.scored = e.scored
        /\ x.department = e.department
    BY DEF Row
  <2>2. Merge(e, Patch(k)) = x
    BY <1>3, RecordedRow
  <2> HIDE DEF x
  <2> QED
    BY <1>3, <2>1, <2>2
<1> QED
  BY <1>1, <1>2, <1>3

-----------------------------------------------------------------------------
(* Types *)

\* Which webhooks get where, and what a handler has when it gets there.
Placed ==
    \A h \in Handler :
        /\ hs[h].pc \in {"check", "insert", "answer"} => hs[h].hook = "voice"
        /\ hs[h].pc \in {"save", "rollup"} =>
               hs[h].hook # "voice" /\ hs[h].entity \in Row /\ log \in Row
        /\ hs[h].pc = "rollup" => hs[h].todo # {} /\ hs[h].todo \subseteq Rollups(hs[h].hook)

Sound == TypeOK /\ Placed

LEMMA IdleTyped == Idle \in HandlerState /\ Idle.pc = "idle"
  BY DEF Idle, HandlerState, Hook

LEMMA InitSound == Init => Sound
<1> SUFFICES ASSUME Init PROVE Sound
  OBVIOUS
<1>1. sent \in [Hook -> 0..MaxSend]
  BY SendAssumption DEF Init
<1>2. hs \in [Handler -> HandlerState] /\ \A h \in Handler : hs[h].pc = "idle"
  BY IdleTyped DEF Init
<1> QED
  BY <1>1, <1>2 DEF Init, Sound, TypeOK, Placed, LogTypeOK

\* A handler is idle again, or goes on.
LEMMA DoneHandler ==
    ASSUME TypeOK, NEW h \in Handler, Done(h)
    PROVE  /\ hs' \in [Handler -> HandlerState] /\ hs'[h].pc = "idle"
           /\ \A g \in Handler \ {h} : hs'[g] = hs[g]
  BY IdleTyped DEF Done, TypeOK

LEMMA StepHandler ==
    ASSUME TypeOK, NEW h \in Handler, NEW next \in {"check", "insert", "answer"}, Step(h, next)
    PROVE  /\ hs' \in [Handler -> HandlerState]
           /\ hs'[h].pc = next /\ hs'[h].hook = hs[h].hook
           /\ \A g \in Handler \ {h} : hs'[g] = hs[g]
<1>0. hs[h] \in HandlerState
  BY DEF TypeOK
<1>1. [hs[h] EXCEPT !.pc = next] \in HandlerState
  BY <1>0 DEF HandlerState
<1>2. hs'[h] = [hs[h] EXCEPT !.pc = next]
  BY DEF Step, TypeOK
<1>3. hs'[h].pc = next /\ hs'[h].hook = hs[h].hook
  BY <1>0, <1>2 DEF HandlerState
<1> QED
  BY <1>1, <1>3 DEF Step, TypeOK

LEMMA DeliverHandler ==
    ASSUME TypeOK, NEW h \in Handler, NEW k \in Hook, Deliver(h, k)
    PROVE  /\ hs' \in [Handler -> HandlerState] /\ hs'[h].pc = "start" /\ hs'[h].hook = k
           /\ \A g \in Handler \ {h} : hs'[g] = hs[g]
<1> DEFINE s == [Idle EXCEPT !.pc = "start", !.hook = k]
<1>1. s \in HandlerState /\ s.pc = "start" /\ s.hook = k
  BY IdleTyped DEF HandlerState
<1>2. hs' = [hs EXCEPT ![h] = s]
  BY DEF Deliver
<1> HIDE DEF s
<1> QED
  BY <1>1, <1>2 DEF TypeOK

LEMMA ReadHandler ==
    ASSUME TypeOK, NEW h \in Handler, ReadLog(h)
    PROVE  /\ log \in Row
           /\ hs' \in [Handler -> HandlerState]
           /\ hs'[h].pc = "save" /\ hs'[h].hook = hs[h].hook /\ hs'[h].entity = log
           /\ \A g \in Handler \ {h} : hs'[g] = hs[g]
<1> DEFINE s == [hs[h] EXCEPT !.pc = "save", !.entity = log]
<1>1. log \in Row /\ hs[h] \in HandlerState
  BY DEF ReadLog, TypeOK, LogTypeOK
<1>2. s \in HandlerState /\ s.pc = "save" /\ s.hook = hs[h].hook /\ s.entity = log
  BY <1>1 DEF HandlerState
<1>3. hs' = [hs EXCEPT ![h] = s]
  BY DEF ReadLog
<1> HIDE DEF s
<1> QED
  BY <1>1, <1>2, <1>3 DEF TypeOK

LEMMA SaveHandler ==
    ASSUME Sound, NEW h \in Handler, SaveLog(h)
    PROVE  /\ hs[h].hook \in {"completed", "missed", "recording"} /\ hs[h].entity \in Row
           /\ log' = Merge(hs[h].entity, Patch(hs[h].hook)) /\ log' \in Row
           /\ hs' \in [Handler -> HandlerState]
           /\ \/ hs'[h].pc = "idle"
              \/ /\ hs'[h].pc = "rollup" /\ hs'[h].hook = hs[h].hook /\ hs'[h].entity \in Row
                 /\ hs'[h].todo = Rollups(hs[h].hook) /\ hs'[h].todo # {}
           /\ \A g \in Handler \ {h} : hs'[g] = hs[g]
<1> USE DEF Sound
<1> DEFINE k == hs[h].hook
           m == Merge(hs[h].entity, Patch(k))
           s == [pc |-> "rollup", hook |-> k, entity |-> m, todo |-> Rollups(k)]
<1>1. k \in {"completed", "missed", "recording"} /\ hs[h].entity \in Row
  BY DEF SaveLog, Placed, TypeOK, HandlerState, Hook
<1>2. m \in Row
  BY <1>1, SavedRow
<1>3. log' = m /\ hs' = [hs EXCEPT ![h] = IF Rollups(k) = {} THEN Idle ELSE s]
  BY DEF SaveLog
<1> HIDE DEF m
<1>4. s \in HandlerState
  BY <1>1, <1>2 DEF HandlerState, Hook, Rollups
<1>5. s.pc = "rollup" /\ s.hook = k /\ s.entity \in Row /\ s.todo = Rollups(k)
  BY <1>2
<1> HIDE DEF s, k
<1>6. hs' \in [Handler -> HandlerState] /\ \A g \in Handler \ {h} : hs'[g] = hs[g]
  BY <1>3, <1>4, IdleTyped DEF TypeOK
<1>7. hs'[h].pc = "idle" \/ (hs'[h] = s /\ Rollups(k) # {})
  BY <1>3, IdleTyped DEF TypeOK
<1> QED
  BY <1>1, <1>2, <1>3, <1>5, <1>6, <1>7 DEF m, k

LEMMA RollupHandler ==
    ASSUME TypeOK, NEW h \in Handler, NEW table \in {"volume", "kpi"}, Rollup(h, table)
    PROVE  /\ hs' \in [Handler -> HandlerState]
           /\ \/ hs'[h].pc = "idle"
              \/ /\ hs'[h].pc = "rollup" /\ hs'[h].hook = hs[h].hook
                 /\ hs'[h].entity = hs[h].entity
                 /\ hs'[h].todo = hs[h].todo \ {table} /\ hs'[h].todo # {}
           /\ \A g \in Handler \ {h} : hs'[g] = hs[g]
<1> DEFINE s == [hs[h] EXCEPT !.todo = hs[h].todo \ {table}]
<1>0. hs[h] \in HandlerState /\ hs[h].pc = "rollup" /\ table \in hs[h].todo
  BY DEF TypeOK, Rollup
<1>1. /\ s \in HandlerState /\ s.pc = "rollup" /\ s.hook = hs[h].hook
      /\ s.entity = hs[h].entity /\ s.todo = hs[h].todo \ {table}
  BY <1>0 DEF HandlerState
<1>2. hs' = [hs EXCEPT ![h] = IF hs[h].todo = {table} THEN Idle ELSE s]
  BY DEF Rollup
<1> HIDE DEF s
<1>3. hs' \in [Handler -> HandlerState] /\ \A g \in Handler \ {h} : hs'[g] = hs[g]
  BY <1>1, <1>2, IdleTyped DEF TypeOK
<1>4. hs'[h].pc = "idle" \/ (hs[h].todo # {table} /\ hs'[h] = s)
  BY <1>2, IdleTyped DEF TypeOK
<1> QED
  BY <1>0, <1>1, <1>3, <1>4

\* Twilio's view stays one of a call.
LEMMA HearsTyped ==
    ASSUME TypeOK, NEW next \in {"ringing", "talking", "over"},
           NEW f \in {"none", "completed", "missed"}, TwilioHears(next, f)
    PROVE  /\ call' \in {"ringing", "talking", "over"}
           /\ final' \in {"none", "completed", "missed"}
  BY DEF TypeOK, TwilioHears

LEMMA DeliverSound ==
    ASSUME Sound, NEW h \in Handler, NEW k \in Hook, Deliver(h, k)
    PROVE  Sound'
<1>1. sent[k] + 1 \in 0..MaxSend
  BY SendAssumption DEF Deliver, Sound, TypeOK
<1>2. sent' \in [Hook -> 0..MaxSend]
  BY <1>1 DEF Deliver, Sound, TypeOK
<1> QED
  BY <1>2, DeliverHandler DEF Deliver, Sound, TypeOK, Placed, LogTypeOK, replyVars

LEMMA VoiceSound ==
    ASSUME Sound, NEW h \in Handler,
           \/ VoiceRouted(h) \/ VoiceUnrouted(h) \/ VoiceCheck(h)
           \/ VoiceInsert(h) \/ VoiceAnswer(h) \/ VoiceInsertFails(h)
    PROVE  Sound'
<1> USE DEF Sound
<1>1. CASE VoiceRouted(h)
  <2>1. /\ hs' \in [Handler -> HandlerState] /\ hs'[h].pc = "check" /\ hs'[h].hook = "voice"
        /\ \A g \in Handler \ {h} : hs'[g] = hs[g]
    BY <1>1, StepHandler DEF VoiceRouted
  <2> QED
    BY <1>1, <2>1 DEF VoiceRouted, TypeOK, LogTypeOK, Placed, twilioVars, replyVars
<1>2. CASE VoiceUnrouted(h)
  <2>1. /\ hs' \in [Handler -> HandlerState] /\ hs'[h].pc = "idle"
        /\ \A g \in Handler \ {h} : hs'[g] = hs[g]
    BY <1>2, DoneHandler DEF VoiceUnrouted
  <2>2. /\ call' \in {"ringing", "talking", "over"}
        /\ final' \in {"none", "completed", "missed"}
    BY <1>2, HearsTyped DEF VoiceUnrouted
  <2> QED
    BY <1>2, <2>1, <2>2 DEF VoiceUnrouted, TypeOK, LogTypeOK, Placed, replyVars
<1>3. ASSUME Decline(h), mishaps' \subseteq MishapKinds PROVE Sound'
  <2>1. /\ hs' \in [Handler -> HandlerState] /\ hs'[h].pc = "idle"
        /\ \A g \in Handler \ {h} : hs'[g] = hs[g]
    BY <1>3, DoneHandler DEF Decline
  <2>2. /\ call' \in {"ringing", "talking", "over"}
        /\ final' \in {"none", "completed", "missed"}
    BY <1>3, HearsTyped DEF Decline
  <2> QED
    BY <1>3, <2>1, <2>2 DEF Decline, TypeOK, LogTypeOK, Placed
<1>4. CASE VoiceCheck(h)
  <2>1. CASE log # NoLog
    BY <1>3, <1>4, <2>1 DEF VoiceCheck, TypeOK
  <2>2. CASE log = NoLog
    <3>1. /\ hs' \in [Handler -> HandlerState]
          /\ hs'[h].pc = "insert" /\ hs'[h].hook = hs[h].hook
          /\ \A g \in Handler \ {h} : hs'[g] = hs[g]
      BY <1>4, <2>2, StepHandler DEF VoiceCheck
    <3> QED
      BY <1>4, <2>2, <3>1 DEF VoiceCheck, TypeOK, LogTypeOK, Placed, twilioVars, replyVars
  <2> QED
    BY <2>1, <2>2
<1>5. CASE VoiceInsert(h)
  <2>1. /\ hs' \in [Handler -> HandlerState]
        /\ hs'[h].pc = "answer" /\ hs'[h].hook = hs[h].hook
        /\ \A g \in Handler \ {h} : hs'[g] = hs[g]
    BY <1>5, StepHandler DEF VoiceInsert
  <2>2. log' \in Row
    BY <1>5 DEF VoiceInsert, NewRow, Row
  <2> QED
    BY <1>5, <2>1, <2>2
    DEF VoiceInsert, TypeOK, LogTypeOK, Placed, twilioVars, replyVars
<1>6. CASE VoiceAnswer(h)
  <2>1. /\ hs' \in [Handler -> HandlerState] /\ hs'[h].pc = "idle"
        /\ \A g \in Handler \ {h} : hs'[g] = hs[g]
    BY <1>6, DoneHandler DEF VoiceAnswer
  <2>2. /\ call' \in {"ringing", "talking", "over"}
        /\ final' \in {"none", "completed", "missed"}
    BY <1>6, HearsTyped DEF VoiceAnswer
  <2> QED
    BY <1>6, <2>1, <2>2 DEF VoiceAnswer, TypeOK, LogTypeOK, Placed
<1>7. CASE VoiceInsertFails(h)
  BY <1>3, <1>7 DEF VoiceInsertFails, Mishap, MishapKinds, TypeOK
<1> QED
  BY <1>1, <1>2, <1>4, <1>5, <1>6, <1>7

LEMMA UpdateSound ==
    ASSUME Sound, NEW h \in Handler,
           ReadLog(h) \/ ReadNothing(h) \/ SaveLog(h) \/ SaveFails(h)
    PROVE  Sound'
<1> USE DEF Sound
<1>1. CASE ReadLog(h)
  <2>1. mishaps' \subseteq MishapKinds
    BY <1>1 DEF ReadLog, Mishap, MishapKinds, TypeOK
  <2>2. hs[h].hook # "voice"
    BY <1>1 DEF ReadLog
  <2> QED
    BY <1>1, <2>1, <2>2, ReadHandler
    DEF ReadLog, TypeOK, LogTypeOK, Placed, twilioVars, replyVars
<1>2. CASE ReadNothing(h) \/ SaveFails(h)
  <2>1. /\ hs' \in [Handler -> HandlerState] /\ hs'[h].pc = "idle"
        /\ \A g \in Handler \ {h} : hs'[g] = hs[g]
    BY <1>2, DoneHandler DEF ReadNothing, SaveFails
  <2>2. mishaps' \subseteq MishapKinds
    BY <1>2 DEF ReadNothing, SaveFails, Mishap, MishapKinds, TypeOK
  <2> QED
    BY <1>2, <2>1, <2>2
    DEF ReadNothing, SaveFails, TypeOK, LogTypeOK, Placed, twilioVars, replyVars
<1>3. CASE SaveLog(h)
  <2>1. Placed'
    BY <1>3, SaveHandler DEF Placed
  <2> QED
    BY <1>3, <2>1, SaveHandler DEF SaveLog, TypeOK, LogTypeOK, twilioVars, replyVars
<1> QED
  BY <1>1, <1>2, <1>3

LEMMA RollupSound ==
    ASSUME Sound, NEW h \in Handler, NEW table \in {"volume", "kpi"}, Rollup(h, table)
    PROVE  Sound'
<1> USE DEF Sound
<1>1. volume' \in Nat /\ kpi' \in Nat
  BY DEF Rollup, TypeOK, LogTypeOK
<1>2. ASSUME NEW g \in Handler
      PROVE  /\ hs'[g].pc \in {"check", "insert", "answer"} => hs'[g].hook = "voice"
             /\ hs'[g].pc \in {"save", "rollup"} =>
                    hs'[g].hook # "voice" /\ hs'[g].entity \in Row /\ log' \in Row
             /\ hs'[g].pc = "rollup" =>
                    hs'[g].todo # {} /\ hs'[g].todo \subseteq Rollups(hs'[g].hook)
  <2>1. log' = log /\ hs[h].pc = "rollup"
    BY DEF Rollup
  <2>2. CASE g = h
    <3>1. /\ hs[h].hook # "voice" /\ hs[h].entity \in Row /\ log \in Row
          /\ hs[h].todo \subseteq Rollups(hs[h].hook)
      BY <2>1 DEF Placed
    <3>2. CASE hs'[h].pc = "idle"
      BY <2>2, <3>2
    <3>3. CASE /\ hs'[h].pc = "rollup" /\ hs'[h].hook = hs[h].hook
               /\ hs'[h].entity = hs[h].entity
               /\ hs'[h].todo = hs[h].todo \ {table} /\ hs'[h].todo # {}
      BY <2>1, <2>2, <3>1, <3>3
    <3> QED
      BY <3>2, <3>3, RollupHandler
  <2>3. CASE g # h
    <3>1. hs'[g] = hs[g]
      BY <2>3, RollupHandler
    <3> QED
      BY <2>1, <3>1 DEF Placed
  <2> QED
    BY <2>2, <2>3
<1>3. Placed'
  BY <1>2 DEF Placed
<1> QED
  BY <1>1, <1>3, RollupHandler DEF Rollup, TypeOK, LogTypeOK, twilioVars, replyVars

LEMMA StepSound == Sound /\ [Next]_vars => Sound'
<1> SUFFICES ASSUME Sound, [Next]_vars PROVE Sound'
  OBVIOUS
<1>1. ASSUME NEW f \in {"completed", "missed"}, HangUp(f) PROVE Sound'
  BY <1>1 DEF HangUp, Sound, TypeOK, LogTypeOK, Placed, replyVars
<1>2. CASE DropCall
  BY <1>2 DEF DropCall, Sound, TypeOK, LogTypeOK, Placed, replyVars
<1>3. CASE Crash
  <2>1. hs' \in [Handler -> HandlerState] /\ \A h \in Handler : hs'[h].pc = "idle"
    BY <1>3, IdleTyped DEF Crash
  <2>2. mishaps' \subseteq MishapKinds
    BY <1>3 DEF Crash, Mishap, MishapKinds, Sound, TypeOK
  <2> QED
    BY <1>3, <2>1, <2>2 DEF Crash, Sound, TypeOK, LogTypeOK, Placed, twilioVars, replyVars
<1>4. CASE UNCHANGED vars
  BY <1>4 DEF vars, twilioVars, replyVars, Sound, TypeOK, LogTypeOK, Placed
<1> QED
  BY <1>1, <1>2, <1>3, <1>4, DeliverSound, VoiceSound, UpdateSound, RollupSound
  DEF Next, HandlerStep

\* The type invariant of CallWebhooks.
THEOREM TypeCorrect == Spec => []TypeOK
<1>1. Sound => TypeOK
  BY DEF Sound
<1> QED
  BY <1>1, InitSound, StepSound, PTL DEF Spec

-----------------------------------------------------------------------------
(* What a step may do to the row, the tables and the handlers *)

\* Handlers that are not in the middle of an update before or after a step.
Quiet(h) == hs'[h] = hs[h] \/ hs'[h].pc = "idle" \/ hs'[h].pc \in {"check", "insert"}

\* Who was about to answer still is, unless something failed.
Unanswered ==
    \A h \in Handler : hs[h].pc = "answer" => hs'[h] = hs[h] \/ "failure" \in mishaps'

\* Every step but those of these five kinds leaves the row, the tables and the count of
\* the webhooks sent alone, and no handler begins or goes on with an update; only an answer
\* forwards the call, and only a failure keeps a handler from giving it.
LEMMA StepKinds ==
    ASSUME Sound, [Next]_vars
    PROVE  \/ \E h \in Handler, k \in Hook : Deliver(h, k)
           \/ \E h \in Handler : VoiceInsert(h) \/ ReadLog(h) \/ SaveLog(h)
           \/ \E h \in Handler, table \in {"volume", "kpi"} : Rollup(h, table)
           \/ /\ UNCHANGED <<log, volume, kpi, sent>>
              /\ \A h \in Handler : Quiet(h)
              /\ (forwards' = forwards /\ Unanswered) \/ \E h \in Handler : VoiceAnswer(h)
<1> DEFINE Still == /\ UNCHANGED <<log, volume, kpi, sent>>
                    /\ \A h \in Handler : Quiet(h)
                    /\ \/ forwards' = forwards /\ Unanswered
                       \/ \E h \in Handler : VoiceAnswer(h)
<1>1. ASSUME NEW f \in {"completed", "missed"}, HangUp(f) PROVE Still
  BY <1>1 DEF HangUp, Quiet, Unanswered, replyVars
<1>2. CASE DropCall
  BY <1>2 DEF DropCall, Quiet, Unanswered, replyVars
<1>3. CASE Crash
  BY <1>3, IdleTyped DEF Crash, Mishap, Quiet, Unanswered, twilioVars, replyVars
<1>4. CASE UNCHANGED vars
  BY <1>4 DEF vars, twilioVars, replyVars, Quiet, Unanswered
<1>5. ASSUME NEW h \in Handler, Done(h)
      PROVE  /\ \A g \in Handler : Quiet(g)
             /\ hs[h].pc # "answer" \/ "failure" \in mishaps' => Unanswered
  BY <1>5, DoneHandler DEF Sound, Quiet, Unanswered
<1>6. ASSUME NEW h \in Handler, NEW next \in {"check", "insert"}, Step(h, next),
             hs[h].pc # "answer"
      PROVE  (\A g \in Handler : Quiet(g)) /\ Unanswered
  BY <1>6, StepHandler DEF Sound, Quiet, Unanswered
<1>7. ASSUME NEW h \in Handler,
             VoiceRouted(h) \/ VoiceUnrouted(h) \/ VoiceCheck(h) \/ VoiceInsertFails(h)
      PROVE  Still
  <2>1. UNCHANGED <<log, volume, kpi, sent, forwards>>
    BY <1>7 DEF VoiceRouted, VoiceUnrouted, VoiceCheck, VoiceInsertFails, Decline,
                twilioVars, replyVars
  <2>2. Done(h) \/ \E next \in {"check", "insert"} : Step(h, next)
    BY <1>7 DEF VoiceRouted, VoiceUnrouted, VoiceCheck, VoiceInsertFails, Decline
  <2>3. hs[h].pc # "answer" \/ (VoiceInsertFails(h) /\ "failure" \in mishaps')
    BY <1>7 DEF VoiceRouted, VoiceUnrouted, VoiceCheck, VoiceInsertFails, Mishap
  <2>4. VoiceInsertFails(h) => Done(h)
    BY DEF VoiceInsertFails, Decline
  <2>5. CASE Done(h)
    BY <1>5, <2>1, <2>3, <2>5
  <2>6. CASE \E next \in {"check", "insert"} : Step(h, next) /\ hs[h].pc # "answer"
    BY <1>6, <2>1, <2>6
  <2> QED
    BY <2>2, <2>3, <2>4, <2>5, <2>6
<1>8. ASSUME NEW h \in Handler, ReadNothing(h) \/ SaveFails(h) PROVE Still
  <2>1. UNCHANGED <<log, volume, kpi, sent, forwards>> /\ Done(h) /\ hs[h].pc # "answer"
    BY <1>8 DEF ReadNothing, SaveFails, twilioVars, replyVars
  <2> QED
    BY <1>5, <2>1
<1>9. ASSUME NEW h \in Handler, VoiceAnswer(h) PROVE Still
  <2>1. UNCHANGED <<log, volume, kpi, sent>> /\ Done(h)
    BY <1>9 DEF VoiceAnswer
  <2> QED
    BY <1>5, <1>9, <2>1
<1> QED
  BY <1>1, <1>2, <1>3, <1>4, <1>7, <1>8, <1>9 DEF Next, HandlerStep

-----------------------------------------------------------------------------
(* Forwarding *)

\* What has gone wrong is not forgotten.
LEMMA MishapsStay == [Next]_vars => mishaps \subseteq mishaps'
  BY DEF Next, Deliver, HangUp, DropCall, HandlerStep, VoiceRouted, VoiceUnrouted, VoiceCheck,
         VoiceInsert, VoiceAnswer, VoiceInsertFails, Decline, ReadLog, ReadNothing, SaveLog,
         SaveFails, Rollup, Crash, Mishap, vars

\* One request at most has inserted the row and not answered yet.
Answering ==
    /\ ForwardedOnceAndLogged
    /\ \A h \in Handler : hs[h].pc = "answer" => forwards = 0 /\ log # NoLog
    /\ \A g, h \in Handler : hs[g].pc = "answer" /\ hs[h].pc = "answer" => g = h

\* Only that request adds a forward, and no save takes the row away.
LEMMA ForwardedStep ==
    Sound /\ Answering /\ [Next]_vars => Answering'
<1> SUFFICES ASSUME Sound, Answering, [Next]_vars
             PROVE  Answering'
  OBVIOUS
<1> USE DEF Answering, ForwardedOnceAndLogged
<1>0. forwards \in Nat
  BY DEF Sound, TypeOK
<1>1. ASSUME NEW h \in Handler, UNCHANGED <<log, forwards>>, mishaps \subseteq mishaps',
             hs[h].pc # "answer", hs'[h].pc # "answer",
             \A g \in Handler \ {h} : hs'[g] = hs[g]
      PROVE  Answering'
  BY <1>1
<1>2. ASSUME NEW h \in Handler, NEW k \in Hook, Deliver(h, k)
      PROVE  Answering'
  <2>1. UNCHANGED <<log, forwards, mishaps>> /\ hs[h].pc = "idle"
    BY <1>2 DEF Deliver, replyVars
  <2> QED
    BY <1>1, <1>2, <2>1, DeliverHandler DEF Sound
<1>3. ASSUME NEW h \in Handler, VoiceInsert(h) PROVE Answering'
  <2>1. NewRow \in Row
    BY DEF NewRow, Row
  <2>2. log = NoLog /\ log' # NoLog /\ forwards' = forwards
    BY <1>3, <2>1, NoLogAssumption DEF VoiceInsert, replyVars
  <2>3. forwards = 0 /\ \A g \in Handler : hs[g].pc # "answer"
    BY <1>0, <2>2
  <2>4. hs'[h].pc = "answer" /\ \A g \in Handler \ {h} : hs'[g] = hs[g]
    BY <1>3, StepHandler DEF VoiceInsert, Sound
  <2> QED
    BY <2>2, <2>3, <2>4
<1>4. ASSUME NEW h \in Handler, ReadLog(h) PROVE Answering'
  <2>1. UNCHANGED <<log, forwards>> /\ mishaps \subseteq mishaps' /\ hs[h].pc = "start"
    BY <1>4 DEF ReadLog, Mishap, replyVars
  <2> QED
    BY <1>1, <1>4, <2>1, ReadHandler DEF Sound
<1>5. ASSUME NEW h \in Handler, SaveLog(h) PROVE Answering'
  <2>1. log # NoLog /\ log' # NoLog
    BY <1>5, SaveHandler, NoLogAssumption DEF SaveLog, Sound, Placed
  <2>2. UNCHANGED <<forwards, mishaps>> /\ hs[h].pc = "save"
    BY <1>5 DEF SaveLog, replyVars
  <2>3. hs'[h].pc # "answer" /\ \A g \in Handler \ {h} : hs'[g] = hs[g]
    BY <1>5, SaveHandler
  <2> QED
    BY <2>1, <2>2, <2>3
<1>6. ASSUME NEW h \in Handler, NEW table \in {"volume", "kpi"}, Rollup(h, table)
      PROVE  Answering'
  <2>1. UNCHANGED <<log, forwards, mishaps>> /\ hs[h].pc = "rollup"
    BY <1>6 DEF Rollup, replyVars
  <2> QED
    BY <1>1, <1>6, <2>1, RollupHandler DEF Sound
<1>7. ASSUME NEW h \in Handler, VoiceAnswer(h) PROVE Answering'
  <2>1. UNCHANGED log /\ forwards' = forwards + 1 /\ hs[h].pc = "answer"
    BY <1>7 DEF VoiceAnswer
  <2>2. hs'[h].pc = "idle" /\ \A g \in Handler \ {h} : hs'[g] = hs[g]
    BY <1>7, DoneHandler DEF VoiceAnswer, Sound
  <2>3. \A g \in Handler : hs'[g].pc # "answer"
    BY <2>1, <2>2
  <2> QED
    BY <1>0, <2>1, <2>3
<1>8. CASE UNCHANGED <<log, forwards>> /\ (\A h \in Handler : Quiet(h)) /\ Unanswered
  <2>1. \A h \in Handler : hs'[h].pc = "answer" => hs[h].pc = "answer"
    BY <1>8 DEF Quiet
  <2>2. mishaps \subseteq mishaps'
    BY MishapsStay
  <2> QED
    BY <1>8, <2>1, <2>2 DEF Unanswered
<1> QED
  BY <1>2, <1>3, <1>4, <1>5, <1>6, <1>7, <1>8, StepKinds

LEMMA ForwardedInit == Init => Answering
  BY IdleTyped DEF Init, Answering, ForwardedOnceAndLogged

\* A call is forwarded at most once, and only by the request that has inserted its row,
\* however many requests there are and whatever is lost or dies; a row without a forward
\* is there only while that request is about to answer, or after a failure.
THEOREM ForwardedOnce == Spec => []ForwardedOnceAndLogged
<1>1. Answering => ForwardedOnceAndLogged
  BY DEF Answering
<1> QED
  BY <1>1, InitSound, StepSound, ForwardedInit, ForwardedStep, PTL DEF Spec

-----------------------------------------------------------------------------
(* The end of a call *)

StatusHook == {"completed", "missed"}

\* The final status is settled once, and only it is reported.
Ended ==
    /\ final # "none" => call = "over"
    /\ \A k \in StatusHook : sent[k] > 0 => final = k
    /\ \A h \in Handler : hs[h].pc # "idle" /\ hs[h].hook \in StatusHook =>
           final = hs[h].hook /\ sent[hs[h].hook] > 0

LEMMA FinalStays ==
    ASSUME Sound, Ended, [Next]_vars
    PROVE  /\ final # "none" => final' = final
           /\ final' # "none" => call' = "over"
           /\ \A k \in Hook : sent[k] \in Nat /\ sent'[k] \in Nat /\ sent[k] <= sent'[k]
           /\ mishaps \subseteq mishaps'
<1>1. \A k \in Hook : sent[k] \in Nat
  BY SendAssumption DEF Sound, TypeOK
<1>2. ASSUME NEW h \in Handler, NEW k \in Hook, Deliver(h, k)
      PROVE  /\ UNCHANGED <<call, final, mishaps>>
             /\ \A j \in Hook : sent'[j] \in Nat /\ sent[j] <= sent'[j]
  BY <1>1, <1>2 DEF Deliver, Sound, TypeOK
<1>3. ASSUME NEW f \in StatusHook, HangUp(f)
      PROVE  final = "none" /\ call' = "over" /\ UNCHANGED <<sent, mishaps>>
  BY <1>3 DEF HangUp, Ended
<1>4. CASE DropCall
  BY <1>1, <1>4 DEF DropCall, Ended
<1>5. ASSUME NEW h \in Handler, HandlerStep(h)
      PROVE  /\ UNCHANGED sent /\ mishaps \subseteq mishaps'
             /\ \/ UNCHANGED <<call, final>>
                \/ call = "ringing" /\ call' = "over"
                \/ call = "ringing" /\ call' = "talking" /\ final' = "none"
  BY <1>5 DEF HandlerStep, VoiceRouted, VoiceUnrouted, VoiceCheck, VoiceInsert,
              VoiceAnswer, VoiceInsertFails, Decline, TwilioHears, ReadLog, ReadNothing,
              SaveLog, SaveFails, Rollup, Mishap, twilioVars
<1>6. CASE Crash
  BY <1>1, <1>6 DEF Crash, Mishap, Ended, twilioVars
<1>7. CASE UNCHANGED vars
  BY <1>1, <1>7 DEF vars, twilioVars, Ended
<1> QED
  BY <1>1, <1>2, <1>3, <1>4, <1>5, <1>6, <1>7 DEF Next, Ended, StatusHook

LEMMA EndedStep == Sound /\ Ended /\ [Next]_vars => Ended'
<1> SUFFICES ASSUME Sound, Ended, [Next]_vars PROVE Ended'
  OBVIOUS
<1> USE DEF StatusHook
<1>0. /\ final # "none" => final' = final
      /\ final' # "none" => call' = "over"
      /\ \A k \in Hook : sent[k] \in Nat /\ sent'[k] \in Nat /\ sent[k] <= sent'[k]
  BY FinalStays
<1>1. ASSUME \A h \in Handler :
               \/ hs'[h] = hs[h] \/ hs'[h].pc = "idle" \/ hs'[h].hook \notin StatusHook
               \/ hs[h].pc # "idle" /\ hs'[h].hook = hs[h].hook,
             UNCHANGED sent
      PROVE  Ended'
  BY <1>0, <1>1 DEF Ended, Hook
<1>2. ASSUME NEW h \in Handler, NEW k \in Hook, Deliver(h, k) PROVE Ended'
  <2>1. /\ hs'[h].hook = k /\ \A g \in Handler \ {h} : hs'[g] = hs[g]
        /\ k \in StatusHook => final = k
    BY <1>2, DeliverHandler DEF Deliver, Due, Sound
  <2>2. sent'[k] > 0 /\ \A j \in Hook \ {k} : sent'[j] = sent[j]
    BY <1>0, <1>2 DEF Deliver, Sound, TypeOK
  <2> QED
    BY <1>0, <2>1, <2>2 DEF Ended, Hook
<1>3. ASSUME NEW h \in Handler, VoiceInsert(h) PROVE Ended'
  BY <1>1, <1>3, StepHandler DEF VoiceInsert, Sound, twilioVars
<1>4. ASSUME NEW h \in Handler, ReadLog(h) PROVE Ended'
  BY <1>1, <1>4, ReadHandler DEF ReadLog, Sound, twilioVars
<1>5. ASSUME NEW h \in Handler, SaveLog(h) PROVE Ended'
  BY <1>1, <1>5, SaveHandler DEF SaveLog, twilioVars
<1>6. ASSUME NEW h \in Handler, NEW table \in {"volume", "kpi"}, Rollup(h, table)
      PROVE  Ended'
  BY <1>1, <1>6, RollupHandler DEF Rollup, Sound, twilioVars
<1>7. CASE UNCHANGED sent /\ \A h \in Handler : Quiet(h)
  <2>1. ASSUME NEW h \in Handler, hs'[h].pc \in {"check", "insert"}
        PROVE  hs'[h].hook = "voice"
    BY <2>1, StepSound DEF Sound, Placed
  <2> QED
    BY <1>1, <1>7, <2>1 DEF Quiet
<1> QED
  BY <1>2, <1>3, <1>4, <1>5, <1>6, <1>7, StepKinds

-----------------------------------------------------------------------------
(* Nothing gained is lost *)

\* What a row can have gained: the final status, and the result of a missed call.
Gained(w) ==
    /\ w.status = "in-progress" \/ (final # "none" /\ w.status = final)
    /\ w.result \in {"none", "not_connected"}

\* That is all there is in the table and in the copies that requests hold; until a second
\* request holds one, there is one copy at most, and it is current.
Current ==
    /\ log # NoLog => Gained(log)
    /\ \A h \in Handler : hs[h].pc = "save" => Gained(hs[h].entity)
    /\ "stale" \notin mishaps =>
           /\ \A h \in Handler : hs[h].pc = "save" => hs[h].entity = log
           /\ \A g, h \in Handler : hs[g].pc = "save" /\ hs[h].pc = "save" => g = h

\* The row a request saves.
LEMMA SaveGains ==
    ASSUME Sound, Ended, Current, NEW h \in Handler, SaveLog(h)
    PROVE  LET e == hs[h].entity IN
           /\ Gained(log')
           /\ e.status # "in-progress" => log'.status = e.status
           /\ e.url => log'.url
           /\ e.result # "none" => log'.result = e.result
<1> DEFINE e == hs[h].entity
           k == hs[h].hook
<1>1. k \in {"completed", "missed", "recording"} /\ e \in Row /\ log' = Merge(e, Patch(k))
  BY SaveHandler
<1>2. /\ log'.status = IF k = "recording" THEN e.status ELSE k
      /\ log'.result = IF k = "missed" THEN "not_connected" ELSE e.result
      /\ log'.url = (e.url \/ k = "recording")
  BY <1>1, SavedRow
<1>3. k # "recording" => final = k
  BY <1>1 DEF SaveLog, Ended, StatusHook
<1>4. Gained(e)
  BY DEF SaveLog, Current
<1> QED
  BY <1>1, <1>2, <1>3, <1>4 DEF Gained

LEMMA CurrentStep == Sound /\ Ended /\ Current /\ [Next]_vars => Current'
<1> SUFFICES ASSUME Sound, Ended, Current, [Next]_vars PROVE Current'
  OBVIOUS
<1>0. mishaps \subseteq mishaps' /\ (final # "none" => final' = final)
  BY FinalStays
<1>1. ASSUME \A h \in Handler : hs'[h] = hs[h] \/ hs'[h].pc # "save", UNCHANGED log
      PROVE  Current'
  BY <1>0, <1>1 DEF Current, Gained
<1>2. ASSUME NEW h \in Handler, NEW k \in Hook, Deliver(h, k) PROVE Current'
  BY <1>1, <1>2, DeliverHandler DEF Deliver, Sound
<1>3. ASSUME NEW h \in Handler, VoiceInsert(h) PROVE Current'
  <2>1. \A g \in Handler : hs[g].pc # "save"
    BY <1>3, NoLogAssumption DEF VoiceInsert, Sound, Placed
  <2>2. \A g \in Handler : hs'[g].pc # "save"
    BY <1>3, <2>1, StepHandler DEF VoiceInsert, Sound
  <2> QED
    BY <1>3, <2>2 DEF VoiceInsert, NewRow, Current, Gained
<1>4. ASSUME NEW h \in Handler, ReadLog(h) PROVE Current'
  <2>1. UNCHANGED <<log, final>>
    BY <1>4 DEF ReadLog, twilioVars
  <2>2. "stale" \notin mishaps' => \A g \in Handler : hs[g].pc # "save"
    BY <1>4 DEF ReadLog, Mishap
  <2>3. log # NoLog /\ hs'[h].entity = log /\ \A g \in Handler \ {h} : hs'[g] = hs[g]
    BY <1>4, ReadHandler DEF ReadLog, Sound
  <2> QED
    BY <2>1, <2>2, <2>3 DEF Current, Gained
<1>5. ASSUME NEW h \in Handler, SaveLog(h) PROVE Current'
  <2>1. UNCHANGED <<final, mishaps>> /\ hs[h].pc = "save"
    BY <1>5 DEF SaveLog, twilioVars
  <2>2. hs'[h].pc # "save" /\ \A g \in Handler \ {h} : hs'[g] = hs[g]
    BY <1>5, SaveHandler
  <2>3. Gained(log')
    BY <1>5, SaveGains
  <2> QED
    BY <2>1, <2>2, <2>3 DEF Current, Gained
<1>6. ASSUME NEW h \in Handler, NEW table \in {"volume", "kpi"}, Rollup(h, table)
      PROVE  Current'
  BY <1>1, <1>6, RollupHandler DEF Rollup, Sound
<1>7. CASE UNCHANGED log /\ \A h \in Handler : Quiet(h)
  BY <1>1, <1>7 DEF Quiet
<1> QED
  BY <1>2, <1>3, <1>4, <1>5, <1>6, <1>7, StepKinds

\* As long as no two requests hold copies of the row at once, it only gains: every save is
\* then made from the row as it is.
THEOREM GainsAreKept == Spec => LogOnlyGains
<1>1. Init => Ended /\ Current
  BY IdleTyped DEF Init, Ended, Current, StatusHook, Hook
<1>2. ASSUME Sound, Ended, Current, [Next]_vars, log # NoLog, "stale" \notin mishaps
      PROVE  /\ log.status # "in-progress" => log'.status = log.status
             /\ log.url => log'.url
             /\ log.result # "none" => log'.result = log.result
  <2>1. ASSUME NEW h \in Handler, SaveLog(h), log # log'
        PROVE  /\ log.status # "in-progress" => log'.status = log.status
               /\ log.url => log'.url
               /\ log.result # "none" => log'.result = log.result
    <3>1. hs[h].entity = log
      BY <1>2, <2>1 DEF SaveLog, Current
    <3> QED
      BY <1>2, <2>1, <3>1, SaveGains
  <2>2. UNCHANGED log \/ \E h \in Handler : SaveLog(h)
    BY <1>2, StepKinds DEF Deliver, VoiceInsert, ReadLog, Rollup
  <2> QED
    BY <2>1, <2>2
<1>3. Sound /\ Ended /\ Current /\ [Next]_vars
        => [log # NoLog /\ "stale" \notin mishaps =>
              /\ log.status # "in-progress" => log'.status = log.status
              /\ log.url => log'.url
              /\ log.result # "none" => log'.result = log.result]_vars
  BY <1>2
<1> QED
  BY <1>1, <1>3, InitSound, StepSound, EndedStep, CurrentStep, PTL DEF Spec, LogOnlyGains

-----------------------------------------------------------------------------
(* Counting *)

SentOnce == \A k \in Hook : sent[k] <= 1

\* While no webhook came twice, one request at most has the status of the call, and what
\* it has not yet added to a table is not there.
Tallied ==
    SentOnce =>
        /\ \A g, h \in Handler :
               /\ hs[g].pc # "idle" /\ hs[g].hook \in StatusHook
               /\ hs[h].pc # "idle" /\ hs[h].hook \in StatusHook
               => g = h
        /\ sent["completed"] = 0 /\ sent["missed"] = 0 => volume = 0 /\ kpi = 0
        /\ \A h \in Handler :
               hs[h].hook \in StatusHook =>
                   /\ hs[h].pc \in {"start", "save"} => volume = 0 /\ kpi = 0
                   /\ hs[h].pc = "rollup" =>
                          /\ "volume" \in hs[h].todo => volume = 0
                          /\ "kpi" \in hs[h].todo => kpi = 0
        /\ CountedAtMostOnce

LEMMA TalliedStep == Sound /\ Ended /\ Tallied /\ [Next]_vars => Tallied'
<1> SUFFICES ASSUME Sound, Ended, Tallied, [Next]_vars, SentOnce' PROVE Tallied'
  BY DEF Tallied
<1>0. /\ \A k \in Hook : sent[k] \in Nat /\ sent'[k] \in Nat /\ sent[k] <= sent'[k]
      /\ final # "none" => final' = final
      /\ volume \in Nat /\ kpi \in Nat
  BY FinalStays DEF Sound, TypeOK, LogTypeOK
<1>1. SentOnce
  BY <1>0 DEF SentOnce
<1>2. log # NoLog => log' # NoLog
  BY StepKinds, SaveHandler, NoLogAssumption DEF Deliver, VoiceInsert, ReadLog, Rollup
<1>3. CountedAtMostOnce
  BY <1>1 DEF Tallied
<1>4. UNCHANGED <<volume, kpi>> => CountedAtMostOnce'
  BY <1>0, <1>1, <1>2, <1>3 DEF CountedAtMostOnce, SentOnce
<1>5. ASSUME UNCHANGED <<volume, kpi, sent>>,
             \A h \in Handler :
                 \/ hs'[h] = hs[h] \/ hs'[h].pc = "idle" \/ hs'[h].hook \notin StatusHook
                 \/ /\ hs[h].pc \in {"start", "save"} /\ hs'[h].pc \in {"save", "rollup"}
                    /\ hs'[h].hook = hs[h].hook
      PROVE  Tallied'
  BY <1>1, <1>4, <1>5 DEF Tallied
<1>6. ASSUME NEW h \in Handler, NEW k \in Hook, Deliver(h, k) PROVE Tallied'
  <2>1. /\ hs'[h].pc = "start" /\ hs'[h].hook = k /\ \A g \in Handler \ {h} : hs'[g] = hs[g]
        /\ UNCHANGED <<volume, kpi>>
    BY <1>6, DeliverHandler DEF Deliver, Sound
  <2>2. sent[k] = 0 /\ sent'[k] = 1 /\ \A j \in Hook \ {k} : sent'[j] = sent[j]
    <3>1. sent'[k] = sent[k] + 1 /\ \A j \in Hook \ {k} : sent'[j] = sent[j]
      BY <1>6 DEF Deliver, Sound, TypeOK
    <3> QED
      BY <1>0, <3>1 DEF SentOnce
  <2>3. CASE k \in StatusHook
    <3>1. final = k
      BY <1>6, <2>3 DEF Deliver, Due, StatusHook
    <3>2. sent["completed"] = 0 /\ sent["missed"] = 0
      BY <1>0, <2>2, <2>3, <3>1 DEF Ended, StatusHook, Hook
    <3>3. volume = 0 /\ kpi = 0
      BY <1>1, <3>2 DEF Tallied
    <3>4. \A g \in Handler : hs[g].pc = "idle" \/ hs[g].hook \notin StatusHook
      BY <1>0, <3>2 DEF Ended, StatusHook, Hook
    <3> QED
      BY <1>4, <2>1, <3>3, <3>4 DEF Tallied
  <2>4. CASE k \notin StatusHook
    <3>1. sent'["completed"] = sent["completed"] /\ sent'["missed"] = sent["missed"]
      BY <2>2, <2>4 DEF StatusHook, Hook
    <3> QED
      BY <1>1, <1>4, <2>1, <2>4, <3>1 DEF Tallied
  <2> QED
    BY <2>3, <2>4
<1>7. ASSUME NEW h \in Handler, VoiceInsert(h) PROVE Tallied'
  <2>1. UNCHANGED <<volume, kpi, sent>> /\ hs[h].hook = "voice"
    BY <1>7 DEF VoiceInsert, twilioVars, Sound, Placed
  <2>2. hs'[h].hook = hs[h].hook /\ \A g \in Handler \ {h} : hs'[g] = hs[g]
    BY <1>7, StepHandler DEF VoiceInsert, Sound
  <2> QED
    BY <1>5, <2>1, <2>2 DEF StatusHook
<1>8. ASSUME NEW h \in Handler, ReadLog(h) PROVE Tallied'
  BY <1>5, <1>8, ReadHandler DEF ReadLog, Sound, twilioVars
<1>9. ASSUME NEW h \in Handler, SaveLog(h) PROVE Tallied'
  BY <1>5, <1>9, SaveHandler DEF SaveLog, twilioVars
<1>10. ASSUME NEW h \in Handler, NEW table \in {"volume", "kpi"}, Rollup(h, table)
       PROVE  Tallied'
  <2>1. /\ hs[h].pc = "rollup" /\ table \in hs[h].todo /\ UNCHANGED <<sent, final>>
        /\ table = "volume" => volume' = volume + 1 /\ kpi' = kpi
        /\ table = "kpi" => kpi' = kpi + 1 /\ volume' = volume
    BY <1>0, <1>10 DEF Rollup, twilioVars
  <2>2. hs[h].hook \in StatusHook /\ (table = "kpi" => hs[h].hook = "missed") /\ log \in Row
    BY <2>1 DEF Sound, Placed, TypeOK, HandlerState, Hook, Rollups, StatusHook
  <2>3. final = hs[h].hook /\ sent[hs[h].hook] > 0
    BY <2>1, <2>2 DEF Ended
  <2>4. (table = "volume" => volume = 0) /\ (table = "kpi" => kpi = 0)
    BY <1>1, <2>1, <2>2 DEF Tallied
  <2>5. CountedAtMostOnce'
    BY <1>0, <1>1, <1>2, <1>3, <2>1, <2>2, <2>3, <2>4, NoLogAssumption
    DEF CountedAtMostOnce, SentOnce, StatusHook
  <2>6. /\ \/ hs'[h].pc = "idle"
           \/ hs'[h].pc = "rollup" /\ hs'[h].hook = hs[h].hook
              /\ hs'[h].todo = hs[h].todo \ {table}
        /\ \A g \in Handler \ {h} : hs'[g] = hs[g]
    BY <1>10, RollupHandler DEF Sound
  <2>7. \A g \in Handler : hs[g].pc # "idle" /\ hs[g].hook \in StatusHook => g = h
    BY <1>1, <2>1, <2>2 DEF Tallied
  <2>8. ~(sent'["completed"] = 0 /\ sent'["missed"] = 0)
    BY <2>1, <2>2, <2>3 DEF StatusHook
  <2> QED
    BY <1>1, <2>1, <2>2, <2>5, <2>6, <2>7, <2>8 DEF Tallied
<1>11. CASE UNCHANGED <<volume, kpi, sent>> /\ \A h \in Handler : Quiet(h)
  <2>1. ASSUME NEW h \in Handler, hs'[h].pc \in {"check", "insert"}
        PROVE  hs'[h].hook \notin StatusHook
    BY <2>1, StepSound DEF Sound, Placed, StatusHook
  <2> QED
    BY <1>5, <1>11, <2>1 DEF Quiet
<1> QED
  BY <1>6, <1>7, <1>8, <1>9, <1>10, <1>11, StepKinds

\* While no webhook is sent twice, a call is counted once at most in each table, after its
\* end, and as missed only if it was, whatever overlaps or dies.
THEOREM CountedOnce == Spec => []CountedAtMostOnce
<1>1. Init => Ended /\ Tallied
  BY IdleTyped DEF Init, Ended, Tallied, CountedAtMostOnce, StatusHook, Hook
<1>2. Tallied => CountedAtMostOnce
  BY DEF Tallied, CountedAtMostOnce, SentOnce
<1> QED
  BY <1>1, <1>2, InitSound, StepSound, EndedStep, TalliedStep, PTL DEF Spec

-----------------------------------------------------------------------------
(* The queue job alone *)

Reading == {"keyRead", "textRead", "classRead"}
Saving == {"keySave", "textSave", "classSave"}

\* The states of an attempt that follow the copy, the transcript and the analysis.
Copied == {"keyRead", "keySave"}
Keyed == {"transcribe", "textRead", "textSave", "fresh", "classify", "classRead",
          "classSave", "kpi"}
Analysing == {"fresh", "classify", "classRead", "classSave", "kpi"}

\* What the first and the second save write.
LEMMA SavedKey ==
    ASSUME NEW e \in Row
    PROVE  Merge(e, [key |-> TRUE]) = [e EXCEPT !.key = TRUE]
<1> DEFINE p == [key |-> TRUE]
           x == [e EXCEPT !.key = TRUE]
<1>1. DOMAIN p = {"key"} /\ p["key"] = TRUE
  OBVIOUS
<1>2. /\ x = [c \in Columns |-> x[c]]
      /\ \A c \in Columns : x[c] = IF c = "key" THEN TRUE ELSE e[c]
  BY RowColumns DEF Columns, Row
<1> HIDE DEF p, x
<1>3. \A c \in Columns : x[c] = IF c \in DOMAIN p THEN p[c] ELSE e[c]
  BY <1>1, <1>2
<1>4. Merge(e, p) = x
  BY <1>2, <1>3, MergedColumns
<1> QED
  BY <1>4 DEF p, x

LEMMA SavedText ==
    ASSUME NEW e \in Row
    PROVE  Merge(e, [text |-> TRUE]) = [e EXCEPT !.text = TRUE]
<1> DEFINE p == [text |-> TRUE]
           x == [e EXCEPT !.text = TRUE]
<1>1. DOMAIN p = {"text"} /\ p["text"] = TRUE
  OBVIOUS
<1>2. /\ x = [c \in Columns |-> x[c]]
      /\ \A c \in Columns : x[c] = IF c = "text" THEN TRUE ELSE e[c]
  BY RowColumns DEF Columns, Row
<1> HIDE DEF p, x
<1>3. \A c \in Columns : x[c] = IF c \in DOMAIN p THEN p[c] ELSE e[c]
  BY <1>1, <1>2
<1>4. Merge(e, p) = x
  BY <1>2, <1>3, MergedColumns
<1> QED
  BY <1>4 DEF p, x

\* What the third one writes.
LEMMA SavedVerdict ==
    ASSUME NEW e \in Row, NEW v \in Verdict
    PROVE  Merge(e, [result |-> v.result, department |-> v.department, scored |-> TRUE])
             = [e EXCEPT !.result = v.result, !.department = v.department, !.scored = TRUE]
<1> DEFINE p == [result |-> v.result, department |-> v.department, scored |-> TRUE]
           x == [e EXCEPT !.result = v.result, !.department = v.department, !.scored = TRUE]
<1>1. /\ DOMAIN p = {"result", "department", "scored"}
      /\ p["result"] = v.result /\ p["department"] = v.department /\ p["scored"] = TRUE
  OBVIOUS
<1>2. /\ x = [c \in Columns |-> x[c]]
      /\ \A c \in Columns : x[c] = CASE c = "result"     -> v.result
                                     [] c = "department" -> v.department
                                     [] c = "scored"     -> TRUE
                                     [] OTHER            -> e[c]
  BY RowColumns DEF Columns, Row
<1> HIDE DEF p, x
<1>3. \A c \in Columns : x[c] = IF c \in DOMAIN p THEN p[c] ELSE e[c]
  BY <1>1, <1>2 DEF Columns
<1>4. Merge(e, p) = x
  BY <1>2, <1>3, MergedColumns
<1> QED
  BY <1>4 DEF p, x

\* A save takes a row to a row.
LEMMA SavedTyped ==
    ASSUME NEW e \in Row, NEW v \in Verdict
    PROVE  /\ Merge(e, [key |-> TRUE]) \in Row
           /\ Merge(e, [text |-> TRUE]) \in Row
           /\ Merge(e, [result |-> v.result, department |-> v.department, scored |-> TRUE])
                \in Row
<1>1. [e EXCEPT !.key = TRUE] \in Row /\ [e EXCEPT !.text = TRUE] \in Row
  BY DEF Row
<1>2. v.result \in {"none", "known"} /\ v.department \in {"none", "known"}
  BY DEF Verdict
<1>3. [e EXCEPT !.result = v.result, !.department = v.department, !.scored = TRUE] \in Row
  BY <1>2 DEF Row
<1> QED
  BY <1>1, <1>3, SavedKey, SavedText, SavedVerdict

\* The types, and what makes them inductive: a row that exists, a copy of it that is
\* current when it is saved, and an attempt left whenever the job waits.
Typed ==
    /\ JobTypeOK
    /\ log \in Row
    /\ pc \in Saving => entity = log
    /\ job = "waiting" => pc = "off" /\ tried < Attempts

LEMMA TypedInit == JobInit => Typed
<1> SUFFICES ASSUME JobInit PROVE Typed
  OBVIOUS
<1>1. log \in Row
  BY DEF JobInit, NewRow, Row
<1>2. /\ tried \in 0..Attempts /\ tried < Attempts
      /\ faults \in 0..MaxFaults /\ crashes \in 0..faults
  BY AttemptAssumption DEF JobInit
<1>3. verdict \in Verdict
  BY DEF JobInit, Unclear, Verdict
<1> QED
  BY <1>1, <1>2, <1>3 DEF JobInit, Typed, JobTypeOK, LogTypeOK, Pc, Saving

\* Counting a failure.
LEMMA FaultTyped ==
    ASSUME JobTypeOK, NEW kind, Fault(kind), crashes' = crashes \/ crashes' = crashes + 1
    PROVE  faults' \in 0..MaxFaults /\ crashes' \in 0..faults'
  BY AttemptAssumption DEF JobTypeOK, Fault

LEMMA TypedStep == Typed /\ [JobNext]_jobVars => Typed'
<1> SUFFICES ASSUME Typed, [JobNext]_jobVars PROVE Typed'
  OBVIOUS
<1> USE DEF Typed, JobTypeOK, LogTypeOK, Saving
<1>1. ASSUME StartAttempt PROVE Typed'
  <2>1. tried' \in 0..Attempts
    BY <1>1, AttemptAssumption DEF StartAttempt
  <2> QED
    BY <1>1, <2>1 DEF StartAttempt, Pc, failVars
<1>2. ASSUME Load PROVE Typed'
  <2>1. hasText' \in BOOLEAN
    BY <1>2 DEF Load, Row
  <2>2. pc' \in {"copy", "fresh", "transcribe"} /\ pc # "off" /\ UNCHANGED job
    BY <1>2 DEF Load, Goto
  <2>3. UNCHANGED <<log, volume, kpi, tried, entity, summary, verdict, s3, heard, failVars>>
    BY <1>2 DEF Load
  <2>4. pc' \in Pc
    BY <2>2 DEF Pc
  <2> QED
    BY <2>1, <2>2, <2>3, <2>4 DEF failVars
<1>3. ASSUME Copy \/ Fetch \/ UploadCopy PROVE Typed'
  <2>1. /\ pc' = "keyRead" \/ pc' \in {"fetch", "upload"}
        /\ s3' \in BOOLEAN /\ pc # "off" /\ UNCHANGED job
    BY <1>3 DEF Copy, Fetch, UploadCopy, Goto
  <2>2. UNCHANGED <<log, volume, kpi, Rest, failVars>>
    BY <1>3 DEF Copy, Fetch, UploadCopy
  <2>3. pc' \in Pc
    BY <2>1 DEF Pc
  <2> QED
    BY <2>1, <2>2, <2>3 DEF Rest, failVars
<1>4. ASSUME FetchAgain PROVE Typed'
  <2>1. faults' \in 0..MaxFaults /\ crashes' \in 0..faults'
    BY <1>4, FaultTyped DEF FetchAgain
  <2> QED
    BY <1>4, <2>1 DEF FetchAgain, Goto, Rest, Pc
<1>5. ASSUME CopyFails \/ NoTurns \/ AnalysisFails PROVE Typed'
  <2>1. PICK kind : Swallow(kind)
    BY <1>5 DEF CopyFails, NoTurns, AnalysisFails
  <2>2. faults' \in 0..MaxFaults /\ crashes' \in 0..faults'
    BY <2>1, FaultTyped DEF Swallow
  <2>3. UNCHANGED <<log, volume, kpi, Rest, s3>>
    BY <1>5 DEF CopyFails, NoTurns, AnalysisFails
  <2>4. pc' = "done" /\ UNCHANGED job /\ swallowed' = TRUE
    BY <2>1 DEF Swallow, Return, Goto
  <2>5. pc # "off"
    BY <1>5 DEF CopyFails, NoTurns, AnalysisFails
  <2> QED
    BY <2>2, <2>3, <2>4, <2>5 DEF Rest, Pc
<1>6. ASSUME ReadRow PROVE Typed'
  BY <1>6 DEF ReadRow, Goto, Pc, failVars
<1>7. ASSUME SaveKey \/ SaveText PROVE Typed'
  <2>1. log' \in Row
    BY <1>7, SavedTyped DEF SaveKey, SaveText
  <2> QED
    BY <1>7, <2>1 DEF SaveKey, SaveText, Goto, Rest, Pc, failVars
<1>8. ASSUME SaveClass PROVE Typed'
  <2>1. log' \in Row
    BY <1>8, SavedTyped DEF SaveClass
  <2> QED
    BY <1>8, <2>1 DEF SaveClass, Goto, Pc, failVars
<1>9. ASSUME Transcribe \/ Fresh PROVE Typed'
  <2>1. pc' \in {"textRead", "classify", "done"} /\ pc # "off" /\ UNCHANGED job
    BY <1>9 DEF Transcribe, Fresh, Return, Goto
  <2>2. summary' \in BOOLEAN
    BY <1>9 DEF Transcribe, Fresh, Rest
  <2>3. UNCHANGED <<log, volume, kpi, tried, entity, hasText, verdict, s3, heard, failVars>>
    BY <1>9 DEF Transcribe, Fresh, Rest
  <2> QED
    BY <2>1, <2>2, <2>3 DEF Pc, failVars
<1>10. ASSUME Classify PROVE Typed'
  <2>1. verdict' \in Verdict
    BY <1>10, OutcomeAssumption DEF Classify, Unclear, Verdict
  <2> QED
    BY <1>10, <2>1 DEF Classify, Goto, Pc, failVars
<1>11. ASSUME AddKpi \/ Complete PROVE Typed'
  BY <1>11 DEF AddKpi, Complete, Return, Goto, Rest, Pc, failVars
<1>12. ASSUME AttemptThrows PROVE Typed'
  <2>1. PICK kind : FailWith(kind)
    BY <1>12 DEF AttemptThrows
  <2>2. faults' \in 0..MaxFaults /\ crashes' \in 0..faults'
    BY <2>1, FaultTyped DEF FailWith
  <2> QED
    BY <1>12, <2>1, <2>2 DEF AttemptThrows, FailWith, Throw, Rest, Pc
<1>13. ASSUME WorkerDies PROVE Typed'
  <2>1. faults' \in 0..MaxFaults /\ crashes' \in 0..faults'
    BY <1>13, FaultTyped DEF WorkerDies
  <2> QED
    BY <1>13, <2>1 DEF WorkerDies, Throw, Rest, Pc
<1>14. CASE UNCHANGED jobVars
  BY <1>14 DEF jobVars, failVars
<1> QED
  BY <1>1, <1>2, <1>3, <1>4, <1>5, <1>6, <1>7, <1>8, <1>9, <1>10, <1>11, <1>12, <1>13, <1>14
  DEF JobNext, Work

\* The type invariant of RecordingWorkflow.
THEOREM JobTypeCorrect == JobSpec => []JobTypeOK
<1>1. Typed => JobTypeOK
  BY DEF Typed
<1> QED
  BY <1>1, TypedInit, TypedStep, PTL DEF JobSpec

-----------------------------------------------------------------------------
(* The row and the bucket *)

\* What an attempt may rely on by the place it has reached.
Stored ==
    /\ KeyMeansStored
    /\ pc \in Copied => s3
    /\ pc \in Keyed => log.key

LEMMA StoredStep == Typed /\ Stored /\ [JobNext]_jobVars => Stored'
<1> SUFFICES ASSUME Typed, Stored, [JobNext]_jobVars PROVE Stored'
  OBVIOUS
<1> USE DEF Stored, KeyMeansStored, Copied, Keyed
<1>1. ASSUME StartAttempt PROVE Stored'
  BY <1>1 DEF StartAttempt
<1>2. ASSUME Load PROVE Stored'
  BY <1>2 DEF Load, Goto
<1>3. ASSUME Copy \/ Fetch \/ FetchAgain \/ UploadCopy PROVE Stored'
  BY <1>3 DEF Copy, Fetch, FetchAgain, UploadCopy, Goto
<1>4. ASSUME CopyFails \/ NoTurns \/ AnalysisFails PROVE Stored'
  BY <1>4 DEF CopyFails, NoTurns, AnalysisFails, Swallow, Return, Goto
<1>5. ASSUME ReadRow PROVE Stored'
  BY <1>5 DEF ReadRow, Goto
<1>6. ASSUME SaveKey PROVE Stored'
  <2>1. log' = [log EXCEPT !.key = TRUE]
    BY <1>6, SavedKey DEF SaveKey, Typed, Saving
  <2>2. log'.key = TRUE /\ log'.text = log.text
    BY <2>1 DEF Typed, Row
  <2> QED
    BY <1>6, <2>2 DEF SaveKey, Goto
<1>7. ASSUME SaveText PROVE Stored'
  <2>1. log' = [log EXCEPT !.text = TRUE]
    BY <1>7, SavedText DEF SaveText, Typed, Saving
  <2>2. log'.key = log.key
    BY <2>1 DEF Typed, Row
  <2> QED
    BY <1>7, <2>2 DEF SaveText, Goto
<1>8. ASSUME SaveClass PROVE Stored'
  <2>1. log' = [log EXCEPT !.result = verdict.result, !.department = verdict.department,
                           !.scored = TRUE]
    BY <1>8, SavedVerdict DEF SaveClass, Typed, JobTypeOK, Saving
  <2>2. log'.key = log.key /\ log'.text = log.text
    BY <2>1 DEF Typed, Row
  <2> QED
    BY <1>8, <2>2 DEF SaveClass, Goto
<1>9. ASSUME Transcribe \/ Fresh \/ Classify \/ AddKpi \/ Complete PROVE Stored'
  BY <1>9 DEF Transcribe, Fresh, Classify, AddKpi, Complete, Return, Goto
<1>10. ASSUME AttemptThrows \/ WorkerDies PROVE Stored'
  BY <1>10 DEF AttemptThrows, WorkerDies, FailWith, Throw
<1>11. CASE UNCHANGED jobVars
  BY <1>11 DEF jobVars
<1> QED
  BY <1>1, <1>2, <1>3, <1>4, <1>5, <1>6, <1>7, <1>8, <1>9, <1>10, <1>11 DEF JobNext, Work

\* A key in the row stands for an object in the bucket, and a transcript for a key,
\* whatever fails in whatever attempt: the row is only ever saved from a copy that is
\* current, since one worker at a time has the job.
THEOREM KeyIsBacked == JobSpec => []KeyMeansStored
<1>1. JobInit => Stored
  BY DEF JobInit, NewRow, Stored, KeyMeansStored, Copied, Keyed
<1>2. Stored => KeyMeansStored
  BY DEF Stored
<1> QED
  BY <1>1, <1>2, TypedInit, TypedStep, StoredStep, PTL DEF JobSpec

-----------------------------------------------------------------------------
(* The KPIs *)

\* An attempt that has not reached its end, or is still to come, has every addition but
\* those of dead workers before it.
Counted ==
    /\ KpiCountedOnce
    /\ pc \notin {"done", "off"} \/ job = "waiting" => kpi <= crashes

LEMMA CountedStep == Typed /\ Counted /\ [JobNext]_jobVars => Counted'
<1> SUFFICES ASSUME Typed, Counted, [JobNext]_jobVars PROVE Counted'
  OBVIOUS
<1>0. /\ kpi \in Nat /\ crashes \in Nat
      /\ job = "waiting" => pc = "off"
  BY AttemptAssumption DEF Typed, JobTypeOK, LogTypeOK
<1> USE DEF Counted, KpiCountedOnce
<1>1. ASSUME StartAttempt PROVE Counted'
  BY <1>0, <1>1 DEF StartAttempt, failVars
<1>2. ASSUME Load \/ Copy \/ Fetch \/ FetchAgain \/ UploadCopy \/ ReadRow \/ SaveKey
             \/ Transcribe \/ SaveText \/ Fresh \/ Classify \/ SaveClass
      PROVE  Counted'
  <2>1. pc \notin {"done", "off"}
    BY <1>2 DEF Load, Copy, Fetch, FetchAgain, UploadCopy, ReadRow, SaveKey,
                Transcribe, SaveText, Fresh, Classify, SaveClass
  <2>2. UNCHANGED <<kpi, crashes, job>>
    BY <1>2 DEF Load, Copy, Fetch, FetchAgain, UploadCopy, ReadRow, SaveKey,
                Transcribe, SaveText, Fresh, Classify, SaveClass, Return, Goto, failVars
  <2> QED
    BY <1>0, <2>1, <2>2
<1>3. ASSUME CopyFails \/ NoTurns \/ AnalysisFails PROVE Counted'
  BY <1>0, <1>3 DEF CopyFails, NoTurns, AnalysisFails, Swallow, Return, Goto
<1>4. ASSUME AddKpi PROVE Counted'
  BY <1>0, <1>4 DEF AddKpi, Return, Goto, failVars
<1>5. ASSUME Complete PROVE Counted'
  BY <1>0, <1>5 DEF Complete, failVars
<1>6. ASSUME AttemptThrows PROVE Counted'
  BY <1>0, <1>6 DEF AttemptThrows, FailWith, Throw
<1>7. ASSUME WorkerDies PROVE Counted'
  BY <1>0, <1>7 DEF WorkerDies, Throw
<1>8. CASE UNCHANGED jobVars
  BY <1>8 DEF jobVars, failVars
<1> QED
  BY <1>1, <1>2, <1>3, <1>4, <1>5, <1>6, <1>7, <1>8 DEF JobNext, Work

\* However many attempts there are, the KPIs count the call once, plus at most once for
\* each death of the worker: an attempt throws only before it has counted.
THEOREM CountedOncePerDeath == JobSpec => []KpiCountedOnce
<1>1. JobInit => Counted
  BY DEF JobInit, Counted, KpiCountedOnce
<1>2. Counted => KpiCountedOnce
  BY DEF Counted
<1> QED
  BY <1>1, <1>2, TypedInit, TypedStep, CountedStep, PTL DEF JobSpec

-----------------------------------------------------------------------------
(* What a first attempt hears *)

\* A stored transcript is the work of an attempt before this one, or of this one, which
\* then has the turns.
Hearing ==
    /\ FirstAttemptHears
    /\ pc # "off" \/ log.text => tried >= 1
    /\ (pc = "load" /\ log.text) \/ hasText => tried > 1
    /\ pc \in {"textRead", "textSave"} => summary
    /\ pc \in Analysing => summary \/ tried > 1

LEMMA HearingStep == Typed /\ Hearing /\ [JobNext]_jobVars => Hearing'
<1> SUFFICES ASSUME Typed, Hearing, [JobNext]_jobVars PROVE Hearing'
  OBVIOUS
<1>1. tried \in Nat
  BY AttemptAssumption DEF Typed, JobTypeOK
<1> USE DEF Hearing, FirstAttemptHears, Analysing
<1>2. ASSUME StartAttempt PROVE Hearing'
  BY <1>1, <1>2 DEF StartAttempt
<1>3. ASSUME Load PROVE Hearing'
  BY <1>1, <1>3 DEF Load, Goto
<1>4. ASSUME Copy \/ Fetch \/ FetchAgain \/ UploadCopy PROVE Hearing'
  BY <1>1, <1>4 DEF Copy, Fetch, FetchAgain, UploadCopy, Goto, Rest
<1>5. ASSUME CopyFails \/ NoTurns \/ AnalysisFails PROVE Hearing'
  BY <1>1, <1>5 DEF CopyFails, NoTurns, AnalysisFails, Swallow, Return, Goto, Rest
<1>6. ASSUME ReadRow \/ Transcribe \/ Fresh \/ Classify PROVE Hearing'
  BY <1>1, <1>6 DEF ReadRow, Transcribe, Fresh, Classify, Return, Goto, Rest
<1>7. ASSUME SaveKey PROVE Hearing'
  <2>1. log' = [log EXCEPT !.key = TRUE]
    BY <1>7, SavedKey DEF SaveKey, Typed, Saving
  <2>2. log'.text = log.text
    BY <2>1 DEF Typed, Row
  <2> QED
    BY <1>1, <1>7, <2>2 DEF SaveKey, Goto, Rest
<1>8. ASSUME SaveText PROVE Hearing'
  BY <1>1, <1>8 DEF SaveText, Goto, Rest
<1>9. ASSUME SaveClass PROVE Hearing'
  <2>1. log' = [log EXCEPT !.result = verdict.result, !.department = verdict.department,
                           !.scored = TRUE]
    BY <1>9, SavedVerdict DEF SaveClass, Typed, JobTypeOK, Saving
  <2>2. log'.text = log.text
    BY <2>1 DEF Typed, Row
  <2> QED
    BY <1>1, <1>9, <2>2 DEF SaveClass, Goto
<1>10. ASSUME AddKpi \/ Complete PROVE Hearing'
  BY <1>1, <1>10 DEF AddKpi, Complete, Return, Goto, Rest
<1>11. ASSUME AttemptThrows \/ WorkerDies PROVE Hearing'
  BY <1>1, <1>11 DEF AttemptThrows, WorkerDies, FailWith, Throw, Rest
<1>12. CASE UNCHANGED jobVars
  BY <1>12 DEF jobVars
<1> QED
  BY <1>2, <1>3, <1>4, <1>5, <1>6, <1>7, <1>8, <1>9, <1>10, <1>11, <1>12 DEF JobNext, Work

\* A verdict stored by the first attempt has heard the conversation, whatever fails.
THEOREM FirstVerdictHeard == JobSpec => []FirstAttemptHears
<1>1. JobInit => Hearing
  BY DEF JobInit, NewRow, Hearing, FirstAttemptHears, Analysing
<1>2. Hearing => FirstAttemptHears
  BY DEF Hearing
<1> QED
  BY <1>1, <1>2, TypedInit, TypedStep, HearingStep, PTL DEF JobSpec

-----------------------------------------------------------------------------
(* The webhooks and the job on one row *)

\* The job is only added to a row, and saves rows.
Worked ==
    /\ pc # "off" \/ job # "none" => log \in Row
    /\ pc \in Saving => entity \in Row
    /\ verdict \in Verdict

\* A status is the one Twilio reports at the end, or none yet.
Reported(w) == w.status = "in-progress" \/ (final # "none" /\ w.status = final)

\* Until two of them hold copies of the row at once, handlers or a handler and the worker,
\* one of them at most holds one, and that is the row as it is.
Alone ==
    "stale" \notin mishaps /\ ~crossed =>
        /\ log # NoLog => Reported(log)
        /\ \A h \in Handler : hs[h].pc = "save" => hs[h].entity = log
        /\ \A g, h \in Handler : hs[g].pc = "save" /\ hs[h].pc = "save" => g = h
        /\ pc \in Saving =>
               entity = log /\ \A h \in Handler : hs[h].pc # "save"

Shared == Sound /\ Ended /\ Worked /\ Alone

LEMMA SharedInit == PipelineInit => Shared
<1> SUFFICES ASSUME PipelineInit PROVE Shared
  OBVIOUS
<1>1. Sound /\ \A h \in Handler : hs[h].pc = "idle"
  BY InitSound, IdleTyped DEF PipelineInit, Init
<1>2. Ended
  BY <1>1 DEF PipelineInit, Init, Ended, StatusHook, Hook
<1>3. Worked
  BY DEF PipelineInit, Worked, Saving, Unclear, Verdict
<1>4. Alone
  BY <1>1 DEF PipelineInit, Init, Alone, Saving
<1> QED
  BY <1>1, <1>2, <1>3, <1>4 DEF Shared

\* What a row keeps when another is saved over it.
Keeps(e, w) ==
    /\ w.status = e.status /\ w.url = e.url
    /\ e.key => w.key
    /\ e.text => w.text
    /\ e.scored => w.scored

\* What the job saves, from its copy.
LEMMA SavedByJob ==
    ASSUME NEW e \in Row, NEW v \in Verdict, NEW w,
           \/ w = Merge(e, [key |-> TRUE])
           \/ w = Merge(e, [text |-> TRUE])
           \/ w = Merge(e, [result |-> v.result, department |-> v.department, scored |-> TRUE])
    PROVE  w \in Row /\ Keeps(e, w)
<1>1. CASE w = Merge(e, [key |-> TRUE])
  <2>1. w = [e EXCEPT !.key = TRUE]
    BY <1>1, SavedKey
  <2> QED
    BY <2>1 DEF Keeps, Row
<1>2. CASE w = Merge(e, [text |-> TRUE])
  <2>1. w = [e EXCEPT !.text = TRUE]
    BY <1>2, SavedText
  <2> QED
    BY <2>1 DEF Keeps, Row
<1>3. CASE w = Merge(e, [result |-> v.result, department |-> v.department, scored |-> TRUE])
  <2>1. w = [e EXCEPT !.result = v.result, !.department = v.department, !.scored = TRUE]
    BY <1>3, SavedVerdict
  <2>2. w \in Row
    BY <1>3, SavedTyped
  <2> QED
    BY <2>1, <2>2 DEF Keeps, Row
<1> QED
  BY <1>1, <1>2, <1>3

\* A step of the job leaves the row alone, and comes to hold a copy only by reading it;
\* or it saves the copy it holds, over whatever the row is by then.
LEMMA JobEffect ==
    ASSUME Worked, LogTypeOK, Work \/ WorkerDies
    PROVE  /\ volume' = volume /\ kpi' \in Nat /\ verdict' \in Verdict
           /\ pc # "off" \/ job # "none"
           /\ \/ /\ log' = log
                 /\ pc' \in Saving => entity' = log
              \/ /\ pc \in Saving /\ pc' \notin Saving
                 /\ log' \in Row /\ Keeps(entity, log')
<1> USE DEF Worked, LogTypeOK, Saving
<1>1. CASE StartAttempt
  BY <1>1 DEF StartAttempt
<1>2. CASE Load \/ Copy \/ Fetch \/ UploadCopy \/ Transcribe \/ Fresh
  BY <1>2 DEF Load, Copy, Fetch, UploadCopy, Transcribe, Fresh, Return, Goto, Rest
<1>3. CASE FetchAgain \/ CopyFails \/ NoTurns \/ AnalysisFails
  BY <1>3 DEF FetchAgain, CopyFails, NoTurns, AnalysisFails, Swallow, Return, Goto, Rest
<1>4. CASE ReadRow
  BY <1>4 DEF ReadRow, Goto
<1>5. CASE Classify
  <2>1. verdict' \in Verdict
    BY <1>5, OutcomeAssumption DEF Classify, Unclear, Verdict
  <2> QED
    BY <1>5, <2>1 DEF Classify, Goto
<1>6. CASE AddKpi \/ Complete
  BY <1>6 DEF AddKpi, Complete, Return, Goto, Rest
<1>7. CASE AttemptThrows \/ WorkerDies
  BY <1>7 DEF AttemptThrows, WorkerDies, FailWith, Throw, Rest
<1>8. CASE SaveKey \/ SaveText \/ SaveClass
  <2>1. pc \in Saving /\ pc' \notin Saving /\ UNCHANGED <<volume, kpi, verdict>>
    BY <1>8 DEF SaveKey, SaveText, SaveClass, Goto, Rest
  <2>2. log' \in Row /\ Keeps(entity, log')
    BY <1>8, <2>1, SavedByJob DEF SaveKey, SaveText, SaveClass
  <2> QED
    BY <2>1, <2>2
<1> QED
  BY <1>1, <1>2, <1>3, <1>4, <1>5, <1>6, <1>7, <1>8 DEF Work

\* A step of the job, seen from the webhooks.
LEMMA JobStepShared ==
    ASSUME Shared, Work \/ WorkerDies, UNCHANGED apiVars, Watch
    PROVE  Shared'
<1> USE DEF Shared
<1>1. LogTypeOK /\ Worked
  BY DEF Sound, TypeOK
<1>2. /\ volume' = volume /\ kpi' \in Nat /\ verdict' \in Verdict
      /\ log \in Row /\ log' \in Row
  BY <1>1, JobEffect DEF Worked
<1>3. UNCHANGED <<call, final, sent, hs, forwards, declined, mishaps, recorded>>
  BY DEF apiVars, twilioVars, replyVars
<1>4. Sound'
  BY <1>2, <1>3 DEF Sound, TypeOK, LogTypeOK, Placed
<1>5. Ended'
  BY <1>3 DEF Ended
<1>6. Worked'
  BY <1>1, <1>2, JobEffect DEF Worked
<1>7. ASSUME "stale" \notin mishaps', ~crossed' PROVE Alone'
  <2>1. "stale" \notin mishaps /\ ~crossed
        /\ (pc' \in Saving => \A h \in Handler : hs'[h].pc # "save")
    BY <1>3, <1>7 DEF Watch, Saving
  <2>2. log # NoLog
    BY <1>2, NoLogAssumption
  <2>3. CASE log' = log /\ (pc' \in Saving => entity' = log)
    BY <1>3, <2>1, <2>2, <2>3 DEF Alone, Reported
  <2>4. CASE pc \in Saving /\ pc' \notin Saving /\ Keeps(entity, log')
    <3>1. entity = log /\ Reported(log) /\ \A h \in Handler : hs[h].pc # "save"
      BY <2>1, <2>2, <2>4 DEF Alone
    <3>2. log'.status = log.status
      BY <2>4, <3>1 DEF Keeps
    <3> QED
      BY <1>3, <2>4, <3>1, <3>2 DEF Alone, Reported
  <2> QED
    BY <1>1, <2>3, <2>4, JobEffect
<1> QED
  BY <1>4, <1>5, <1>6, <1>7 DEF Alone

\* A step of the webhooks, seen from the job.
LEMMA ApiStepShared ==
    ASSUME Shared, Next, UNCHANGED workerVars, Watch
    PROVE  Shared'
<1> USE DEF Shared
<1>1. Sound' /\ Ended' /\ [Next]_vars
  BY StepSound, EndedStep
<1>2. UNCHANGED <<job, pc, entity, verdict>>
  BY DEF workerVars
<1>3. mishaps \subseteq mishaps' /\ (final # "none" => final' = final)
  BY <1>1, FinalStays
<1>4. log \in Row => log' \in Row
  <2>1. NewRow \in Row
    BY DEF NewRow, Row
  <2> QED
    BY <1>1, <2>1, StepKinds, SaveHandler DEF Deliver, VoiceInsert, ReadLog, Rollup
<1>5. Worked'
  BY <1>2, <1>4 DEF Worked
<1>6. ASSUME "stale" \notin mishaps', ~crossed' PROVE Alone'
  <2>1. "stale" \notin mishaps /\ ~crossed
        /\ (pc \in Saving => \A h \in Handler : hs'[h].pc # "save")
    BY <1>2, <1>3, <1>6 DEF Watch, Saving
  <2>2. /\ log # NoLog => Reported(log)
        /\ \A h \in Handler : hs[h].pc = "save" => hs[h].entity = log
        /\ \A g, h \in Handler : hs[g].pc = "save" /\ hs[h].pc = "save" => g = h
        /\ pc \in Saving => entity = log /\ \A h \in Handler : hs[h].pc # "save"
    BY <2>1 DEF Alone
  <2>3. ASSUME \A h \in Handler : hs'[h] = hs[h] \/ hs'[h].pc # "save", UNCHANGED log
        PROVE  Alone'
    BY <1>2, <1>3, <2>1, <2>2, <2>3 DEF Alone, Reported
  <2>4. ASSUME NEW h \in Handler, NEW k \in Hook, Deliver(h, k) PROVE Alone'
    BY <2>3, <2>4, DeliverHandler DEF Deliver, Sound
  <2>5. ASSUME NEW h \in Handler, VoiceInsert(h) PROVE Alone'
    <3>1. log \notin Row /\ log' = NewRow
      BY <2>5, NoLogAssumption DEF VoiceInsert
    <3>2. pc' \notin Saving
      BY <1>2, <3>1 DEF Worked, Saving
    <3>3. \A g \in Handler : hs[g].pc # "save"
      BY <3>1 DEF Sound, Placed
    <3>4. \A g \in Handler : hs'[g].pc # "save"
      BY <2>5, <3>3, StepHandler DEF VoiceInsert, Sound
    <3> QED
      BY <3>1, <3>2, <3>4 DEF NewRow, Alone, Reported
  <2>6. ASSUME NEW h \in Handler, ReadLog(h) PROVE Alone'
    <3>1. UNCHANGED <<log, final>> /\ log # NoLog
      BY <2>6 DEF ReadLog, twilioVars
    <3>2. \A g \in Handler : hs[g].pc # "save"
      BY <1>6, <2>6 DEF ReadLog, Mishap
    <3>3. /\ hs'[h].pc = "save" /\ hs'[h].entity = log
          /\ \A g \in Handler \ {h} : hs'[g] = hs[g]
      BY <2>6, ReadHandler DEF Sound
    <3>4. pc' \notin Saving
      BY <1>2, <2>1, <3>3
    <3> QED
      BY <2>2, <3>1, <3>2, <3>3, <3>4 DEF Alone, Reported
  <2>7. ASSUME NEW h \in Handler, SaveLog(h) PROVE Alone'
    <3> DEFINE e == hs[h].entity
               k == hs[h].hook
    <3>1. hs[h].pc = "save" /\ UNCHANGED final
      BY <2>7 DEF SaveLog, twilioVars
    <3>2. k \in {"completed", "missed", "recording"} /\ e \in Row /\ log' = Merge(e, Patch(k))
      BY <2>7, SaveHandler
    <3>3. log'.status = IF k = "recording" THEN e.status ELSE k
      BY <3>2, SavedRow
    <3>4. k # "recording" => final = k
      BY <3>1, <3>2 DEF Ended, StatusHook
    <3>5. Reported(e)
      BY <2>2, <3>1, <3>2, NoLogAssumption
    <3>6. log'.status = "in-progress" \/ (final' # "none" /\ log'.status = final')
      BY <3>1, <3>2, <3>3, <3>4, <3>5 DEF Reported
    <3>7. \A g \in Handler : hs'[g].pc # "save"
      BY <2>2, <2>7, <3>1, SaveHandler
    <3>8. pc' \notin Saving
      BY <1>2, <2>2, <3>1
    <3> QED
      BY <3>1, <3>6, <3>7, <3>8 DEF Alone, Reported
  <2>8. ASSUME NEW h \in Handler, NEW table \in {"volume", "kpi"}, Rollup(h, table)
        PROVE  Alone'
    BY <2>3, <2>8, RollupHandler DEF Rollup, Sound
  <2>9. CASE UNCHANGED log /\ \A h \in Handler : Quiet(h)
    BY <2>3, <2>9 DEF Quiet
  <2> QED
    BY <1>1, <2>4, <2>5, <2>6, <2>7, <2>8, <2>9, StepKinds
<1> QED
  BY <1>1, <1>5, <1>6 DEF Alone

LEMMA SharedStep == Shared /\ [PipelineNext]_allVars => Shared'
<1> SUFFICES ASSUME Shared, [PipelineNext]_allVars PROVE Shared'
  OBVIOUS
<1>1. CASE Api
  BY <1>1, ApiStepShared DEF Api
<1>2. CASE AddJob
  <2>1. log \in Row /\ UNCHANGED <<vars, pc, entity, verdict, crossed>>
    BY <1>2 DEF AddJob, Shared, Sound, TypeOK, LogTypeOK
  <2>2. Sound' /\ Ended'
    BY <2>1, StepSound, EndedStep DEF Shared
  <2>3. Worked' /\ Alone'
    BY <2>1 DEF vars, twilioVars, Shared, Worked, Alone, Reported
  <2> QED
    BY <2>2, <2>3 DEF Shared
<1>3. CASE WorkerStep \/ WorkerDeath
  BY <1>3, JobStepShared DEF WorkerStep, WorkerDeath
<1>4. CASE UNCHANGED allVars
  <2>1. UNCHANGED <<vars, job, pc, entity, verdict, crossed>>
    BY <1>4 DEF allVars, workerVars
  <2>2. Sound' /\ Ended'
    BY <2>1, StepSound, EndedStep DEF Shared
  <2>3. Worked' /\ Alone'
    BY <2>1 DEF vars, twilioVars, Shared, Worked, Alone, Reported
  <2> QED
    BY <2>2, <2>3 DEF Shared
<1> QED
  BY <1>1, <1>2, <1>3, <1>4 DEF PipelineNext

\* Nobody has held a copy of the row while another did.
Lone == "stale" \notin mishaps /\ ~crossed

Known(row) == row.result = "known" \/ row.department = "known"

\* The stretches of an attempt before, at and after the transcript.
Copying == {"copy", "fetch", "refetch", "upload", "keyRead", "keySave"}
Transcribing == {"transcribe", "textRead", "textSave"}
Judging == {"fresh", "classify", "classRead", "classSave"}

\* There is a URL, hence a job, only of a call that was answered.
Answered ==
    /\ recorded => final = "completed"
    /\ job # "none" => recorded
    /\ \A h \in Handler : hs[h].pc # "idle" /\ hs[h].hook = "recording" => recorded
    /\ log # NoLog => /\ log.url => recorded
                      /\ log.result = "not_connected" => final = "missed"

\* The row has a verdict only if it has a transcript; so an attempt that transcribes finds
\* no verdict, and one that judges finds an incomplete one.
Progress ==
    /\ pc # "off" => job # "none"
    /\ pc \in Copying \cup {"load", "transcribe"} => ~summary
    /\ hasText => log # NoLog /\ log.text
    /\ log # NoLog /\ Known(log) => job # "none" /\ log.text
    /\ pc \in Copying /\ ~hasText => ~log.text
    /\ pc \in Transcribing => ~log.text
    /\ pc \in Analysing => log.text
    /\ pc \in Judging /\ summary => ~Known(log)
    /\ pc \in Judging \ {"fresh"} => ~Classified(log)

Judged == Lone => Answered /\ Progress

LEMMA JudgedInit == PipelineInit => Judged
  BY IdleTyped
  DEF PipelineInit, Init, Judged, Answered, Progress, Copying, Transcribing, Judging, Analysing

\* The saves of the job, in the columns that matter here.
LEMMA SavedColumns ==
    ASSUME log \in Row, log' \in Row, verdict \in Verdict,
           pc \in Saving => entity = log, SaveKey \/ SaveText \/ SaveClass
    PROVE  /\ SaveKey \/ SaveText =>
                 /\ log'.result = log.result /\ log'.department = log.department
                 /\ log'.scored = log.scored
           /\ SaveKey => log'.text = log.text
           /\ SaveText => log'.text = TRUE
           /\ SaveClass => /\ log'.text = log.text
                           /\ log'.result = verdict.result /\ log'.result \in {"none", "known"}
                           /\ log'.department = verdict.department
<1>1. ASSUME SaveKey
      PROVE  /\ log'.result = log.result /\ log'.department = log.department
             /\ log'.scored = log.scored /\ log'.text = log.text
  <2>1. log' = [log EXCEPT !.key = TRUE]
    BY <1>1, SavedKey DEF SaveKey, Saving
  <2> QED
    BY <2>1 DEF Row
<1>2. ASSUME SaveText
      PROVE  /\ log'.result = log.result /\ log'.department = log.department
             /\ log'.scored = log.scored /\ log'.text = TRUE
  <2>1. log' = [log EXCEPT !.text = TRUE]
    BY <1>2, SavedText DEF SaveText, Saving
  <2> QED
    BY <2>1 DEF Row
<1>3. ASSUME SaveClass
      PROVE  /\ log'.text = log.text
             /\ log'.result = verdict.result /\ log'.result \in {"none", "known"}
             /\ log'.department = verdict.department
  <2>1. log' = [log EXCEPT !.result = verdict.result, !.department = verdict.department,
                           !.scored = TRUE]
    BY <1>3, SavedVerdict DEF SaveClass, Saving
  <2> QED
    BY <2>1 DEF Row, Verdict
<1> QED
  BY <1>1, <1>2, <1>3

\* A step of the job, on the part of the row that it writes.
LEMMA JobProgress ==
    ASSUME Worked, Progress, log \in Row, log' \in Row,
           pc \in Saving => entity = log, Work \/ WorkerDies
    PROVE  Progress'
<1> DEFINE Same == /\ log'.result = log.result /\ log'.department = log.department
                   /\ log'.scored = log.scored
<1>0. log # NoLog /\ log' # NoLog
  BY NoLogAssumption
<1> USE DEF Progress, Copying, Transcribing, Judging, Analysing
<1>1. CASE StartAttempt
  BY <1>0, <1>1 DEF StartAttempt, Known
<1>2. CASE Load
  BY <1>0, <1>2 DEF Load, Goto, Known
<1>3. CASE Copy \/ Fetch \/ UploadCopy \/ FetchAgain
  BY <1>0, <1>3 DEF Copy, Fetch, UploadCopy, FetchAgain, Goto, Rest, Known
<1>4. CASE CopyFails \/ NoTurns \/ AnalysisFails
  BY <1>0, <1>4 DEF CopyFails, NoTurns, AnalysisFails, Swallow, Return, Goto, Rest, Known
<1>5. CASE ReadRow
  BY <1>0, <1>5 DEF ReadRow, Goto, Known, Classified
<1>6. CASE SaveKey
  <2>1. Same /\ log'.text = log.text
    BY <1>6, SavedColumns DEF Worked
  <2>2. Known(log') = Known(log)
    BY <2>1 DEF Known
  <2> QED
    BY <1>0, <1>6, <2>1, <2>2 DEF SaveKey, Goto, Rest
<1>7. CASE SaveText
  <2>1. Same /\ log'.text
    BY <1>7, SavedColumns DEF Worked
  <2>2. Known(log') = Known(log)
    BY <2>1 DEF Known
  <2>3. ~Known(log)
    BY <1>0, <1>7 DEF SaveText
  <2> QED
    BY <1>0, <1>7, <2>1, <2>2, <2>3 DEF SaveText, Goto, Rest
<1>8. CASE SaveClass
  <2>1. log'.text = log.text
    BY <1>8, SavedColumns DEF Worked
  <2> QED
    BY <1>0, <1>8, <2>1 DEF SaveClass, Goto
<1>9. CASE Transcribe
  BY <1>0, <1>9 DEF Transcribe, Goto
<1>10. CASE Fresh
  BY <1>0, <1>10 DEF Fresh, Return, Goto, Rest, Classified
<1>11. CASE Classify
  BY <1>0, <1>11 DEF Classify, Goto, Known, Classified
<1>12. CASE AddKpi \/ Complete
  BY <1>0, <1>12 DEF AddKpi, Complete, Return, Goto, Rest
<1>13. CASE AttemptThrows \/ WorkerDies
  BY <1>0, <1>13 DEF AttemptThrows, WorkerDies, FailWith, Throw, Rest
<1> QED
  BY <1>1, <1>2, <1>3, <1>4, <1>5, <1>6, <1>7, <1>8, <1>9, <1>10, <1>11, <1>12, <1>13
  DEF Work

LEMMA JobStepJudged ==
    ASSUME Shared, Judged, Work \/ WorkerDies, UNCHANGED apiVars, Watch
    PROVE  Judged'
<1> SUFFICES ASSUME Lone' PROVE Answered' /\ Progress'
  BY DEF Judged
<1>1. UNCHANGED <<final, recorded, hs, mishaps>>
  BY DEF apiVars, twilioVars
<1>2. Lone /\ Answered /\ Progress
  BY <1>1 DEF Lone, Watch, Judged
<1>3. Worked /\ LogTypeOK
  BY DEF Shared, Sound, TypeOK
<1>4. log \in Row /\ log' \in Row /\ log # NoLog /\ log' # NoLog
  BY <1>3, JobEffect, NoLogAssumption DEF Worked
<1>5. pc \in Saving => entity = log
  BY <1>2, <1>4 DEF Shared, Alone, Lone
<1>6. Progress'
  BY <1>2, <1>3, <1>4, <1>5, JobProgress
<1>7. job # "none"
  BY <1>2, <1>3, JobEffect DEF Progress
<1>8. log'.url = log.url
  BY <1>3, <1>5, JobEffect DEF Keeps
<1>9. log'.result = "not_connected" => log.result = "not_connected"
  <2>1. CASE SaveKey \/ SaveText \/ SaveClass
    BY <1>3, <1>4, <1>5, <2>1, SavedColumns DEF Worked
  <2>2. CASE ~(SaveKey \/ SaveText \/ SaveClass)
    <3>1. log' = log
      BY <2>2 DEF Work, StartAttempt, Load, Copy, Fetch, FetchAgain, UploadCopy, CopyFails,
                  ReadRow, Transcribe, NoTurns, AttemptThrows, Fresh, Classify, AddKpi,
                  AnalysisFails, Complete, WorkerDies
    <3> QED
      BY <3>1
  <2> QED
    BY <2>1, <2>2
<1>10. Answered'
  BY <1>1, <1>2, <1>4, <1>7, <1>8, <1>9 DEF Answered
<1> QED
  BY <1>6, <1>10

\* Twilio has a recording of an answered call only, and keeps it.
LEMMA RecordingStays ==
    ASSUME Sound, Ended, recorded => final = "completed", [Next]_vars
    PROVE  (recorded => recorded') /\ (recorded' => final' = "completed")
<1>1. ASSUME NEW f \in {"completed", "missed"}, HangUp(f)
      PROVE  (recorded => recorded') /\ (recorded' => final' = "completed")
  BY <1>1 DEF HangUp, Ended
<1>2. UNCHANGED recorded \/ \E f \in {"completed", "missed"} : HangUp(f)
  BY DEF Next, Deliver, DropCall, HandlerStep, VoiceRouted, VoiceUnrouted, VoiceCheck,
         VoiceInsert, VoiceAnswer, VoiceInsertFails, Decline, ReadLog, ReadNothing, SaveLog,
         SaveFails, Rollup, Crash, vars, twilioVars
<1>3. final # "none" => final' = final
  BY FinalStays
<1> QED
  BY <1>1, <1>2, <1>3

\* A request is about a recording only if there is one.
LEMMA RecordingHandlers ==
    ASSUME Sound, Ended, recorded => final = "completed", [Next]_vars,
           \A h \in Handler : hs[h].pc # "idle" /\ hs[h].hook = "recording" => recorded
    PROVE  \A h \in Handler : hs'[h].pc # "idle" /\ hs'[h].hook = "recording" => recorded'
<1> DEFINE Goal ==
        \A h \in Handler : hs'[h].pc # "idle" /\ hs'[h].hook = "recording" => recorded'
<1>0. recorded => recorded'
  BY RecordingStays
<1>1. ASSUME \A h \in Handler :
               \/ hs'[h] = hs[h] \/ hs'[h].pc = "idle" \/ hs'[h].hook = "voice"
               \/ hs[h].pc # "idle" /\ hs'[h].hook = hs[h].hook
      PROVE  Goal
  BY <1>0, <1>1
<1>2. ASSUME NEW h \in Handler, NEW k \in Hook, Deliver(h, k) PROVE Goal
  <2>1. hs'[h].hook = k /\ \A g \in Handler \ {h} : hs'[g] = hs[g]
    BY <1>2, DeliverHandler DEF Sound
  <2>2. k = "recording" => recorded
    BY <1>2 DEF Deliver, Due
  <2> QED
    BY <1>0, <2>1, <2>2
<1>3. ASSUME NEW h \in Handler, VoiceInsert(h) PROVE Goal
  BY <1>1, <1>3, StepHandler DEF VoiceInsert, Sound
<1>4. ASSUME NEW h \in Handler, ReadLog(h) PROVE Goal
  BY <1>1, <1>4, ReadHandler DEF ReadLog, Sound
<1>5. ASSUME NEW h \in Handler, SaveLog(h) PROVE Goal
  BY <1>1, <1>5, SaveHandler DEF SaveLog
<1>6. ASSUME NEW h \in Handler, NEW table \in {"volume", "kpi"}, Rollup(h, table) PROVE Goal
  BY <1>1, <1>6, RollupHandler DEF Rollup, Sound
<1>7. CASE \A h \in Handler : Quiet(h)
  <2>1. ASSUME NEW h \in Handler, hs'[h].pc \in {"check", "insert"}
        PROVE  hs'[h].hook = "voice"
    BY <2>1, StepSound DEF Sound, Placed
  <2> QED
    BY <1>1, <1>7, <2>1 DEF Quiet
<1> QED
  BY <1>2, <1>3, <1>4, <1>5, <1>6, <1>7, StepKinds

LEMMA ApiStepJudged ==
    ASSUME Shared, Judged, Next, UNCHANGED workerVars, Watch
    PROVE  Judged'
<1> SUFFICES ASSUME Lone' PROVE Answered' /\ Progress'
  BY DEF Judged
<1>0. Sound /\ Ended /\ [Next]_vars
  BY DEF Shared
<1>1. UNCHANGED <<job, pc, hasText, summary>>
  BY DEF workerVars
<1>2. Lone /\ Answered /\ Progress
  BY <1>0, FinalStays DEF Lone, Watch, Judged
<1>3. /\ (recorded => recorded') /\ (recorded' => final' = "completed")
      /\ \A h \in Handler : hs'[h].pc # "idle" /\ hs'[h].hook = "recording" => recorded'
  BY <1>0, <1>2, RecordingStays, RecordingHandlers DEF Answered
<1>4. final # "none" => final' = final
  BY <1>0, FinalStays
<1>5. ASSUME log' = log PROVE Answered' /\ Progress'
  <2>1. Answered'
    BY <1>1, <1>2, <1>3, <1>4, <1>5 DEF Answered
  <2>2. Known(log') = Known(log) /\ Classified(log') = Classified(log)
    BY <1>5
  <2> QED
    BY <1>1, <1>2, <1>5, <2>1, <2>2 DEF Progress
<1>6. ASSUME NEW h \in Handler, VoiceInsert(h) PROVE Answered' /\ Progress'
  <2>1. log = NoLog /\ log' = NewRow
    BY <1>6 DEF VoiceInsert
  <2>2. pc = "off" /\ job = "none"
    BY <2>1, NoLogAssumption DEF Shared, Worked
  <2>3. ~hasText
    BY <1>2, <2>1 DEF Progress
  <2>4. Progress'
    BY <1>1, <2>1, <2>2, <2>3
    DEF Progress, NewRow, Known, Copying, Transcribing, Judging, Analysing
  <2> QED
    BY <1>1, <1>3, <2>1, <2>2, <2>4 DEF Answered, NewRow
<1>7. ASSUME NEW h \in Handler, SaveLog(h) PROVE Answered' /\ Progress'
  <2> DEFINE k == hs[h].hook
  <2>1. hs[h].pc = "save" /\ log \in Row /\ log # NoLog
    BY <1>0, <1>7, NoLogAssumption DEF SaveLog, Sound, Placed
  <2>2. hs[h].entity = log
    BY <1>2, <2>1 DEF Shared, Alone, Lone
  <2>3. /\ k \in {"completed", "missed", "recording"}
        /\ log' = Merge(log, Patch(k)) /\ log' # NoLog
    BY <1>0, <1>7, <2>2, SaveHandler, NoLogAssumption
  <2>4. k # "recording" => final = k
    BY <1>0, <2>1, <2>3 DEF Ended, StatusHook
  <2>5. k = "recording" => recorded
    BY <1>2, <2>1 DEF Answered
  <2> HIDE DEF k
  <2>6. /\ log'.result = IF k = "missed" THEN "not_connected" ELSE log.result
        /\ log'.url = (log.url \/ k = "recording")
        /\ log'.text = log.text /\ log'.scored = log.scored
        /\ log'.department = log.department
    BY <2>1, <2>3, SavedRow
  <2>7. Answered'
    BY <1>1, <1>2, <1>3, <1>4, <2>1, <2>3, <2>4, <2>5, <2>6 DEF Answered
  <2>8. CASE k = "missed"
    <3>1. job = "none" /\ pc = "off"
      BY <1>2, <2>4, <2>8 DEF Answered, Progress
    <3>2. ~Known(log')
      BY <1>2, <2>1, <2>6, <2>8, <3>1 DEF Progress, Known
    <3> QED
      BY <1>1, <1>2, <2>1, <2>3, <2>6, <2>7, <3>1, <3>2
      DEF Progress, Copying, Transcribing, Judging, Analysing
  <2>9. CASE k # "missed"
    <3>1. Known(log') = Known(log) /\ Classified(log') = Classified(log)
      BY <2>6, <2>9 DEF Known, Classified
    <3> QED
      BY <1>1, <1>2, <2>1, <2>3, <2>6, <2>7, <3>1 DEF Progress
  <2> QED
    BY <2>8, <2>9
<1>8. log' = log \/ \E h \in Handler : VoiceInsert(h) \/ SaveLog(h)
  BY <1>0, StepKinds DEF Deliver, ReadLog, Rollup
<1> QED
  BY <1>5, <1>6, <1>7, <1>8

LEMMA JudgedStep == Shared /\ Judged /\ [PipelineNext]_allVars => Judged'
<1> SUFFICES ASSUME Shared, Judged, [PipelineNext]_allVars PROVE Judged'
  OBVIOUS
<1>1. CASE Api
  BY <1>1, ApiStepJudged DEF Api
<1>2. CASE AddJob
  <2>1. /\ log # NoLog /\ log.url /\ job = "none" /\ job' = "waiting"
        /\ UNCHANGED <<vars, pc, hasText, summary, crossed>>
    BY <1>2 DEF AddJob
  <2>2. UNCHANGED <<log, mishaps, final, recorded, hs>>
    BY <2>1 DEF vars, twilioVars
  <2>3. Known(log') = Known(log) /\ Classified(log') = Classified(log)
    BY <2>2
  <2> QED
    BY <2>1, <2>2, <2>3 DEF Judged, Lone, Answered, Progress
<1>3. CASE WorkerStep \/ WorkerDeath
  BY <1>3, JobStepJudged DEF WorkerStep, WorkerDeath
<1>4. CASE UNCHANGED allVars
  <2>1. UNCHANGED <<log, mishaps, final, recorded, hs, job, pc, hasText, summary, crossed>>
    BY <1>4 DEF allVars, vars, twilioVars, workerVars
  <2>2. Known(log') = Known(log) /\ Classified(log') = Classified(log)
    BY <2>1
  <2> QED
    BY <2>1, <2>2 DEF Judged, Lone, Answered, Progress
<1> QED
  BY <1>1, <1>2, <1>3, <1>4 DEF PipelineNext

\* As long as no two of them hold copies of the row at once, what a webhook or the job has
\* filled in stays, though each saves whole rows: every save is then made from the row as
\* it is, for any number of handlers and of attempts, whatever fails.  Only a verdict that
\* left a part open can lose the other part, to an attempt that did not hear the call.
THEOREM RowKeepsItsGains == PipelineSpec => RowOnlyGains
<1> DEFINE Gains == /\ log.status # "in-progress" => log'.status = log.status
                    /\ \A c \in {"url", "key", "text", "scored"} : log[c] => log'[c]
           Part(c) == log[c] \notin {"none", log'[c]} =>
                          ~Classified(log) /\ pc = "classSave" /\ ~summary
           Judges == \A c \in {"result", "department"} : Part(c)
<1>1. ASSUME Shared, [PipelineNext]_allVars, log # NoLog, "stale" \notin mishaps, ~crossed
      PROVE  Gains
  <2>0. /\ log \in Row
        /\ \A h \in Handler : hs[h].pc = "save" => hs[h].entity = log
        /\ pc \in Saving => entity = log
    BY <1>1 DEF Shared, Sound, TypeOK, LogTypeOK, Alone
  <2>1. UNCHANGED log => Gains
    OBVIOUS
  <2>2. Keeps(log, log') => Gains
    BY DEF Keeps
  <2>3. CASE Api
    <3>1. ASSUME NEW h \in Handler, SaveLog(h) PROVE Gains
      <4>1. hs[h].entity = log /\ hs[h].pc = "save"
        BY <2>0, <3>1 DEF SaveLog
      <4> DEFINE k == hs[h].hook
      <4>2. k \in {"completed", "missed", "recording"} /\ log' = Merge(log, Patch(k))
        BY <1>1, <3>1, <4>1, SaveHandler DEF Shared
      <4>3. /\ log'.status = IF k = "recording" THEN log.status ELSE k
            /\ log'.url = (log.url \/ k = "recording")
            /\ log'.key = log.key /\ log'.text = log.text /\ log'.scored = log.scored
        <5> HIDE DEF k
        <5> QED
          BY <2>0, <4>2, SavedRow
      <4>4. k # "recording" => final = k
        BY <1>1, <4>1, <4>2 DEF Shared, Ended, StatusHook
      <4>5. Reported(log)
        BY <1>1 DEF Shared, Alone
      <4> QED
        BY <4>3, <4>4, <4>5 DEF Reported
    <3>2. UNCHANGED log \/ \E h \in Handler : SaveLog(h)
      BY <1>1, <2>3, StepKinds DEF Api, Shared, Deliver, VoiceInsert, ReadLog, Rollup
    <3> QED
      BY <2>1, <3>1, <3>2
  <2>4. CASE AddJob
    BY <2>1, <2>4 DEF AddJob, vars
  <2>5. CASE WorkerStep \/ WorkerDeath
    <3>1. \/ log' = log
          \/ pc \in Saving /\ Keeps(entity, log')
      BY <1>1, <2>5, JobEffect DEF WorkerStep, WorkerDeath, Shared, Sound, TypeOK
    <3> QED
      BY <2>0, <2>1, <2>2, <3>1
  <2>6. CASE UNCHANGED allVars
    BY <2>1, <2>6 DEF allVars, vars
  <2> QED
    BY <1>1, <2>3, <2>4, <2>5, <2>6 DEF PipelineNext
<1>2. ASSUME Shared, Judged, [PipelineNext]_allVars, log # NoLog, "stale" \notin mishaps,
             ~crossed
      PROVE  Judges
  <2>0. /\ log \in Row
        /\ \A h \in Handler : hs[h].pc = "save" => hs[h].entity = log
        /\ pc \in Saving => entity = log
        /\ Answered /\ Progress
    BY <1>2 DEF Shared, Sound, TypeOK, LogTypeOK, Alone, Judged, Lone
  <2>1. ASSUME log'.result = log.result, log'.department = log.department PROVE Judges
    BY <2>1
  <2>2. ASSUME NEW h \in Handler, SaveLog(h) PROVE Judges
    <3> DEFINE k == hs[h].hook
    <3>1. hs[h].pc = "save" /\ hs[h].entity = log
      BY <2>0, <2>2 DEF SaveLog
    <3>2. k \in {"completed", "missed", "recording"} /\ log' = Merge(log, Patch(k))
      BY <1>2, <2>2, <3>1, SaveHandler DEF Shared
    <3>3. k # "recording" => final = k
      BY <1>2, <3>1, <3>2 DEF Shared, Ended, StatusHook
    <3> HIDE DEF k
    <3>4. /\ log'.result = IF k = "missed" THEN "not_connected" ELSE log.result
          /\ log'.department = log.department
      BY <2>0, <3>2, SavedRow
    <3>5. k = "missed" => log.result \in {"none", "not_connected"}
      BY <1>2, <2>0, <3>3 DEF Answered, Progress, Known, Row
    <3> QED
      BY <3>4, <3>5
  <2>3. ASSUME SaveClass PROVE Judges
    <3>1. pc = "classSave" /\ log # NoLog
      BY <1>2, <2>3 DEF SaveClass
    <3>2. ~Classified(log) /\ recorded /\ final = "completed"
      BY <2>0, <3>1 DEF Answered, Progress, Judging
    <3>3. log.result # "not_connected"
      BY <1>2, <2>0, <3>2 DEF Answered
    <3>4. summary => log.result = "none" /\ log.department = "none"
      BY <2>0, <3>1, <3>3 DEF Progress, Judging, Known, Row
    <3> QED
      BY <3>1, <3>2, <3>4
  <2>4. ASSUME SaveKey \/ SaveText PROVE Judges
    <3>1. Worked /\ LogTypeOK
      BY <1>2 DEF Shared, Sound, TypeOK
    <3>2. Work
      BY <2>4 DEF Work
    <3>3. log' \in Row
      BY <2>0, <3>1, <3>2, JobEffect
    <3> QED
      BY <2>0, <2>1, <2>4, <3>1, <3>3, SavedColumns DEF Worked
  <2>5. \/ UNCHANGED log \/ SaveKey \/ SaveText \/ SaveClass
        \/ \E h \in Handler : SaveLog(h)
    <3>1. CASE Api
      BY <1>2, <3>1, StepKinds DEF Api, Shared, Deliver, VoiceInsert, ReadLog, Rollup
    <3>2. CASE WorkerStep \/ WorkerDeath
      BY <3>2 DEF WorkerStep, WorkerDeath, Work, StartAttempt, Load, Copy, Fetch, FetchAgain,
                  UploadCopy, CopyFails, ReadRow, Transcribe, NoTurns, AttemptThrows, Fresh,
                  Classify, AddKpi, AnalysisFails, Complete, WorkerDies
    <3>3. CASE AddJob \/ UNCHANGED allVars
      BY <3>3 DEF AddJob, vars, allVars
    <3> QED
      BY <1>2, <3>1, <3>2, <3>3 DEF PipelineNext
  <2> QED
    BY <2>1, <2>2, <2>3, <2>4, <2>5
<1>3. Shared /\ Judged /\ [PipelineNext]_allVars
        => [log # NoLog /\ "stale" \notin mishaps /\ ~crossed => Gains /\ Judges]_allVars
  BY <1>1, <1>2
<1> QED
  BY <1>3, SharedInit, SharedStep, JudgedInit, JudgedStep, PTL
  DEF PipelineSpec, RowOnlyGains, Gains, Judges, Part

\* And the row stays a row, the tables count, the handlers are in order.
THEOREM SharedTypeCorrect == PipelineSpec => []TypeOK
<1>1. Shared => TypeOK
  BY DEF Shared, Sound
<1> QED
  BY <1>1, SharedInit, SharedStep, PTL DEF PipelineSpec

\* The job does not let a second request forward the call, or lose the row of the first.
THEOREM SharedForwardedOnce == PipelineSpec => []ForwardedOnceAndLogged
<1>1. PipelineInit => Answering
  BY ForwardedInit DEF PipelineInit
<1>2. ASSUME Shared, Answering, [PipelineNext]_allVars
      PROVE  Answering'
  <2>1. CASE [Next]_vars
    BY <1>2, <2>1, ForwardedStep DEF Shared
  <2>2. CASE WorkerStep \/ WorkerDeath
    <3>1. log \in Row /\ log' \in Row
      BY <1>2, <2>2, JobEffect
      DEF WorkerStep, WorkerDeath, Shared, Sound, TypeOK, Worked
    <3>2. UNCHANGED <<forwards, hs, mishaps>>
      BY <2>2 DEF WorkerStep, WorkerDeath, apiVars, replyVars
    <3> QED
      BY <1>2, <3>1, <3>2, NoLogAssumption DEF Answering, ForwardedOnceAndLogged
  <2> QED
    BY <1>2, <2>1, <2>2 DEF PipelineNext, Api, AddJob, allVars
<1>3. Answering => ForwardedOnceAndLogged
  BY DEF Answering
<1> QED
  BY <1>1, <1>2, <1>3, SharedInit, SharedStep, PTL DEF PipelineSpec

-----------------------------------------------------------------------------
(* Copies of the row and the bucket *)

\* The row, and the copies of it that somebody is about to save.
Held(e) ==
    \/ e = log /\ log # NoLog
    \/ e = entity /\ pc \in Saving
    \/ \E h \in Handler : e = hs[h].entity /\ hs[h].pc = "save"

\* Alike in what only the job writes.
Alike(d, e) == d.key = e.key /\ d.text = e.text

\* Wherever a key is, the object is in the bucket.
Bucketed ==
    /\ pc \in Copied => s3
    /\ \A e \in Row : Held(e) /\ e.key => s3

\* Until a handler and the worker hold copies at once, all copies show what the job has
\* done so far, and it is never a transcript without a key.
Agreed ==
    ~crossed =>
        /\ \A h \in Handler : pc \in Saving => hs[h].pc # "save"
        /\ \A d, e \in Row : Held(d) /\ Held(e) => Alike(d, e)
        /\ \A e \in Row : Held(e) => (e.text => e.key) /\ (pc \in Keyed => e.key)

\* A step of the webhooks makes no copy that shows more or less of the job's work; the
\* first row shows none of it.
LEMMA ApiCopies ==
    ASSUME Shared, Next, UNCHANGED workerVars
    PROVE  \/ \A e \in Row : Held(e)' => \E d \in Row : Held(d) /\ Alike(d, e)
           \/ pc = "off" /\ \A e \in Row : Held(e)' => e = NewRow
<1> USE DEF Shared
<1>1. UNCHANGED <<pc, entity>>
  BY DEF workerVars
<1>2. [Next]_vars
  OBVIOUS
<1>3. \A e \in Row : Alike(e, e)
  BY DEF Alike
<1>4. ASSUME UNCHANGED log, \A h \in Handler : hs'[h] = hs[h] \/ hs'[h].pc # "save"
      PROVE  \A e \in Row : Held(e)' => Held(e)
  BY <1>1, <1>4 DEF Held
<1>5. ASSUME NEW h \in Handler, NEW k \in Hook, Deliver(h, k)
      PROVE  \A e \in Row : Held(e)' => Held(e)
  BY <1>4, <1>5, DeliverHandler DEF Deliver, Sound
<1>6. ASSUME NEW h \in Handler, VoiceInsert(h)
      PROVE  pc = "off" /\ \A e \in Row : Held(e)' => e = NewRow
  <2>1. log \notin Row /\ log' = NewRow
    BY <1>6, NoLogAssumption DEF VoiceInsert
  <2>2. pc = "off" /\ \A g \in Handler : hs[g].pc # "save"
    BY <2>1 DEF Worked, Sound, Placed
  <2>3. \A g \in Handler : hs'[g].pc # "save"
    BY <1>6, <2>2, StepHandler DEF VoiceInsert, Sound
  <2> QED
    BY <1>1, <2>1, <2>2, <2>3 DEF Held, Saving
<1>7. ASSUME NEW h \in Handler, ReadLog(h)
      PROVE  \A e \in Row : Held(e)' => Held(e)
  <2>1. UNCHANGED log /\ log # NoLog
    BY <1>7 DEF ReadLog
  <2>2. hs'[h].entity = log /\ \A g \in Handler \ {h} : hs'[g] = hs[g]
    BY <1>7, ReadHandler DEF Sound
  <2> QED
    BY <1>1, <2>1, <2>2 DEF Held
<1>8. ASSUME NEW h \in Handler, SaveLog(h)
      PROVE  \A e \in Row : Held(e)' => \E d \in Row : Held(d) /\ Alike(d, e)
  <2> DEFINE k == hs[h].hook
             d == hs[h].entity
  <2>1. /\ k \in {"completed", "missed", "recording"} /\ d \in Row
        /\ log' = Merge(d, Patch(k))
        /\ hs'[h].pc # "save" /\ \A g \in Handler \ {h} : hs'[g] = hs[g]
    BY <1>8, SaveHandler
  <2>2. Held(d)
    BY <1>8 DEF SaveLog, Held
  <2>3. Alike(d, log')
    <3> HIDE DEF k, d
    <3> QED
      BY <2>1, SavedRow DEF Alike
  <2>4. ASSUME NEW e \in Row, Held(e)' PROVE e = log' \/ Held(e)
    BY <1>1, <2>1, <2>4 DEF Held
  <2> HIDE DEF d
  <2> QED
    BY <1>3, <2>1, <2>2, <2>3, <2>4
<1>9. ASSUME NEW h \in Handler, NEW table \in {"volume", "kpi"}, Rollup(h, table)
      PROVE  \A e \in Row : Held(e)' => Held(e)
  BY <1>4, <1>9, RollupHandler DEF Rollup, Sound
<1>10. CASE UNCHANGED log /\ \A h \in Handler : Quiet(h)
  BY <1>3, <1>4, <1>10 DEF Quiet
<1> QED
  BY <1>2, <1>3, <1>5, <1>6, <1>7, <1>8, <1>9, <1>10, StepKinds

\* What a step of the job does to key and transcript.
JobWrites ==
    \/ log' = log /\ (pc' \in Keyed => pc \in Keyed \/ log.key)
    \/ pc = "keySave" /\ log'.key /\ log'.text = entity.text
    \/ pc = "textSave" /\ log'.key = entity.key
    \/ pc = "classSave" /\ Alike(entity, log')

LEMMA JobMoves ==
    ASSUME Worked, pc \in Copied => s3, Work \/ WorkerDies
    PROVE  (s3 => s3') /\ (pc' \in Copied => s3') /\ JobWrites
<1> USE DEF Copied, Keyed, JobWrites
<1>1. CASE StartAttempt
  BY <1>1 DEF StartAttempt
<1>2. CASE Load
  <2>1. log.key \in BOOLEAN /\ log.text \in BOOLEAN
    BY <1>2 DEF Load, Worked, Row
  <2>2. /\ UNCHANGED <<log, s3>>
        /\ pc' = CASE ~log.key -> "copy"
                   [] log.key /\ log.text -> "fresh"
                   [] OTHER -> "transcribe"
    BY <1>2 DEF Load, Goto
  <2>3. CASE log.key
    <3>1. pc' \in {"fresh", "transcribe"}
      BY <2>1, <2>2, <2>3
    <3> QED
      BY <2>2, <2>3, <3>1
  <2>4. CASE ~log.key
    <3>1. pc' = "copy"
      BY <2>1, <2>2, <2>4
    <3> QED
      BY <2>2, <3>1
  <2> QED
    BY <2>1, <2>3, <2>4
<1>3. CASE Copy \/ Fetch \/ FetchAgain \/ UploadCopy
  BY <1>3 DEF Copy, Fetch, FetchAgain, UploadCopy, Goto
<1>4. CASE CopyFails \/ NoTurns \/ AnalysisFails
  BY <1>4 DEF CopyFails, NoTurns, AnalysisFails, Swallow, Return, Goto
<1>5. CASE ReadRow
  BY <1>5 DEF ReadRow, Goto
<1>6. CASE SaveKey
  <2>1. entity \in Row /\ log' = [entity EXCEPT !.key = TRUE]
    BY <1>6, SavedKey DEF SaveKey, Worked, Saving
  <2>2. log'.key /\ log'.text = entity.text
    BY <2>1 DEF Row
  <2> QED
    BY <1>6, <2>2 DEF SaveKey, Goto
<1>7. CASE SaveText
  <2>1. entity \in Row /\ log' = [entity EXCEPT !.text = TRUE]
    BY <1>7, SavedText DEF SaveText, Worked, Saving
  <2>2. log'.key = entity.key
    BY <2>1 DEF Row
  <2> QED
    BY <1>7, <2>2 DEF SaveText, Goto
<1>8. CASE SaveClass
  <2>1. /\ entity \in Row
        /\ log' = [entity EXCEPT !.result = verdict.result,
                                 !.department = verdict.department, !.scored = TRUE]
    BY <1>8, SavedVerdict DEF SaveClass, Worked, Saving
  <2>2. Alike(entity, log')
    BY <2>1 DEF Row, Alike
  <2> QED
    BY <1>8, <2>2 DEF SaveClass, Goto
<1>9. CASE Transcribe \/ Fresh \/ Classify \/ AddKpi \/ Complete
  BY <1>9 DEF Transcribe, Fresh, Classify, AddKpi, Complete, Return, Goto
<1>10. CASE AttemptThrows \/ WorkerDies
  BY <1>10 DEF AttemptThrows, WorkerDies, FailWith, Throw
<1> QED
  BY <1>1, <1>2, <1>3, <1>4, <1>5, <1>6, <1>7, <1>8, <1>9, <1>10 DEF Work

\* Who holds a copy after a step of the job.
LEMMA JobCopies ==
    ASSUME Shared, Work \/ WorkerDies, UNCHANGED apiVars
    PROVE  /\ log \in Row /\ Held(log) /\ (pc \in Saving => entity \in Row /\ Held(entity))
           /\ log' \in Row
           /\ \/ log' = log /\ \A e \in Row : Held(e)' => Held(e)
              \/ /\ pc \in Saving
                 /\ \A e \in Row : Held(e)' =>
                        \/ e = log'
                        \/ Held(e) /\ \E h \in Handler : hs[h].pc = "save"
<1>1. LogTypeOK /\ Worked /\ log \in Row /\ log' \in Row /\ hs' = hs
  BY JobEffect DEF Shared, Sound, TypeOK, Worked, apiVars
<1>2. log # NoLog
  BY <1>1, NoLogAssumption
<1>3. CASE log' = log /\ (pc' \in Saving => entity' = log)
  <2>1. \A e \in Row : Held(e)' => Held(e)
    BY <1>1, <1>2, <1>3 DEF Held
  <2> QED
    BY <1>1, <1>2, <1>3, <2>1 DEF Held, Worked
<1>4. CASE pc \in Saving /\ pc' \notin Saving
  <2>1. \A e \in Row : Held(e)' =>
            e = log' \/ (Held(e) /\ \E h \in Handler : hs[h].pc = "save")
    BY <1>1, <1>4 DEF Held
  <2> QED
    BY <1>1, <1>2, <1>4, <2>1 DEF Held, Worked
<1> QED
  BY <1>1, <1>3, <1>4, JobEffect

LEMMA JobStepBucket ==
    ASSUME Shared, Bucketed, Agreed, Work \/ WorkerDies, UNCHANGED apiVars, Watch
    PROVE  Bucketed' /\ Agreed'
<1>1. /\ (s3 => s3') /\ (pc' \in Copied => s3') /\ JobWrites
      /\ pc \in Copied => s3
  BY JobMoves DEF Shared, Bucketed
<1>2. \A e \in Row : Held(e) /\ e.key => s3
  BY DEF Bucketed
<1>3. Saving = {"keySave", "textSave", "classSave"} /\ "keySave" \in Copied
      /\ "textSave" \in Keyed /\ "classSave" \in Keyed
  BY DEF Saving, Copied, Keyed
<1>4. ASSUME NEW e \in Row, Held(e)', e.key PROVE s3'
  <2>1. CASE Held(e)
    BY <1>1, <1>2, <1>4, <2>1
  <2>2. CASE e = log' /\ pc \in Saving
    BY <1>1, <1>2, <1>3, <1>4, <2>2, JobCopies DEF JobWrites, Alike
  <2> QED
    BY <1>4, <2>1, <2>2, JobCopies
<1>5. ASSUME ~crossed' PROVE Agreed'
  <2>1. ~crossed /\ hs' = hs /\ \A h \in Handler : pc' \in Saving => hs'[h].pc # "save"
    BY <1>5 DEF Watch, Saving, apiVars
  <2>2. /\ \A h \in Handler : pc \in Saving => hs[h].pc # "save"
        /\ \A d, e \in Row : Held(d) /\ Held(e) => Alike(d, e)
        /\ \A e \in Row : Held(e) => (e.text => e.key) /\ (pc \in Keyed => e.key)
    BY <2>1 DEF Agreed
  <2>3. CASE log' = log /\ \A e \in Row : Held(e)' => Held(e)
    <3>1. pc' \in Keyed => log.key
      <4>1. pc \in Keyed => log.key
        BY <2>2, JobCopies
      <4> QED
        BY <1>1, <1>3, <2>3, <4>1 DEF JobWrites
    <3>2. \A e \in Row : Held(e) => e.key = log.key
      BY <2>2, JobCopies DEF Alike
    <3> QED
      BY <2>1, <2>2, <2>3, <3>1, <3>2 DEF Agreed
  <2>4. CASE log' # log /\ pc \in Saving /\ \A e \in Row : Held(e)' => e = log'
    <3>1. entity \in Row /\ Held(entity) /\ log \in Row /\ Held(log)
      BY <2>4, JobCopies
    <3>2. log'.key
      <4>1. pc \in Keyed => entity.key
        BY <2>2, <3>1
      <4>2. pc = "keySave" => log'.key
        BY <1>1, <2>4 DEF JobWrites
      <4>3. pc # "keySave" => log'.key = entity.key
        BY <1>1, <2>4 DEF JobWrites, Alike
      <4> QED
        BY <1>3, <2>4, <4>1, <4>2, <4>3
    <3> QED
      BY <2>1, <2>4, <3>2 DEF Agreed, Alike
  <2>5. log' = log => \A e \in Row : Held(e)' => Held(e)
    BY JobCopies
  <2>6. log' # log => pc \in Saving /\ \A e \in Row : Held(e)' => e = log'
    BY <2>2, JobCopies
  <2> QED
    BY <2>3, <2>4, <2>5, <2>6
<1> QED
  BY <1>1, <1>4, <1>5 DEF Bucketed, Agreed

LEMMA ApiStepBucket ==
    ASSUME Shared, Bucketed, Agreed, Next, UNCHANGED workerVars, Watch
    PROVE  Bucketed' /\ Agreed'
<1>1. UNCHANGED <<pc, s3>>
  BY DEF workerVars
<1>2. ~NewRow.key /\ ~NewRow.text /\ "off" \notin Copied /\ "off" \notin Keyed
  BY DEF NewRow, Copied, Keyed
<1>3. ~crossed' => ~crossed /\ \A h \in Handler : pc' \in Saving => hs'[h].pc # "save"
  BY DEF Watch, Saving
<1>4. CASE \A e \in Row : Held(e)' => \E d \in Row : Held(d) /\ Alike(d, e)
  <2>1. Bucketed'
    BY <1>1, <1>4 DEF Bucketed, Alike
  <2>2. Agreed'
    BY <1>1, <1>3, <1>4 DEF Agreed, Alike
  <2> QED
    BY <2>1, <2>2
<1>5. CASE pc = "off" /\ \A e \in Row : Held(e)' => e = NewRow
  BY <1>1, <1>2, <1>3, <1>5 DEF Bucketed, Agreed, Alike
<1> QED
  BY <1>4, <1>5, ApiCopies

\* When neither acts, copies are what they were.
LEMMA CopiesStay ==
    ASSUME UNCHANGED <<vars, pc, entity>>
    PROVE  \A e : Held(e)' <=> Held(e)
  BY DEF Held, vars

\* A key stands for an object in the bucket in every copy of the row, however saves cross;
\* and a transcript for a key until a webhook and the worker hold copies at once: one
\* copy at a time is not needed for that, since webhooks agree in what the job has written.
THEOREM RowPointsToBucket == PipelineSpec => []RowMatchesBucket
<1>1. PipelineInit => Bucketed /\ Agreed
  <2>1. PipelineInit => \A h \in Handler : hs[h].pc = "idle"
    BY IdleTyped DEF PipelineInit, Init
  <2> QED
    BY <2>1 DEF PipelineInit, Init, Bucketed, Agreed, Held, Copied, Saving
<1>2. ASSUME Shared, Bucketed, Agreed, [PipelineNext]_allVars
      PROVE  Bucketed' /\ Agreed'
  <2>1. CASE Api
    BY <1>2, <2>1, ApiStepBucket DEF Api
  <2>2. CASE WorkerStep \/ WorkerDeath
    BY <1>2, <2>2, JobStepBucket DEF WorkerStep, WorkerDeath
  <2>3. CASE AddJob \/ UNCHANGED allVars
    <3>1. UNCHANGED <<vars, pc, entity, s3, crossed>>
      BY <2>3 DEF AddJob, allVars, workerVars
    <3>2. hs' = hs /\ \A e : Held(e)' <=> Held(e)
      BY <3>1, CopiesStay DEF vars
    <3> QED
      BY <1>2, <3>1, <3>2 DEF Bucketed, Agreed
  <2> QED
    BY <1>2, <2>1, <2>2, <2>3 DEF PipelineNext
<1>3. ASSUME Shared, Bucketed, Agreed PROVE RowMatchesBucket
  <2>1. log # NoLog => log \in Row /\ Held(log)
    BY <1>3 DEF Shared, Sound, TypeOK, LogTypeOK, Held
  <2> QED
    BY <1>3, <2>1 DEF RowMatchesBucket, Bucketed, Agreed
<1> QED
  BY <1>1, <1>2, <1>3, SharedInit, SharedStep, PTL DEF PipelineSpec

-----------------------------------------------------------------------------
(* What a first attempt hears, with webhooks that save the row *)

\* As Hearing, of every copy of the row: a transcript is the work of an earlier attempt, or
\* of this one.
Heeding ==
    /\ tried \in Nat /\ FirstAttemptHears
    /\ job # "active" => pc = "off"
    /\ pc # "off" => tried >= 1
    /\ \A e \in Row : Held(e) /\ e.text => tried >= 1 /\ (pc = "load" => tried > 1)
    /\ hasText => tried > 1
    /\ pc \in {"textRead", "textSave"} => summary
    /\ pc \in Analysing => summary \/ tried > 1

\* What a step of the job does to what it has heard.
LEMMA JobHears ==
    ASSUME Heeding, Worked, Work \/ WorkerDies, log.text => tried >= 1,
           pc = "load" /\ log.text => tried > 1
    PROVE  /\ tried' \in Nat /\ tried' >= tried /\ FirstAttemptHears'
           /\ job' # "active" => pc' = "off"
           /\ pc' # "off" => tried' >= 1
           /\ pc' = "load" => tried' > tried
           /\ hasText' => tried' > 1
           /\ pc' \in {"textRead", "textSave"} => summary'
           /\ pc' \in Analysing => summary' \/ tried' > 1
           /\ pc \in Saving => tried' >= 1 /\ pc' # "load"
<1> USE DEF Heeding, FirstAttemptHears, Analysing
<1>1. CASE StartAttempt
  BY <1>1 DEF StartAttempt, Saving
<1>2. CASE Load
  BY <1>2 DEF Load, Goto, Saving
<1>3. CASE Copy \/ Fetch \/ FetchAgain \/ UploadCopy
  BY <1>3 DEF Copy, Fetch, FetchAgain, UploadCopy, Goto, Rest, Saving
<1>4. CASE CopyFails \/ NoTurns \/ AnalysisFails
  BY <1>4 DEF CopyFails, NoTurns, AnalysisFails, Swallow, Return, Goto, Rest, Saving
<1>5. CASE ReadRow \/ Transcribe \/ Fresh \/ Classify
  BY <1>5 DEF ReadRow, Transcribe, Fresh, Classify, Return, Goto, Rest, Saving
<1>6. CASE SaveKey \/ SaveText \/ SaveClass
  BY <1>6 DEF SaveKey, SaveText, SaveClass, Goto, Rest, Saving
<1>7. CASE AddKpi \/ Complete
  BY <1>7 DEF AddKpi, Complete, Return, Goto, Rest, Saving
<1>8. CASE AttemptThrows \/ WorkerDies
  BY <1>8 DEF AttemptThrows, WorkerDies, FailWith, Throw, Rest, Saving
<1> QED
  BY <1>1, <1>2, <1>3, <1>4, <1>5, <1>6, <1>7, <1>8 DEF Work

LEMMA JobStepHeeding ==
    ASSUME Shared, Heeding, Work \/ WorkerDies, UNCHANGED apiVars
    PROVE  Heeding'
<1>1. log.text => tried >= 1 /\ (pc = "load" => tried > 1)
  BY JobCopies DEF Heeding
<1>2. /\ tried' \in Nat /\ tried' >= tried /\ FirstAttemptHears'
      /\ job' # "active" => pc' = "off"
      /\ pc' # "off" => tried' >= 1
      /\ pc' = "load" => tried' > tried
      /\ hasText' => tried' > 1
      /\ pc' \in {"textRead", "textSave"} => summary'
      /\ pc' \in Analysing => summary' \/ tried' > 1
      /\ pc \in Saving => tried' >= 1 /\ pc' # "load"
  BY <1>1, JobHears DEF Shared
<1>3. ASSUME NEW e \in Row, Held(e)', e.text
      PROVE  tried' >= 1 /\ (pc' = "load" => tried' > 1)
  <2>1. CASE Held(e)
    BY <1>2, <1>3, <2>1 DEF Heeding
  <2>2. CASE pc \in Saving
    BY <1>2, <2>2
  <2> QED
    BY <1>3, <2>1, <2>2, JobCopies
<1> QED
  BY <1>2, <1>3 DEF Heeding

\* Also with webhooks that save the row, whatever crosses: they cannot bring back a
\* transcript that no attempt has made, so the first attempt hears what it classifies.
THEOREM SharedFirstVerdictHeard == PipelineSpec => []FirstAttemptHears
<1>1. PipelineInit => Heeding
  <2>1. PipelineInit => \A h \in Handler : hs[h].pc = "idle"
    BY IdleTyped DEF PipelineInit, Init
  <2> QED
    BY <2>1 DEF PipelineInit, Init, Heeding, FirstAttemptHears, Held, Saving, Analysing
<1>2. ASSUME Shared, Heeding, [PipelineNext]_allVars PROVE Heeding'
  <2>1. CASE Api
    <3>1. UNCHANGED <<job, pc, tried, hasText, summary, heard>>
      BY <2>1 DEF Api, workerVars
    <3>2. ~NewRow.text
      BY DEF NewRow
    <3>3. \A e \in Row : Held(e)' /\ e.text => tried >= 1 /\ (pc = "load" => tried > 1)
      BY <1>2, <2>1, <3>2, ApiCopies DEF Api, Alike, Heeding
    <3> QED
      BY <1>2, <3>1, <3>3 DEF Heeding, FirstAttemptHears
  <2>2. CASE WorkerStep \/ WorkerDeath
    BY <1>2, <2>2, JobStepHeeding DEF WorkerStep, WorkerDeath
  <2>3. CASE AddJob \/ UNCHANGED allVars
    <3>1. UNCHANGED <<vars, pc, entity, tried, hasText, summary, heard>>
          /\ (job' = job \/ (job = "none" /\ job' = "waiting"))
      BY <2>3 DEF AddJob, allVars, workerVars
    <3>2. \A e : Held(e)' <=> Held(e)
      BY <3>1, CopiesStay
    <3> QED
      BY <1>2, <3>1, <3>2 DEF Heeding, FirstAttemptHears
  <2> QED
    BY <1>2, <2>1, <2>2, <2>3 DEF PipelineNext
<1>3. Heeding => FirstAttemptHears
  BY DEF Heeding
<1> QED
  BY <1>1, <1>2, <1>3, SharedInit, SharedStep, PTL DEF PipelineSpec

=============================================================================
