---------------------------- MODULE CallWebhooks ----------------------------
(***************************************************************************)
(* TwilioController: the voice, call-status and recording webhooks of one  *)
(* call, each handled by CallLogsService in several awaits, and the hourly *)
(* rollups the status webhook starts and does not wait for.  Twilio sends  *)
(* a webhook again when it got no answer, and does not wait for one        *)
(* webhook before it sends the next.                                       *)
(***************************************************************************)
EXTENDS CallLog

CONSTANTS
    Handler,   \* requests the API may be serving at once for this call
    MaxSend,   \* how often Twilio sends one webhook (bound)
    Faults     \* "resend", "noAnswer", "crash", "dbFails"

ASSUME SendAssumption == MaxSend \in Nat
ASSUME FaultAssumption == Faults \subseteq {"resend", "noAnswer", "crash", "dbFails"}

VARIABLES
    call,      \* Twilio's view of the call
    final,     \* the final status Twilio reports, "none" until the call is over
    recorded,  \* Twilio has a finished recording of it
    sent,      \* how often each webhook was sent
    hs,        \* the request each handler is serving
    forwards,  \* answers that forward the call
    declined,  \* a routed call was answered with "Number not recognized."
    mishaps    \* history: what has happened so far that some promises except

twilioVars == <<call, final, recorded, sent>>
replyVars == <<forwards, declined>>
vars == <<log, volume, kpi, call, final, recorded, sent, hs, forwards, declined, mishaps>>

Hook == {"voice", "completed", "missed", "recording"}

\* todo: the hourly tables still to be written for the saved row.
HandlerState == [pc : {"idle", "start", "check", "insert", "answer", "save", "rollup"},
                 hook : Hook, entity : Row \cup {NoLog}, todo : SUBSET {"volume", "kpi"}]
Idle == [pc |-> "idle", hook |-> "voice", entity |-> NoLog, todo |-> {}]

\* stale: a row was read while another request was between reading and saving it.
\* early: a status or recording webhook found no row.  failure: a statement failed, or
\* the process died.
MishapKinds == {"stale", "early", "failure"}

TypeOK ==
    /\ LogTypeOK
    /\ call \in {"ringing", "talking", "over"}
    /\ final \in {"none", "completed", "missed"}
    /\ recorded \in BOOLEAN
    /\ sent \in [Hook -> 0..MaxSend]
    /\ hs \in [Handler -> HandlerState]
    /\ forwards \in Nat
    /\ declined \in BOOLEAN
    /\ mishaps \subseteq MishapKinds

Init ==
    /\ log = NoLog /\ volume = 0 /\ kpi = 0
    /\ call = "ringing" /\ final = "none" /\ recorded = FALSE
    /\ sent = [k \in Hook |-> 0]
    /\ hs = [h \in Handler |-> Idle]
    /\ forwards = 0 /\ declined = FALSE
    /\ mishaps = {}

Mishap(kind) == mishaps' = mishaps \cup {kind}

-----------------------------------------------------------------------------
(* Twilio (external) *)

Due(k) ==
    CASE k = "voice"     -> call = "ringing"
      [] k = "recording" -> recorded
      [] OTHER           -> final = k

\* A webhook reaches an idle handler, whose signature check accepts it.
Deliver(h, k) ==
    /\ hs[h].pc = "idle"
    /\ Due(k)
    /\ sent[k] < MaxSend
    /\ sent[k] > 0 => "resend" \in Faults
    /\ sent' = [sent EXCEPT ![k] = @ + 1]
    /\ hs' = [hs EXCEPT ![h] = [Idle EXCEPT !.pc = "start", !.hook = k]]
    /\ UNCHANGED <<log, volume, kpi, call, final, recorded, replyVars, mishaps>>

\* The parties hang up; the other leg was answered and recorded, or was not.
HangUp(f) ==
    /\ call = "talking"
    /\ call' = "over" /\ final' = f
    /\ recorded' \in {FALSE, f = "completed"}
    /\ UNCHANGED <<log, volume, kpi, sent, hs, replyVars, mishaps>>

\* No answer to the voice webhook in time: Twilio drops the call.
DropCall ==
    /\ "noAnswer" \in Faults
    /\ call = "ringing" /\ sent["voice"] > 0
    /\ call' = "over" /\ final' = "missed"
    /\ UNCHANGED <<log, volume, kpi, recorded, sent, hs, replyVars, mishaps>>

\* An answer arrives, or is lost and Twilio will ask again.
TwilioHears(next, f) ==
    \/ call = "ringing" /\ call' = next /\ final' = f
    \/ (call # "ringing" \/ "resend" \in Faults) /\ UNCHANGED <<call, final>>

Done(h) == hs' = [hs EXCEPT ![h] = Idle]
Step(h, pc) == hs' = [hs EXCEPT ![h].pc = pc]

-----------------------------------------------------------------------------
(* voice *)

\* Active number and active route with a forwarding number: go on.
VoiceRouted(h) ==
    /\ hs[h].pc = "start" /\ hs[h].hook = "voice"
    /\ Step(h, "check")
    /\ UNCHANGED <<log, volume, kpi, twilioVars, replyVars, mishaps>>

\* No such number or route: say so and hang up.
VoiceUnrouted(h) ==
    /\ hs[h].pc = "start" /\ hs[h].hook = "voice"
    /\ Done(h)
    /\ TwilioHears("over", "completed")
    /\ UNCHANGED <<log, volume, kpi, recorded, sent, replyVars, mishaps>>

\* Any exception after the route is known ends in the same spoken answer.
Decline(h) ==
    /\ Done(h)
    /\ declined' = TRUE
    /\ TwilioHears("over", "completed")
    /\ UNCHANGED <<log, volume, kpi, recorded, sent, forwards>>

\* Variant: answer first, log in the background.
VoiceCheckAnswersFirst(h) ==
    /\ hs[h].pc = "check"
    /\ Step(h, "insert")
    /\ forwards' = forwards + 1
    /\ TwilioHears("talking", "none")
    /\ UNCHANGED <<log, volume, kpi, recorded, sent, declined, mishaps>>

\* createBySid: look for a row with this SID ...
VoiceCheck(h) ==
    /\ hs[h].pc = "check"
    /\ \/ log # NoLog /\ Decline(h) /\ UNCHANGED mishaps
       \/ log = NoLog /\ Step(h, "insert")
          /\ UNCHANGED <<log, volume, kpi, twilioVars, replyVars, mishaps>>

\* ... then insert it; the unique index on the SID stops a second insert ...
VoiceInsert(h) ==
    /\ hs[h].pc = "insert"
    /\ log = NoLog
    /\ log' = NewRow
    /\ Step(h, "answer")
    /\ UNCHANGED <<volume, kpi, twilioVars, replyVars, mishaps>>

\* ... and, once the commit is confirmed, answer with the number to forward to.
VoiceAnswer(h) ==
    /\ hs[h].pc = "answer"
    /\ forwards' = forwards + 1
    /\ Done(h)
    /\ TwilioHears("talking", "none")
    /\ UNCHANGED <<log, volume, kpi, recorded, sent, declined, mishaps>>

\* The insert is refused, or the database fails before or after it commits.
VoiceInsertFails(h) ==
    /\ \/ hs[h].pc = "insert" /\ log # NoLog /\ UNCHANGED mishaps
       \/ hs[h].pc \in {"insert", "answer"} /\ "dbFails" \in Faults /\ Mishap("failure")
    /\ Decline(h)

-----------------------------------------------------------------------------
(* call-status and recording: updateBySid, then for a final status the rollups *)

Patch(k) ==
    CASE k = "completed" -> [status |-> "completed"]
      [] k = "missed"    -> [status |-> "missed", result |-> "not_connected"]
      [] k = "recording" -> [url |-> TRUE]

\* Variant: both tables for every final status.
RollupsBoth(k) == IF k = "recording" THEN {} ELSE {"volume", "kpi"}

\* Completed calls count in the volume table, missed ones in both.
Rollups(k) ==
    CASE k = "completed" -> {"volume"}
      [] k = "missed"    -> {"volume", "kpi"}
      [] k = "recording" -> {}

ReadLog(h) ==
    /\ hs[h].pc = "start" /\ hs[h].hook # "voice"
    /\ log # NoLog
    /\ hs' = [hs EXCEPT ![h] = [@ EXCEPT !.pc = "save", !.entity = log]]
    /\ IF \E g \in Handler : hs[g].pc = "save" THEN Mishap("stale") ELSE UNCHANGED mishaps
    /\ UNCHANGED <<log, volume, kpi, twilioVars, replyVars>>

\* NotFoundException, answered 404.
ReadNothing(h) ==
    /\ hs[h].pc = "start" /\ hs[h].hook # "voice"
    /\ log = NoLog
    /\ Done(h)
    /\ Mishap("early")
    /\ UNCHANGED <<log, volume, kpi, twilioVars, replyVars>>

\* Variant: the saved row is built from the webhook instead of the entity that was read.
SaveLogFromWebhook(h) ==
    LET k == hs[h].hook
        merged == Merge(NewRow, Patch(k)) IN
    /\ hs[h].pc = "save"
    /\ log' = merged
    /\ hs' = [hs EXCEPT ![h] =
                 IF Rollups(k) = {} THEN Idle
                 ELSE [pc |-> "rollup", hook |-> k, entity |-> merged, todo |-> Rollups(k)]]
    /\ UNCHANGED <<volume, kpi, twilioVars, replyVars, mishaps>>

\* Variant: no rollup after a completed call.
SaveLogUncounted(h) ==
    /\ hs[h].pc = "save"
    /\ log' = Merge(hs[h].entity, Patch(hs[h].hook))
    /\ Done(h)
    /\ UNCHANGED <<volume, kpi, twilioVars, replyVars, mishaps>>

SaveLog(h) ==
    LET k == hs[h].hook
        merged == Merge(hs[h].entity, Patch(k)) IN
    /\ hs[h].pc = "save"
    /\ log' = merged
    /\ hs' = [hs EXCEPT ![h] =
                 IF Rollups(k) = {} THEN Idle
                 ELSE [pc |-> "rollup", hook |-> k, entity |-> merged, todo |-> Rollups(k)]]
    /\ UNCHANGED <<volume, kpi, twilioVars, replyVars, mishaps>>

SaveFails(h) ==
    /\ hs[h].pc = "save"
    /\ "dbFails" \in Faults
    /\ Done(h)
    /\ Mishap("failure")
    /\ UNCHANGED <<log, volume, kpi, twilioVars, replyVars>>

\* INSERT ... ON CONFLICT DO UPDATE adds one; the two tables are written side by side.
Rollup(h, table) ==
    /\ hs[h].pc = "rollup"
    /\ table \in hs[h].todo
    /\ volume' = volume + (IF table = "volume" THEN 1 ELSE 0)
    /\ kpi' = kpi + (IF table = "kpi" THEN 1 ELSE 0)
    /\ hs' = [hs EXCEPT ![h] =
                 IF @.todo = {table} THEN Idle ELSE [@ EXCEPT !.todo = hs[h].todo \ {table}]]
    /\ UNCHANGED <<log, twilioVars, replyVars, mishaps>>

\* The process dies, and every request it was serving with it.  It also dies when a
\* rollup fails: nothing handles the rejection of the promise behind `void`.
Crash ==
    /\ \/ "crash" \in Faults
       \/ "dbFails" \in Faults /\ \E h \in Handler : hs[h].pc = "rollup"
    /\ \E h \in Handler : hs[h].pc # "idle"
    /\ hs' = [h \in Handler |-> Idle]
    /\ Mishap("failure")
    /\ UNCHANGED <<log, volume, kpi, twilioVars, replyVars>>

HandlerStep(h) ==
    \/ VoiceRouted(h) \/ VoiceUnrouted(h) \/ VoiceCheck(h)
    \/ VoiceInsert(h) \/ VoiceAnswer(h) \/ VoiceInsertFails(h)
    \/ ReadLog(h) \/ ReadNothing(h) \/ SaveLog(h) \/ SaveFails(h)
    \/ \E table \in {"volume", "kpi"} : Rollup(h, table)

Next ==
    \/ \E h \in Handler, k \in Hook : Deliver(h, k)
    \/ \E f \in {"completed", "missed"} : HangUp(f)
    \/ DropCall
    \/ \E h \in Handler : HandlerStep(h)
    \/ Crash

Spec == Init /\ [][Next]_vars

\* Twilio sends every webhook that is due at least once, and a request runs to its end.
FairSpec ==
    /\ Spec
    /\ \A k \in Hook : WF_vars(sent[k] = 0 /\ \E h \in Handler : Deliver(h, k))
    /\ \A h \in Handler : WF_vars(HandlerStep(h))

-----------------------------------------------------------------------------
(* Properties *)

\* A call is put through only after its log row is there, and at most one answer puts it
\* through, whatever is sent again, overlaps or dies: otherwise calls would be bridged
\* that no report ever shows, or bridged twice.  And a row whose call is not put through,
\* nor about to be, is there only after a failure between its commit and the answer.
ForwardedOnceAndLogged ==
    /\ forwards <= 1
    /\ forwards = 1 => log # NoLog
    /\ log # NoLog =>
           \/ forwards = 1 \/ "failure" \in mishaps
           \/ \E h \in Handler : hs[h].pc = "answer"

\* A call whose number and route were found is forwarded: the doc comment of voice() says
\* the webhook returns TwiML to forward the call and starts a log row.
RoutedIsForwarded == ~declined

\* What a call's row has gained is never lost again, its final status, its recording URL
\* and the result of a missed call, in whatever order and however often webhooks come,
\* until two requests hold a copy of the row at once: what the one saves in between,
\* the other then writes over, the URL recording() says it persists for instance.
LogOnlyGains ==
    [][log # NoLog /\ "stale" \notin mishaps =>
        /\ log.status # "in-progress" => log'.status = log.status
        /\ log.url => log'.url
        /\ log.result # "none" => log'.result = log.result]_vars

\* As long as no webhook was sent twice, a call is counted at most once per table, only
\* after it ended, and in the KPI table only if it was missed, whatever overlaps or dies.
CountedAtMostOnce ==
    (\A k \in Hook : sent[k] <= 1) =>
        /\ volume <= 1 /\ kpi <= 1
        /\ volume + kpi > 0 => final # "none" /\ log # NoLog
        /\ kpi = 1 => final = "missed"

\* A call that was put through and ended is counted and its row shows the end, also when
\* answers are lost and webhooks repeat, unless one of the mishaps gets in the way.
EndIsRecorded ==
    (forwards = 1 /\ final # "none")
        ~> ((log # NoLog /\ log.status = final /\ volume >= 1) \/ mishaps # {})

=============================================================================
