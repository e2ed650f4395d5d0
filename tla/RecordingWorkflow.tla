-------------------------- MODULE RecordingWorkflow --------------------------
(***************************************************************************)
(* RecordingWorkflowService.ensureProcessed as a queue job for one call:   *)
(* copy the recording to S3, transcribe it, classify the conversation and  *)
(* add the call to the department KPIs.  Each attempt reads the call log   *)
(* and skips what it finds done; the queue (external) starts the job again *)
(* when an attempt throws or its worker dies, up to Attempts times.  Jobs  *)
(* are added from outside the code: the calls in TwilioController that add *)
(* one (with 3 attempts) are commented out, the worker is not.             *)
(*                                                                         *)
(* CallPipeline extends this module and CallWebhooks: what would clash has *)
(* the prefix Job here.                                                    *)
(***************************************************************************)
EXTENDS CallLog

CONSTANTS
    Attempts,  \* attempts of the queue job
    JobFaults, \* "mediaFails", "dbFails", "noSpeech", "s3Fails", "crash"
    MaxFaults, \* failures in one behaviour (bound)
    Outcomes   \* what classifying a conversation may yield, see Verdict

Verdict == [result : {"none", "known"}, department : {"none", "known"}]

ASSUME AttemptAssumption == Attempts \in Nat \ {0} /\ MaxFaults \in Nat
ASSUME OutcomeAssumption == Outcomes \subseteq Verdict
ASSUME JobFaultAssumption ==
    JobFaults \subseteq {"mediaFails", "dbFails", "noSpeech", "s3Fails", "crash"}

VARIABLES
    job,      \* the queue's view: waiting, active, completed or failed
    tried,    \* attempts started
    pc,       \* where the active attempt is
    entity,   \* the row updateBySid has read, to be saved next
    hasText,  \* transcriptText of the row read at the start of the attempt
    summary,  \* this attempt has transcribed, so it has the turns
    verdict,  \* what the classification yielded
    s3,       \* the recording is in the bucket
    heard,    \* "yes" / "no": the last saved classification saw the turns / saw none
    faults,   \* failures so far
    crashes,  \* history: those that killed the worker
    swallowed \* history: an error was logged and the attempt returned

failVars == <<faults, crashes, swallowed>>
jobVars == <<log, volume, kpi, job, tried, pc, entity, hasText, summary, verdict, s3, heard,
             failVars>>

Pc == {"off", "load", "copy", "fetch", "refetch", "upload", "keyRead", "keySave",
       "transcribe", "textRead", "textSave", "fresh", "classify", "classRead", "classSave",
       "kpi", "done"}

Unclear == [result |-> "none", department |-> "none"]

JobTypeOK ==
    /\ LogTypeOK
    /\ job \in {"waiting", "active", "completed", "failed"}
    /\ tried \in 0..Attempts
    /\ pc \in Pc
    /\ entity \in Row \cup {NoLog}
    /\ hasText \in BOOLEAN /\ summary \in BOOLEAN /\ s3 \in BOOLEAN
    /\ verdict \in Verdict
    /\ heard \in {"never", "yes", "no"}
    /\ faults \in 0..MaxFaults /\ crashes \in 0..faults
    /\ swallowed \in BOOLEAN

\* The recording webhook has stored the URL, the call has ended, and a job was added.
JobInit ==
    /\ log = [NewRow EXCEPT !.status = "completed", !.url = TRUE]
    /\ volume = 1 /\ kpi = 0
    /\ job = "waiting" /\ tried = 0 /\ pc = "off"
    /\ entity = NoLog /\ hasText = FALSE /\ summary = FALSE
    /\ verdict = Unclear
    /\ s3 = FALSE /\ heard = "never"
    /\ faults = 0 /\ crashes = 0 /\ swallowed = FALSE

-----------------------------------------------------------------------------
(* The queue (external) and how an attempt ends *)

Rest == <<tried, entity, hasText, summary, verdict, heard>>

StartAttempt ==
    /\ job = "waiting"
    /\ job' = "active" /\ tried' = tried + 1 /\ pc' = "load"
    /\ summary' = FALSE
    /\ UNCHANGED <<log, volume, kpi, entity, hasText, verdict, s3, heard, failVars>>

Goto(next) == pc' = next /\ UNCHANGED job

\* process() returns, whatever was done ...
Return == Goto("done")

\* ... and the worker tells the queue, which is content.
Complete ==
    /\ pc = "done"
    /\ job' = "completed" /\ pc' = "off"
    /\ UNCHANGED <<log, volume, kpi, Rest, s3, failVars>>

\* process() throws or its worker is gone: again, if attempts are left.
Throw ==
    /\ job' = IF tried < Attempts THEN "waiting" ELSE "failed"
    /\ pc' = "off"

Fault(kind) == kind \in JobFaults /\ faults < MaxFaults /\ faults' = faults + 1

\* A failure that ends the attempt as if it had worked, and one that does not.
Swallow(kind) == Fault(kind) /\ Return /\ swallowed' = TRUE /\ UNCHANGED crashes
FailWith(kind) == Fault(kind) /\ Throw /\ UNCHANGED <<crashes, swallowed>>

-----------------------------------------------------------------------------
(* ensureProcessed *)

\* Variant: a recording that has a transcript counts as done.
LoadDoneWithText ==
    /\ pc = "load"
    /\ hasText' = log.text
    /\ IF log.text THEN Return
       ELSE Goto(IF log.key THEN "transcribe" ELSE "copy")
    /\ UNCHANGED <<log, volume, kpi, tried, entity, summary, verdict, s3, heard, failVars>>

\* findOneBySid; the NotFound it throws cannot happen here, the row is never deleted.
Load ==
    /\ pc = "load"
    /\ hasText' = log.text
    /\ Goto(CASE ~log.key             -> "copy"
              [] log.key /\ log.text  -> "fresh"
              [] OTHER                -> "transcribe")
    /\ UNCHANGED <<log, volume, kpi, tried, entity, summary, verdict, s3, heard, failVars>>

\* copyFromTwilio: HeadObject tells whether the object is there from an earlier attempt.
Copy ==
    /\ pc = "copy"
    /\ Goto(IF s3 THEN "keyRead" ELSE "fetch")
    /\ UNCHANGED <<log, volume, kpi, Rest, s3, failVars>>

\* The download starts; the body is streamed on to S3.
Fetch ==
    /\ pc \in {"fetch", "refetch"}
    /\ Goto("upload")
    /\ UNCHANGED <<log, volume, kpi, Rest, s3, failVars>>

\* retry(): a second try after a network error, 429 or 5xx (MAX_TWILIO_ATTEMPTS is 2).
FetchAgain ==
    /\ pc = "fetch" /\ Fault("mediaFails")
    /\ Goto("refetch")
    /\ UNCHANGED <<log, volume, kpi, Rest, s3, crashes, swallowed>>

\* A multipart upload shows the object when it is complete, and nothing of it before.
UploadCopy ==
    /\ pc = "upload"
    /\ s3' = TRUE
    /\ Goto("keyRead")
    /\ UNCHANGED <<log, volume, kpi, Rest, failVars>>

\* Variant: the error is logged and the attempt goes on with the key.
CopyFailsGoesOn ==
    /\ pc \in {"fetch", "refetch", "upload"} /\ Fault("mediaFails")
    /\ Goto("keyRead")
    /\ UNCHANGED <<log, volume, kpi, Rest, s3, crashes, swallowed>>

\* Any error while copying (another 4xx is not tried again, the second try is the last), or
\* while storing the key, is caught and logged: "stop here; retry later", but nothing does.
CopyFails ==
    /\ \/ pc \in {"copy", "fetch", "refetch", "upload"} /\ Swallow("mediaFails")
       \/ pc \in {"keyRead", "keySave"} /\ Swallow("dbFails")
    /\ UNCHANGED <<log, volume, kpi, Rest, s3>>

\* Variant: one copy of the row serves the whole attempt.
ReadRowOnce ==
    /\ pc \in {"keyRead", "textRead", "classRead"}
    /\ entity' = IF entity = NoLog THEN log ELSE entity
    /\ Goto(CASE pc = "keyRead"   -> "keySave"
              [] pc = "textRead"  -> "textSave"
              [] pc = "classRead" -> "classSave")
    /\ UNCHANGED <<log, volume, kpi, tried, hasText, summary, verdict, s3, heard, failVars>>

\* updateBySid, first half, in the three places that use it.
ReadRow ==
    /\ pc \in {"keyRead", "textRead", "classRead"}
    /\ entity' = log
    /\ Goto(CASE pc = "keyRead"   -> "keySave"
              [] pc = "textRead"  -> "textSave"
              [] pc = "classRead" -> "classSave")
    /\ UNCHANGED <<log, volume, kpi, tried, hasText, summary, verdict, s3, heard, failVars>>

SaveKey ==
    /\ pc = "keySave"
    /\ log' = Merge(entity, [key |-> TRUE])
    /\ Goto(IF hasText THEN "fresh" ELSE "transcribe")
    /\ UNCHANGED <<volume, kpi, Rest, s3, failVars>>

\* Variant: only the text is kept.
TranscribeKeepsText ==
    /\ pc = "transcribe"
    /\ Goto("textRead")
    /\ UNCHANGED <<log, volume, kpi, Rest, s3, failVars>>

\* By URL, else by buffer; turns come back and get their roles.
Transcribe ==
    /\ pc = "transcribe"
    /\ summary' = TRUE
    /\ Goto("textRead")
    /\ UNCHANGED <<log, volume, kpi, tried, entity, hasText, verdict, s3, heard, failVars>>

\* Both transcriptions fail or nobody speaks: return.
NoTurns ==
    /\ pc = "transcribe"
    /\ Swallow("noSpeech")
    /\ UNCHANGED <<log, volume, kpi, Rest, s3>>

SaveText ==
    /\ pc = "textSave"
    /\ log' = Merge(entity, [text |-> TRUE])
    /\ Goto("fresh")
    /\ UNCHANGED <<volume, kpi, Rest, s3, failVars>>

\* S3 fails on the way to the transcript, or the database outside a try block.
AttemptThrows ==
    /\ \/ pc = "transcribe" /\ FailWith("s3Fails")
       \/ pc \in {"load", "textRead", "textSave", "fresh"} /\ FailWith("dbFails")
    /\ UNCHANGED <<log, volume, kpi, Rest, s3>>

\* Fresh row: intent is never missing (its default is a value), the rest may be.
Fresh ==
    /\ pc = "fresh"
    /\ \/ /\ ~log.scored \/ log.result = "none" \/ log.department = "none"
          /\ Goto("classify")
       \/ /\ log.scored /\ log.result # "none" /\ log.department # "none"
          /\ Return
    /\ UNCHANGED <<log, volume, kpi, Rest, s3, failVars>>

\* classifyConversation(summary?.turns ?? []): no turns, no verdict.
Classify ==
    /\ pc = "classify"
    /\ verdict' \in IF summary THEN Outcomes ELSE {Unclear}
    /\ Goto("classRead")
    /\ UNCHANGED <<log, volume, kpi, tried, entity, hasText, summary, s3, heard, failVars>>

SaveClass ==
    /\ pc = "classSave"
    /\ log' = Merge(entity, [result |-> verdict.result, department |-> verdict.department,
                             scored |-> TRUE])
    /\ heard' = IF summary THEN "yes" ELSE "no"
    /\ Goto("kpi")
    /\ UNCHANGED <<volume, kpi, tried, entity, hasText, summary, verdict, s3, failVars>>

\* Variant: something after the KPIs may throw.
AddKpiThenThrow ==
    /\ pc = "kpi"
    /\ kpi' = kpi + 1
    /\ \/ Return /\ UNCHANGED failVars
       \/ FailWith("dbFails")
    /\ UNCHANGED <<log, volume, Rest, s3>>

\* updateDepartmentKpisFromCallLog, awaited.
AddKpi ==
    /\ pc = "kpi"
    /\ kpi' = kpi + 1
    /\ Return
    /\ UNCHANGED <<log, volume, Rest, s3, failVars>>

\* An error while saving the verdict or the KPIs is caught and logged.
AnalysisFails ==
    /\ pc \in {"classRead", "classSave", "kpi"}
    /\ Swallow("dbFails")
    /\ UNCHANGED <<log, volume, kpi, Rest, s3>>

\* The queue finds the job stalled and runs it again, or gives it up as stalled too often.
WorkerDies ==
    /\ pc # "off"
    /\ Fault("crash") /\ crashes' = crashes + 1
    /\ Throw \/ (job' = "failed" /\ pc' = "off")
    /\ UNCHANGED <<log, volume, kpi, Rest, s3, swallowed>>

Work ==
    \/ StartAttempt \/ Load \/ Copy \/ Fetch \/ FetchAgain \/ UploadCopy \/ CopyFails
    \/ ReadRow \/ SaveKey \/ Transcribe
    \/ NoTurns \/ SaveText \/ AttemptThrows \/ Fresh \/ Classify \/ SaveClass \/ AddKpi
    \/ AnalysisFails \/ Complete

JobNext == Work \/ WorkerDies

JobSpec == JobInit /\ [][JobNext]_jobVars

\* The worker takes waiting jobs, and each await of an attempt settles.
FairJobSpec == JobSpec /\ WF_jobVars(Work)

-----------------------------------------------------------------------------
(* Properties *)

\* The row never points to an object that is not in the bucket, and a transcript is
\* only stored for a recording that is: GET .../recording hands out URLs on this ground.
KeyMeansStored == (log.key => s3) /\ (log.text => log.key)

\* The call is added to the KPIs once, plus at most once for every time the worker died:
\* attempts repeated because something threw never count again, since everything that
\* can throw comes before the KPIs.
KpiCountedOnce == kpi <= 1 + crashes

\* A verdict that was reached without hearing the conversation is only ever stored by a
\* repeated attempt (which is what then happens: it does not load the stored turns).
FirstAttemptHears == heard = "no" => tried > 1

\* The job ends with the recording stored, transcribed and classified, unless all its
\* attempts were used up or an attempt swallowed an error: what an attempt leaves half
\* done, a later one finds and finishes.
PipelineFinishes ==
    <>((log.key /\ log.text /\ log.scored) \/ job = "failed" \/ swallowed)

=============================================================================
