---------------------------- MODULE CallPipeline ----------------------------
(***************************************************************************)
(* The API and the worker on the row of one call: the webhooks of          *)
(* CallWebhooks in one process, the queue job of RecordingWorkflow in      *)
(* another.  Both read the row, merge and save it, and neither knows of    *)
(* the other; log, volume and kpi are the tables they share.               *)
(***************************************************************************)
EXTENDS CallWebhooks, RecordingWorkflow

VARIABLE
    crossed  \* history: a handler and the worker both were between reading and saving

apiVars == <<twilioVars, hs, replyVars, mishaps>>
workerVars == <<job, tried, pc, entity, hasText, summary, verdict, s3, heard,
                faults, crashes, swallowed>>
allVars == <<vars, workerVars, crossed>>

PipelineInit ==
    /\ Init
    /\ job = "none" /\ tried = 0 /\ pc = "off"
    /\ entity = NoLog /\ hasText = FALSE /\ summary = FALSE
    /\ verdict = Unclear
    /\ s3 = FALSE /\ heard = "never"
    /\ faults = 0 /\ crashes = 0 /\ swallowed = FALSE
    /\ crossed = FALSE

Watch ==
    crossed' = (crossed \/ /\ \E h \in Handler : hs'[h].pc = "save"
                           /\ pc' \in {"keySave", "textSave", "classSave"})

Api == Next /\ UNCHANGED workerVars /\ Watch

\* With the URL of the recording, which the job carries from then on.
AddJob ==
    /\ job = "none" /\ log # NoLog /\ log.url
    /\ job' = "waiting"
    /\ UNCHANGED <<vars, tried, pc, entity, hasText, summary, verdict, s3, heard,
                   faults, crashes, swallowed, crossed>>

WorkerStep == Work /\ UNCHANGED apiVars /\ Watch

WorkerDeath == WorkerDies /\ UNCHANGED apiVars /\ Watch

PipelineNext == Api \/ AddJob \/ WorkerStep \/ WorkerDeath

PipelineSpec == PipelineInit /\ [][PipelineNext]_allVars

\* As in the two modules; that jobs are added is not assumed.
FairPipelineSpec ==
    /\ PipelineSpec
    /\ \A k \in Hook : WF_allVars(sent[k] = 0 /\ (\E h \in Handler : Deliver(h, k))
                                              /\ UNCHANGED workerVars /\ Watch)
    /\ \A h \in Handler : WF_allVars(HandlerStep(h) /\ UNCHANGED workerVars /\ Watch)
    /\ WF_allVars(WorkerStep)

-----------------------------------------------------------------------------
(* Properties *)

Classified(row) == row.scored /\ row.result # "none" /\ row.department # "none"

\* Whatever part of the row a webhook or the job has filled in stays, though each of them
\* saves whole rows, as long as no two of them hold a copy of it at the same time: no copy
\* is kept across the long awaits for Twilio, S3 and the models.  Of a verdict that left a
\* part open, a later attempt that did not hear the conversation may take the other part
\* back ('none' is a value, so `result ?? log.result` keeps nothing); nothing else does.
RowOnlyGains ==
    [][log # NoLog /\ "stale" \notin mishaps /\ ~crossed =>
        /\ log.status # "in-progress" => log'.status = log.status
        /\ \A c \in {"url", "key", "text", "scored"} : log[c] => log'[c]
        /\ \A c \in {"result", "department"} :
               log[c] \notin {"none", log'[c]} =>
                   ~Classified(log) /\ pc = "classSave" /\ ~summary]_allVars

\* However saves cross, a key in the row stands for an object in the bucket; a transcript
\* stands for a key unless a webhook and the worker held copies at once, when the webhook
\* may save the key away between the two saves of the worker.
RowMatchesBucket ==
    log # NoLog => /\ log.key => s3
                   /\ log.text => log.key \/ crossed

\* When the webhooks are through and the job was added, the row ends up with all of it, the
\* final status, URL, key, transcript and verdict, in whatever order webhooks and attempts
\* come, unless a mishap, a crossing, a swallowed error or the end of the attempts is why.
RowIsCompleted ==
    (forwards = 1 /\ final # "none" /\ job # "none")
        ~> \/ log # NoLog /\ log.status = final /\ log.url /\ log.key
                            /\ log.text /\ log.scored
           \/ mishaps # {} \/ crossed \/ swallowed \/ job = "failed"

=============================================================================
