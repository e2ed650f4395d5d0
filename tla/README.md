# Eddii backend: a TLA+ verification project

The repository is a NestJS service (API process and queue worker) that sells call
tracking to businesses. It buys phone numbers from Twilio, forwards the calls that
arrive on them, logs every call, transcribes and classifies the recordings, and
shows hourly aggregates on a dashboard. Postgres (through TypeORM) keeps the state;
Twilio, S3, Deepgram, OpenAI and BullMQ are external.

Paths below are relative to `src/src/` unless they start with `src/`.

## 1. Inventory

| Part | State | Operations | What makes it correct |
|---|---|---|---|
| Call tracking (`modules/call-tracking/call-tracking.service.ts`) | `tracking_numbers` (status, SID, source), `number_routes` | `provision`, `update`, `remove`, `search` | a row, the used count and the Twilio account agree; one removal of a row at a time; only live numbers are routed |
| Businesses (`modules/businesses/businesses.service.ts`) | `businesses`: limit and used count, name, `updated_at` | `create`, `update`, `remove`; `provision` and call-tracking `remove` write the count | never more numbers than the limit; the limit is not set below what is used; names differ; "retry" is answered to contention only |
| Twilio numbers (`modules/twilio/twilio.service.ts`) | the account (external) | `buyIncomingNumber`, `releaseIncomingNumber`, `listAvailableNumbers` | what is reported released is gone |
| Twilio webhooks (`modules/twilio/twilio.controller.ts`) | none of its own | `voice`, `callStatus`, `recording` | a routed call is put through once and logged; its end and its recording reach the row |
| Call logs (`modules/call-logs/call-logs.service.ts`) | `call_logs` | `createBySid`, `updateBySid`, `findOneBySid` | a row only gains information |
| Hourly rollup (`modules/analytics/services/hourly-rollup.service.ts`) | `call_volume_hourly`, `call_department_hourly_kpis` | add a call to one or both tables | each call is counted once, in its hour |
| Recording workflow (`modules/recordings/services/*`, `recording.processor.ts`) | queue job, S3 object, columns of `call_logs` | `ensureProcessed` and the steps it awaits | every recording is stored, transcribed and classified; attempts may repeat |
| Transcription and analysis (`transcription.service.ts`, `analysis.service.ts` of the same) | none of their own | utterances to turns, roles of the speakers, prompts, mapping of the model's answer, keywords | no word is lost or given to somebody else; a verdict has a ground in what was said |
| Marketing sources (`modules/marketing-sources/marketing-sources.service.ts`) | `marketing_sources` | `create`, `update`, `remove`, look-ups | no number names a deleted source; a name is refused for a cause; a deleted source stays as it is |
| Dashboard (`modules/dashboard/services/*`) | a cache in front of the tables | static summary, range summary, chart | a window counts exactly the calls of its days; a cached answer is about what was asked and recent |
| Authentication (`modules/auth/auth.service.ts`) | hash of the refresh token, in the row of the business | `login`, `refresh`, `logout` | a refresh token works once |
| Utilities (`common/utils/async.util.ts`, `db-error.util.ts`) | none | `retry`, `withTimeout`, error translation | what is retryable is retried, nothing else |
| Controllers, DTOs, guards, bootstrap | none | plumbing | one call into a service each |

**How the parts meet.** Handlers of the API run concurrently; between two `await`s
of one handler any other handler, and Twilio, may act. `provision` and `remove`
each touch three stores (count, row, Twilio account) that no transaction spans.
`update`, `remove`, the removal of a source and `provision` meet on rows of
`tracking_numbers` and `number_routes`. The three webhooks of a call, and the
worker, all read a `call_logs` row, merge some columns into the copy and save it.
The status webhook starts the rollups and does not wait for them. The worker
repeats a job when an attempt throws or dies. The dashboard reads what the
rollups have written.

**What is hard here.** Interleavings around `await` (quota, removals, webhooks);
partial failure without a transaction (purchase, compensation, release); crashes
between the two transactions of `remove`; Twilio's lost answers and repeated
webhooks; retries that find half-finished work; READ COMMITTED transactions that
lock rows in different orders; calendar arithmetic at the edges of days and across
time zones. `PROJECT.json` lists these hazards one by one with the line where each
bites and the property that covers it.

## 2. Modules

| Module | Models | Role |
|---|---|---|
| `SlotLedger` | the quota as its users see it: limits, and the slots each business holds | abstract specification |
| `NumberInventory` | `provision`, `remove`, the limit part of businesses `update`, Twilio purchase and release | implements `SlotLedger` |
| `NumberInventoryProofs` | | theorems about `NumberInventory` |
| `Configuration` | call-tracking `update`, the transactions of `remove`, the removal of a source, the source `provision` attaches | row locks, optimistic locking, deadlocks; theorems in `ConfigurationProofs` |
| `SourceNames` | create, update and remove of marketing sources on their own rows | the unique index, optimistic locking; theorems in `SourceNamesProofs` |
| `Accounts` | create, update and remove of businesses, login, refresh and logout, on one table | two services that write the same rows; theorems in `AccountsProofs` |
| `CallLog` | one `call_logs` row, its share of the hourly tables, `Merge` (the heart of `updateBySid`) | shared by the next three |
| `CallWebhooks` | voice, call-status and recording webhooks of one call, Twilio's delivery, the rollups | |
| `RecordingWorkflow` | `ensureProcessed` as a queue job | |
| `CallPipeline` | the two before, on the row of one call | composition; theorems about all three in `CallPipelineProofs` |
| `Conversation` | what becomes of a transcription: turns, roles, prompts, verdict | theorems in `ConversationProofs` |
| `Reporting` | rollup statements with their keys, dashboard windows, buckets, rates | theorems in `ReportingProofs` |
| `DashboardCache` | the requests of the dashboard, their defaults, and the cache | theorems in `DashboardCacheProofs` |
| `MC*` | small instances for TLC | |

### NumberInventory
A provision request `r` buys at most one number and inserts at most one row, so `r`
names the request, the row and the Twilio SID. `max`, `used`, `status`, `sid` are
columns; `owned` and `num` are the account; `pc`, `rem`, `adm` say where each
handler is. Actions are named after the statement between two awaits:
`Reserve` / `Refuse` are the conditional UPDATE of `provision`, `Buy`, `BuyFails`,
`Persist`, `PersistFails`, `Compensate`, `Rollback` the rest of it;
`MarkReleasing`, `LookupSid`, `ReleaseNumber`, `FinaliseDeleted`,
`FinaliseReverted`, `FinaliseFails` are `remove`; `GuardLimit`, `CommitLimit`,
`GiveUpLimit` are businesses `update`; `CrashProvision`, `CrashRemove` end a
handler anywhere. `Faults` selects what the environment may do wrong. The retry
loop inside `releaseIncomingNumber` is one step with the outcomes the whole loop
can have (`ReleaseOutcomes`).

Promises that hold only until something specific happens are conditioned on the
history variable `mishaps`, which records just those events; each mishap is a
behaviour of the code, not an assumption about it. The same convention is used in
`CallWebhooks` and `Configuration`.

### Configuration
Each transaction is split into its statements. `rowLock`, `routeLock`, `srcLock`
say which transaction has locked a row; a statement that needs a locked row is not
enabled until the lock is free (READ COMMITTED then looks at the row again);
`Deadlocked` transactions wait in a circle, and any one of them may be aborted
(`UpVictim` tries again, `Victim` fails; a removal of a source is a victim only with
several numbers, which the run does not have).
Writes become visible at commit, so the actions before it only take locks.
`outdated` stands for "`updated_at` is not what I read"; `stale` is the history it
ought to agree with: the row itself has changed. `update()` never looks at the status
of the row, so `UpBegin` asks for an update of any row there is, Releasing and Released
ones too, and `RmMark` takes a Released row as it takes an Active one. `rerouted` names
the numbers for whose route an update was under way when the routes were closed, or was
asked for since.

Waits that foreign keys and unique indexes bring about are left out. Attaching a source
locks it FOR KEY SHARE, which its soft deletion, no change of a key, does not conflict
with. The second transaction of `remove` does change a key: it clears
`twilio_phone_sid`, which has a unique index over all rows (tracking-number.entity.ts:41).
It and an update that inserts a route for the number, whose foreign key locks the row
FOR KEY SHARE, therefore wait for each other. The model lets both go on, so it has every
order the code has and some more, and it hides no deadlock: `remove` waits there before
it holds anything, and the update waits for a removal that has still to close the committed
routes only, of which there are none while a route is being inserted.

### CallWebhooks, RecordingWorkflow
Both work on `CallLog`, one row. `ReadLog` / `SaveLog` and `ReadRow` / `Save*` are
the two halves of `updateBySid`, so other requests get in between. TypeORM's
`save()` compares the merged entity with the row of that moment and writes the
columns that differ, which makes the row equal to the merged entity; it is one step.
In `CallWebhooks`, Twilio (external) rings, connects, ends and records the call,
and sends each webhook up to `MaxSend` times to any idle handler. The commit of the row
(`VoiceInsert`) and the answer that forwards the call (`VoiceAnswer`) are two steps: a
process that dies between them leaves a row whose call nobody put through.
In `RecordingWorkflow`, the queue (external) starts attempts; `Swallow` and
`FailWith` are the two ways the code meets an error: log it and return, or throw.
`Copy` looks the object up in the bucket, `Fetch` and `FetchAgain` are the two
attempts of the download, `UploadCopy` the upload.
The calls that add jobs are commented out in `TwilioController.recording` at this
commit (the worker is not), so jobs are taken to be added from outside, with the 3
attempts the commented call asks for.

### CallPipeline
EXTENDS `CallWebhooks` and `RecordingWorkflow` (whose `Init`, `Next`, `Spec` and the like
begin with `Job`); `log`, `volume` and `kpi` are shared, all other variables belong to
one of the two. `Api`, `WorkerStep` and `WorkerDeath` are the steps of the two modules as
they are; `AddJob` adds a job once the URL is stored. `crossed`
notes that a request and the worker held copies of the row at once, which is the one thing
that makes a save of the one undo the other.

### Conversation
An utterance is its speaker, its times, its length, the punctuation at its ends and
the cues it contains, one cue for each alternative of the keyword expressions: what
the expressions match in a text is abstracted, in which order they are asked and how
hits are counted is kept. Recording goes on (`Hear`) until the turns are labelled (by
the model's map or the heuristic), forgotten (a repeated attempt has none) and
classified (by the model, whose answer may be outside the schema, or by keywords).
The two prompt builders are operators; times are whole numbers.

### SourceNames, Accounts
One step per statement that commits. `writes` counts the writes of a row and stands
for `updated_at`, so "the row was not written since" is what the code's WHERE clause
compares; as in `Configuration`, two writes within a millisecond are told apart. In
`Accounts` a sign-in, a refresh and a sign-out write the row of a business too, which
is how they get in the way of `update`. A token is its identity. ILIKE takes the name
that is looked up, which nothing escapes, as a pattern: `Like` is the set of names each name
finds. `Alike` names find each other, as two do that differ in case only, unless there is a
backslash in them: that escapes the character after it, so such a name does not find even
itself. (A pattern that ends in a backslash is an error of the database; such names are
left out.)

### DashboardCache
A table is a version that changes raise, an answer is the selection it shows and the
versions it was read from; the selection is computed from the parameters as the code
does it, defaults and inferred grouping included. Time is a clock in arbitrary units.
The TTL is a constant: the code passes 30 and says seconds (dashboard.service.ts:69,
app.module.ts:72), the cache-manager 7 of the lock file counts milliseconds.

### Reporting
Time is a number of ticks, a time zone the ticks at which its days begin: days may
be longer or shorter and need not begin on an hour of UTC. Each statement of the
rollup is a step, and every read of the dashboard is an operator on the tables that
the invariants evaluate in every state for every selection, zone, grouping and
filter. "Today", "last 7" and "last 30 days" are computed by the code with the same
arithmetic as a selected range, so they are selections of 1, 7 and 30 days. Zones
whose midnight itself is skipped or comes twice by a clock change are left out.

## 3. Runs

All runs finish in less than three minutes. Bounds are the number of requests and
handlers, the number of failures in one behaviour (`MaxFaults`), and how often a
webhook is sent (`MaxSend`). All runs but `resent` pass.

| Run | Instance | Shows |
|---|---|---|
| `quota` | 1 business, 3 purchases, 2 numbers, 2 removals, 2 limit updates over {0,1,2}, all faults except a repeated removal | `RemovalExclusive`, `NeverUndercount`, `ExactCount`, `UsedWithinLimit`, `GoneUnlessRefused`, `ActiveIsOwned`; implements `SlotLedger` |
| `settle` | 2 purchases, 2 removals, handlers run to their end, faults that are answered, repeated removals | `SlotsSettle` |
| `configuration` | 1 number, 1 source, 2 updates, 1 removal, 1 source removal, 1 purchase | `WritesWhatItRead`, `RoutedIsLive`, `NoDangling`, `StuckOnlyAsVictim` |
| `sources` | 2 businesses with a source each, 3 names, 3 requests, 2 attempts | `RefusedForACause`, `DeletedStays` |
| `accounts` | 1 business, 2 requests on businesses, 2 on sessions, 5 names (two differ in case, like `a_c` and `A_C`, one is matched by them as patterns, like `abc`, and two have a backslash, like `a\_c` and `A\_C`), 2 attempts, crashes, lost answers | `AlikeOnlyIfRaced`, `ConflictMeansContention`, `TokensWorkOnce` |
| `webhooks` | 3 handlers, each webhook up to twice, all faults | `ForwardedOnceAndLogged`, `CountedAtMostOnce`, `LogOnlyGains`, `EndIsRecorded` |
| `resent` | 1 handler and resending | a comment does not hold, see 6 |
| `recording` | 3 attempts, 4 failures of any kind | `KeyMeansStored`, `KpiCountedOnce`, `FirstAttemptHears`, `PipelineFinishes` |
| `pipeline` | 2 handlers, each webhook once, 3 attempts, 2 failures of the worker (a transcription without speech among them), failures of the API | `RowOnlyGains`, `RowMatchesBucket`, `RowIsCompleted` |
| `conversation` | 4 of 10 utterances, 6 answers of the model, short limits | `EveryWordOnce`, `TurnsAreMaximal`, `RolesFollowSpeakers`, `PromptsAreLongest`, `VerdictIsFounded` |
| `reporting` | 2 calls at 6 moments around three midnights, 3 zones, days and 3-day weeks, an appointment booked in sales and one requested in service | `WindowsCountTheirDays`, `ChartShowsItsBuckets`, `KpisMakeSense` |
| `cache` | 2 clients, 3 queries, 2 zones, 4 units of time with a midnight in each zone, 1 change of the tables | `ServedAsAsked` |

**Why the bounds are enough.** *quota*: with a limit of at most 2, three requests contain
the one too many; two numbers and three requests let a number come back under another SID,
which the unique index and the look-up by number react to; two removals and two limit
updates are the pairs that race. Businesses share nothing but the numbers on sale, so one is
enough. *configuration*: every lock cycle of this code is between two transactions on one
number; two updates are needed for the conflict and the retry, and the third party is each
of the removals. *sources*, *accounts*: a race for a name, or for a token, takes two
requests, and a third makes the winner go away again; two attempts are one that fails and
one that may; the names are one of each kind that the look-up tells apart. *webhooks*: three handlers let two requests overlap while a third is answered;
a third sending of a webhook repeats what the second does. *recording*: four failures are
one more than three attempts can absorb. *pipeline*: a crossing takes one copy on each side;
two handlers let the two webhooks that update the row race besides; resending on top of
that is left to `webhooks`, as the state space of both together is too large. *conversation*: the
rules look at a turn and the next utterance, the heuristic at two speakers and a third; four
utterances are enough for two turns of each of two speakers, or a turn that is cut. *cache*:
a slow request and a quick one of the same key (queries that differ only in sources or only
in dates are left to the theorem); the clock passes the end of a day, of an
entry and of a request. *reporting*: rows only add, so two calls show whether rows of one
hour, of two hours of one bucket, and of neighbouring buckets are told apart; the moments
lie on, just before and just after the midnights of the three zones, one of which has a
longer day and one of which is off the hour.

`CHECK_DEADLOCK FALSE` stands in the runs whose system really stops: all webhooks
sent, the job finished, all calls reported, the conversation classified, all requests
answered, the clock at its bound, and in `configuration` (number released and source
deleted, nobody left to ask for anything).

**Fairness.** `NumberInventory.FairSpec`: weak fairness of the steps of a handler
that has started. Its awaits settle (the Twilio client and the database driver
answer or fail), and the event loop resumes it. No fairness for clients,
administrators or crashes (crashes are off in `settle`).
`CallWebhooks.FairSpec`: Twilio sends each webhook that is due once, and handlers
run on; `Crash` is allowed all the same. `RecordingWorkflow.FairJobSpec`: the worker
takes waiting jobs and the awaits of an attempt settle; nothing is assumed of
failures. `CallPipeline.FairPipelineSpec`: the same of both processes; that a job is
added at all is not assumed, as no code adds one, so `RowIsCompleted` speaks of calls
whose job was.

## 4. Proofs

Every theorem holds for all values of the constants: any sets of businesses, numbers,
sources, requests and handlers, any limits, retries and numbers of deliveries or
attempts, conversations of any length, any calls, time zones and groupings, and every
choice of faults. All safety and action properties of the passing runs are proved.

| Module | Theorem | States |
|---|---|---|
| `NumberInventoryProofs` | `TypeCorrect` | `Spec => []TypeOK`; with `used \in [Business -> Nat]`, the count never goes below zero |
| | `RemovalIsExclusive` | `Spec => []RemovalExclusive` |
| | `CountNeverBehind` | `NoRepeat /\ Spec => [](SlotInv /\ NeverUndercount)` |
| | `ImplementsLedger` | `NoRepeat /\ Spec => LedgerSpec`, the refinement |
| | `LimitHolds` | `Spec => []UsedWithinLimit` |
| | `ReleasedIsGone` | `Spec => []GoneUnlessRefused` |
| | `ActiveNumberIsOwned` | `NoRepeat /\ Spec => []ActiveIsOwned` |
| | `CountIsExact` | `NoRepeat /\ Spec => []ExactCount` |
| `ConfigurationProofs` | `TypeCorrect` | `Spec => []TypeOK` |
| | `NoLostUpdate` | `Spec => []WritesWhatItRead` |
| | `NothingStuck` | `Spec => []StuckOnlyAsVictim` |
| | `RoutesAreClosed` | `Spec => []RoutedIsLive` |
| | `DanglingIsRaced` | `Spec => []NoDangling` |
| `SourceNamesProofs` | `TypeCorrect` | `Spec => []TypeOK` |
| | `DeletionIsFinal` | `Spec => DeletedStays`, an action property |
| | `RefusalHasACause` | `Spec => []RefusedForACause` |
| `AccountsProofs` | `Typing` | `Spec => []TypeOK` |
| | `NamesDifferUnlessRaced` | `Spec => []AlikeOnlyIfRaced` |
| | `ConflictsHaveCauses` | `Spec => []ConflictMeansContention` |
| | `RefreshTokensWorkOnce` | `Spec => []TokensWorkOnce` |
| `CallPipelineProofs` | `TypeCorrect` | `Spec => []TypeOK` (webhooks) |
| | `ForwardedOnce` | `Spec => []ForwardedOnceAndLogged` |
| | `GainsAreKept` | `Spec => LogOnlyGains`, an action property |
| | `CountedOnce` | `Spec => []CountedAtMostOnce` |
| | `JobTypeCorrect` | `JobSpec => []JobTypeOK` (recording) |
| | `KeyIsBacked` | `JobSpec => []KeyMeansStored` |
| | `CountedOncePerDeath` | `JobSpec => []KpiCountedOnce` |
| | `FirstVerdictHeard` | `JobSpec => []FirstAttemptHears` |
| | `RowKeepsItsGains` | `PipelineSpec => RowOnlyGains`, an action property of both processes |
| | `RowPointsToBucket` | `PipelineSpec => []RowMatchesBucket` |
| | `SharedFirstVerdictHeard` | `PipelineSpec => []FirstAttemptHears`: what the job promises survives the webhooks |
| | `SharedTypeCorrect`, `SharedForwardedOnce` | `PipelineSpec => []TypeOK`, `[]ForwardedOnceAndLogged`: what the webhooks promise survives the worker |
| `ConversationProofs` | `Typing` | `Spec => []TypeOK` |
| | `MergingLosesNothing` | `Spec => []EveryWordOnce` |
| | `MergingIsMaximal` | `Spec => []TurnsAreMaximal` |
| | `RolesStayWithSpeakers` | `Spec => []RolesFollowSpeakers` |
| | `VerdictsHaveReasons` | `Spec => []VerdictIsFounded` |
| | `PromptsHoldWhatFits` | `Spec => []PromptsAreLongest` |
| `ReportingProofs` | `TypeCorrect` | `Spec => []TypeOK` |
| | `SummariesCountTheirDays` | `Spec => []WindowsCountTheirDays` |
| | `ChartsShowTheirBuckets` | `Spec => []ChartShowsItsBuckets` |
| | `KpisAlwaysMakeSense` | `Spec => []KpisMakeSense` |
| `DashboardCacheProofs` | `AnswersAreRecent` | `Spec => []ServedAsAsked` |

**Assumptions** are the named ones of the modules: an owner for each request, natural
limits, finitely many requests (`NumberInventory`); the sets of handlers are disjoint
and NULL, "no route" and "not in the request" are not among the values
(`DistinctAssumption`); existing sources have different names, as the index has it, and
there is a business and a name (`NameAssumption`); existing businesses have different
names that do not find each other, requests name new rows, and an update is tried at least
once (`AccountAssumption`; nothing is assumed of what a name finds as a pattern); no row is `NoLog`
(`NoLogAssumption`); there is an attempt (`AttemptAssumption`); time is counted in
natural numbers and a day has a length (`CacheAssumption`); utterances, answers and
limits are what the code declares them to be (`UtteranceAssumption`, `AnswerAssumption`,
`LimitAssumption`, `PromptAssumption`); there are finitely many calls, an hour has a
length, the days of every zone follow each other and every call is on one of them, a
group of days is a stretch of days, and null is no value (`CallAssumption`,
`TimeAssumption`, `ZoneAssumption`, `GroupingAssumption`, `VerdictAssumption`,
`NoneAssumption`). TLC checks all of them on the instances. Where a theorem says
`NoRepeat`: no client asks to remove a row that is already Released. `search` lists only
Active rows (call-tracking.service.ts:80), so a client meets such a row only through an
old list; without the assumption the count does fall behind.

**The quota.** `RemovalExclusive` is not inductive alone: a purchase that inserts its
row could touch one that is being removed. `Lifecycle` (a row exists only when its
purchase has ended) excludes that, and `TypeOK /\ RemovalExclusive /\ Lifecycle`
is inductive. For the quota, every step is classified by what it does to the slots:
it keeps them all, takes one (`Takes`, only by `Reserve`, below the limit and with
the count), frees one (`Frees`), or changes a limit (`Relimits`). `HoldersKept` and
`HoldersMoved` turn that into statements about the set of holders, one cardinality
lemma counts them, and `NeverUndercount`, `ExactCount` and the refinement follow case
by case. `UsedWithinLimit` needs `LimitKept`: between guard and write of a limit
nobody else changes it. `GoneUnlessRefused` needs `Closed` (a Released row has no SID,
a handler works on its own row) and `Gone` (a handler that believes a number gone is
right); `ActiveIsOwned` needs `Live` and `Owned`, the same the other way round.

**Configuration.** `Held` says of every lock who has it and how far its owner is, and
that a removal past its first lock still has it. On this ground: `Fresh` (the WHERE
clause on `updated_at` finds exactly the changes that matter, `stale = outdated`, and
none can come once the row is locked) gives `NoLostUpdate`; `Removing` (one removal per
Releasing row) gives `NothingStuck`; `Closing` (unless the number is `rerouted`, a removal
that has closed its routes has them locked or there are none, and once they are closed no
update of them is under way) gives `RoutesAreClosed`; `Attached` (who holds on to a source that is gone is in `raced`, and
a removal in progress has still to detach, has locked, or has been told of every number
that names its source) gives `DanglingIsRaced`.

**Sources.** `Vacant` (a row that was not inserted belongs to a request that has not
got so far) and `Fenced` (whoever read a source that was deleted since has an outdated
`updated_at`) with the types. Deletion needs no status check in `update()` because of
`Fenced`, and `Fenced` holds only because `remove()` writes `updated_at`.

**Accounts.** `Grounded` (a request inserts its own row once and writes no row that is not
there) and `Read` (a row that was not written since the look-up can still be seen) carry the
rest. `LateOnlyIfRaced`: a name like the one a request has still to write came from somebody
it met; with `Meeting` (who is under way has met) that gives `NamesDifferUnlessRaced`.
`Contended` and `Fought` count the writes that made attempts fail. `SpentForGood`: a token
that was exchanged is no longer the one in the row, and who still has a new one to store for
it was there at the time; it rests on `Tokens`: a token that is presented was given to
somebody, and belongs to the business its session is for. Every step of `auth` is one of
three (`LetIn`, `Signed`, `SentOff`), so what the requests to businesses rely on is checked
against three kinds of steps and not against all of them.

**Webhooks.** `Placed` (which webhooks get where, and with what in hand), `Answering` (at
most one request has stored the row and not answered, and until it does the call has not
been put through), `Ended` (one
final status, the only one reported), `Current` (until two requests hold copies, the
one copy is current, so a save only adds) and `Tallied` (while nothing is sent twice,
one request has the status of the call, and what it has not added is not there).

**Recording.** `Typed` includes that the copy about to be saved is current and that an
attempt is left when the job waits; `Stored`, `Counted` and `Hearing` say what an
attempt may rely on by the place it has reached.

**Both on one row.** Neither component's invariant holds of the composition: a copy
that is current for the one is changed by the other. What does: the webhooks' types and
places (`Sound`, `Ended`; a step of the worker is a save of its copy or leaves the row
alone, `JobEffect`), `Worked` (a job is added only to a row, and the worker saves rows) and
`Alone`, which takes the place of `Current`: until two handlers, or a handler and the
worker, hold copies at once, at most one of all of them holds one, and that one is
the row. A save then merges into what is there, which `RowOnlyGains` says of every column. For result
and department `Judged` says more, for as long as no copies were held at once: there is a
job only of a call that was answered, so no webhook writes a result over a verdict
(`Answered`); and the row has a verdict only if it has a transcript, so an attempt that
transcribes finds no verdict, and one that has no turns writes over an incomplete one only
(`Progress`).
`RowMatchesBucket` and `FirstAttemptHears` hold longer than that, and their invariants speak
of all copies of the row (`Held`): a key in any copy has its object and a text in any copy its
attempt (`Bucketed`, `Heeding`), since webhooks only carry on what they have read
(`ApiCopies`). `Agreed` says that until a webhook and the worker hold copies at once, all
copies show the same of the job's work. Once they do, `KeyMeansStored` fails: a webhook can
save the key away after the worker has stored it, the worker then reads the row and adds
a transcript, and the row has a text and no key.

**Conversation.** Of every turn, `TurnsSpan` says which utterances it holds and that it
starts with the first of them; `TurnsInOrder` and `NothingLost` say how turns follow each
other and that they hold all, `TurnsFit` and `SplitsFounded` why they are as long as they
are. `TimesRise` (utterances come in the order of their times) is what makes a turn cover
what it holds. Roles and verdict need no more than that nothing is labelled before its time
(`NoRolesYet`). The length of a prompt is a recursive function of the lines; that it is
the sum it looks like follows from the least number for which it were not (`UpToExists`),
and that the prompt is the longest that fits from the greatest number of lines below the
caps.

**Reporting.** `Tells` is the invariant: each call whose statement has run belongs to exactly
one row of the table, and the row's count is the number of calls that belong to it. It
survives the upsert because a key that is found has one row, or none, and because a call
without a source always gets a row of its own (NULLs do not conflict). What the dashboard
shows is a sum over some rows: `SumRemove` takes one row out of a sum, whichever the fold
began with, `SumCounts` makes a sum of counts the number of calls, and `SumBound` compares
two sums. The rest is calendar: hours rise in steps of HOUR (`UpToHour`), an instant is on
one day (`OneDay`), the hours from one midnight to another are those whose calls are on
the days between, if the zone's midnights are on the hour (`HourWindow`), and the points of
a chart are the first hours of its buckets (`ChartPoints`). `Mixed` bounds the totals of a
row by its calls, `PercentOfWhole` the rounded rate.

**Cache.** `Dated` (versions and their history only grow), `Running` (what a request
has read is as new as its beginning), `Cached` (an entry answers every query of its key
and began at most one request and one TTL before it expires). The heart is
`KeyDetermines`: two queries with the same key select the same at every time.

**Sums and recursion.** The induction theorems of the library take an operator as a
parameter, which the provers cannot instantiate. What they can use is that every
non-empty set of natural numbers has a least member and every non-empty family of subsets
of a finite set a smallest one (`LeastNat`, `LeastSet`, from the library's
well-foundedness theorems): an induction is done by looking at the least
counterexample. That is how the fold behind `Total` and the recursive lengths of
`Conversation` are proved about.

Only model-checked: liveness (`SlotsSettle`, `EndIsRecorded`, `PipelineFinishes`,
`RowIsCompleted`), because the prover handles neither `ENABLED` nor fairness here.
In the composition of API and worker, only the properties listed under `PipelineSpec` are
proved; `CountedAtMostOnce` and `KpiCountedOnce` speak of a table of KPIs that both write there,
and `KeyMeansStored` is proved of the job on a row that nobody else saves.

## 5. What is not modelled

- Search and paging (read only; some of them order by columns that are not unique, so
  pages may overlap), HTTP plumbing, validation, Twilio's signatures: inputs are taken
  to have passed them. Bootstrap, configuration and the clients of external services.
- `withTimeout` has no caller, `upsertBySid` neither. Delays and jitter of `retry`: the
  steps of others that fit in between are there, the times are not.
- Wording of prompts, the judgement of the language model, what a keyword expression
  matches, the encoding of media. Contents of passwords, signatures and expiry of
  tokens. Labels and percentages of change on the dashboard.
- Postgres is assumed to behave as documented at READ COMMITTED. No two transactions of
  `Configuration` begin within one millisecond, the precision of `updated_at`; two that
  do are not told apart by the optimistic locking.
- Time zones whose midnight itself is skipped or comes twice by a clock change.
- Waits for foreign keys and unique indexes in `Configuration` (section 2 says why that
  hides nothing), and names that end in a backslash.
- That each call is rolled up once is what `Reporting` takes from the other modules; that a
  webhook sent twice counts a call twice is in `CallWebhooks`.

## 6. Where code and comments disagree

One run must be found violated:

- `resent`: a repeated voice webhook hangs up on the caller
  (twilio.controller.ts:124 against 43).

The others are conditions or exceptions in properties that hold, so each is a state the
runs reach:

- `GoneUnlessRefused`: a DELETE that Twilio refuses with a final error is reported as
  released; "otherwise throw through" (twilio.service.ts:224) does not happen.
- `SlotsSettle`: a Released row can be removed again, by number
  (call-tracking.service.ts:475 against the comment at 509).
- `UsedWithinLimit`: a limit of 0 is falsy and skips the guard
  (businesses.service.ts:185-186).
- `LogOnlyGains`: a status webhook overwrites the recording URL
  (call-logs.service.ts:76 against twilio.controller.ts:210).
- `PipelineFinishes`: "retry later" never comes, the job completes
  (recording-workflow.service.ts:51; the same for "will retry" at 112).
- `ChartShowsItsBuckets`: the last bucket of the chart stops after its first hour, while
  the summary of the same request counts it in full (dashboard-chart.service.ts:50).
- `VerdictIsFounded`: FollowUp is in schema and prompt and missing from the map
  (analysis.service.ts:356 against 250), Purchase is in the prompt and missing from the
  schema (analysis.service.ts:296 against 235); both are stored as none.
- `AlikeOnlyIfRaced`: the look-up for a taken name does not escape it
  (businesses.service.ts:54 and 174), as the search of the same service does
  (like-utils.ts:12). A name with a backslash does not find itself or its variants in case,
  so two such names can be given one after the other; a name with `_` or `%` is refused
  because of names that are only similar.
- `RefusedForACause`: the unique index on source names spans businesses and deleted
  sources (marketing-source.entity.ts:19 against marketing-sources.service.ts:214).

Conditions that no comment contradicts: two overlapping updates of a limit
(`limitRace`), a Released row removed again whose number was bought meanwhile and which
the unique index keeps in Releasing when Twilio fails (`repeat`), an update of a route that
overlaps the closing of the routes of its number, or is asked for after the number was
removed (`rerouted`), an attachment that overlaps the removal of its source (`raced`), a
removal chosen as deadlock victim whose row stays Releasing (`victim`), a repeated attempt
that classifies an empty conversation because it has the text but not the turns
(`FirstAttemptHears`), and which, if the verdict it finds has a part open, writes none over
the other part too (`RowOnlyGains`: `result ?? log?.result` keeps nothing when the result is
'none', recording-workflow.service.ts:99-100), a request and the worker that hold copies
of one row (`crossed`), a death or failure between the commit of a row and the answer that
forwards the call (`ForwardedOnceAndLogged`), two refreshes with one token side by side
(`TokensWorkOnce`).
Seen in passing: a business cannot be updated with the name it already has, because the
look-up for a taken name does not leave it out (businesses.service.ts:173); the CHECK
constraint in business.entity.ts:16-17 has an unbalanced parenthesis.

## 7. Plan

Done, in the order of importance: quota and inventory with its abstract ledger;
webhooks; recording workflow; configuration; reporting; then sources, accounts and
sessions, conversation, the cache, and the composition of the two processes; proofs of
every safety and action property that a run checks, first of the inventory,
configuration, sources, webhooks, recording and cache, then of accounts, conversation,
the composition and reporting.

Left: how often both processes together count a call (`CountedAtMostOnce` and
`KpiCountedOnce` in one, of the composition); finer steps for the retries inside a
release, if the code ever acts on one of them.
