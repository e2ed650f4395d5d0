---------------------------- MODULE Conversation ----------------------------
(***************************************************************************)
(* What becomes of a transcription: TranscriptionService merges utterances *)
(* into turns, AnalysisService gives the speakers roles and classifies the *)
(* conversation, with a language model if there is one and by keywords     *)
(* otherwise.  A text is its length, its punctuation at the ends and the   *)
(* cues heard in it (the alternatives of the keyword expressions); a time  *)
(* is a whole number.                                                      *)
(***************************************************************************)
EXTENDS Integers, Sequences, FiniteSets

CONSTANTS
    Utterances,    \* what may be said next
    MaxUtterances, \* bound on the length of the recording
    Answers,       \* classifications the language model may give
    MaxGap,        \* maxSilenceGapSec
    MaxChars,      \* maxTurnChars
    EarlyTurns,    \* turns the role heuristic looks at
    RolePrompt,    \* caps of buildSequentialSample
    ClassPrompt    \* caps of buildLabeledSequentialSample

NoTime == -1

IntentCues == <<"tradeIn", "finance", "credit", "appointment">>

\* Variant: a booking is looked for first.
ResultCuesBookedFirst == <<"booked", "noConnect", "cancel", "reschedule", "request",
                           "transfer", "notInterested", "info">>

\* Most specific first: what ended the call counts.
ResultCues == <<"noConnect", "cancel", "reschedule", "booked", "request", "transfer",
                "notInterested", "info">>

MoodCues == <<"angry", "annoyed", "pleased", "delighted">>
DepartmentCues == {"Sales", "Service", "Parts"}
Cue == {IntentCues[i] : i \in 1..4} \cup {ResultCues[i] : i \in 1..8}
         \cup {MoodCues[i] : i \in 1..4} \cup DepartmentCues \cup {"greeting"}

\* speaker: the number of the diarization, if any.  opens, closes: punctuation at the ends.
Utterance == [speaker : {"0", "1", "2", "unknown"}, start : Nat \cup {NoTime},
              end : Nat \cup {NoTime}, size : Nat, opens : BOOLEAN, closes : BOOLEAN,
              cues : SUBSET Cue]
Caps == [lines : Nat \ {0}, chars : Nat \ {0}, perLine : Nat \ {0}]

Intent == {"None", "TradeIn", "Finance", "Credit", "Appointment", "Other"}
Result == {"None", "NotConnected", "AppointmentRequested", "AppointmentBooked",
           "AppointmentRescheduled", "AppointmentCancelled", "CallTransferred",
           "NotInterested", "FollowUp", "Other"}
Department == {"None", "Sales", "Service", "Parts", "Other"}
Verdict == [intent : Intent, result : Result, department : Department, sentiment : 1..5]

\* The prompt also offers the intent Purchase, which the schema, the map and the keywords
\* lack; the schema is not strict, so that it, other labels and scores are possible.
Offered == [intent : Intent \cup {"Purchase"}, result : Result, department : Department,
            sentiment : 1..5]
Answer == [intent : Intent \cup {"Purchase", "?"}, result : Result \cup {"?"},
           department : Department \cup {"?"}, sentiment : Int]

ASSUME UtteranceAssumption == Utterances \subseteq Utterance /\ MaxUtterances \in Nat
ASSUME AnswerAssumption == Answers \subseteq Answer
ASSUME LimitAssumption == MaxGap \in Nat /\ MaxChars \in Nat /\ EarlyTurns \in Nat
ASSUME PromptAssumption == RolePrompt \in Caps /\ ClassPrompt \in Caps

Role == {"salesperson", "client", "unknown"}

VARIABLES
    heard,   \* history: the utterances so far
    turns,   \* Turn[]
    stage,   \* "listening", "spoken", "labelled", "classified"
    roleBy,  \* history: who gave the roles: "nobody", "model", "fallback"
    answer,  \* history: what the model said of the conversation
    verdict  \* what is stored

vars == <<heard, turns, stage, roleBy, answer, verdict>>

\* said: positions in heard of the utterances in this turn.
Turn == [role : Role, speaker : {"0", "1", "2", "unknown"}, start : Nat, end : Nat,
         size : Nat, closes : BOOLEAN, cues : SUBSET Cue, said : SUBSET (Nat \ {0})]

Nothing == [intent |-> "None", result |-> "None", department |-> "None", sentiment |-> 3]
NoAnswer == [Nothing EXCEPT !.intent = "not asked"]

TypeOK ==
    /\ heard \in Seq(Utterances)
    /\ turns \in Seq(Turn)
    /\ stage \in {"listening", "spoken", "labelled", "classified"}
    /\ roleBy \in {"nobody", "model", "fallback"}
    /\ answer \in Answers \cup {NoAnswer}
    /\ verdict \in Verdict

Init ==
    /\ heard = <<>> /\ turns = <<>> /\ stage = "listening" /\ roleBy = "nobody"
    /\ answer = NoAnswer /\ verdict = Nothing

-----------------------------------------------------------------------------
(* toTurns *)

\* Utterances without a start or a text are passed over.
Audible(u) == u.start # NoTime /\ u.size > 0

EndOf(u) == IF u.end = NoTime THEN u.start ELSE u.end

\* Variant: the silence is measured from the start of the turn.
CanMergeFromStart(t, u) ==
    /\ t.speaker = u.speaker
    /\ u.start - t.start <= MaxGap
    /\ t.size + 1 + u.size <= MaxChars

\* Same speaker, no long silence, and the turn does not get too long.
CanMerge(t, u) ==
    /\ t.speaker = u.speaker
    /\ u.start - t.end <= MaxGap
    /\ t.size + 1 + u.size <= MaxChars

NewTurn(u, i) ==
    [role |-> "unknown", speaker |-> u.speaker, start |-> u.start, end |-> EndOf(u),
     size |-> u.size, closes |-> u.closes, cues |-> u.cues, said |-> {i}]

\* Variant: the text is replaced.
JoinedReplaces(t, u, i) ==
    [t EXCEPT !.size = u.size, !.end = EndOf(u), !.said = {i}, !.cues = u.cues]

\* A space goes in between unless there is punctuation; the end never moves back.
Joined(t, u, i) ==
    [t EXCEPT !.size = @ + u.size + (IF t.closes \/ u.opens THEN 0 ELSE 1),
              !.end = IF EndOf(u) > @ THEN EndOf(u) ELSE @,
              !.closes = u.closes,
              !.cues = @ \cup u.cues,
              !.said = @ \cup {i}]

\* One round of the loop.  Deepgram (external) lists utterances by their start.
Hear(u) ==
    LET i == Len(heard) + 1
        n == Len(turns) IN
    /\ stage = "listening" /\ i <= MaxUtterances
    /\ \A j \in 1..Len(heard) : u.start # NoTime => heard[j].start <= u.start
    /\ heard' = Append(heard, u)
    /\ turns' = IF ~Audible(u) THEN turns
                ELSE IF n > 0 /\ CanMerge(turns[n], u)
                THEN [turns EXCEPT ![n] = Joined(turns[n], u, i)]
                ELSE Append(turns, NewTurn(u, i))
    /\ UNCHANGED <<stage, roleBy, answer, verdict>>

\* ensureProcessed goes on only if somebody spoke.
Summarize ==
    /\ stage = "listening" /\ turns # <<>>
    /\ stage' = "spoken"
    /\ UNCHANGED <<heard, turns, roleBy, answer, verdict>>

-----------------------------------------------------------------------------
(* The lines the language model gets to see *)

Least(a, b) == IF a < b THEN a ELSE b
MaxOf(S) == CHOOSE x \in S : \A y \in S : y <= x

\* Length of the first k lines with the line breaks between them.
Length(lines, k) ==
    LET upTo[n \in 0..Len(lines)] == IF n = 0 THEN -1 ELSE upTo[n - 1] + 1 + lines[n] IN
    upTo[k]

\* Variant: the line the cut goes through is kept.
LinesKeptWhole(lines, caps) ==
    LET n == Least(Len(lines), caps.lines) IN
    IF Length(lines, n) <= caps.chars THEN n
    ELSE MaxOf({1} \cup {k \in 1..n : Length(lines, k - 1) < caps.chars})

\* How many lines the prompt holds: at most caps.lines, then cut at caps.chars and back to
\* the last line break before that; a first line that is cut has no such break.
LinesKept(lines, caps) ==
    LET n == Least(Len(lines), caps.lines) IN
    IF Length(lines, n) <= caps.chars THEN n
    ELSE MaxOf({1} \cup {k \in 1..n : Length(lines, k) < caps.chars})

Diarized(t) == t.speaker \in {"0", "1"}

\* "speaker0: " is one long here.
LineSizes(ts, caps) == [i \in DOMAIN ts |-> 1 + Least(ts[i].size, caps.perLine)]

\* The loop passes over the turns of other speakers.
DiarizedTurns ==
    LET upTo[n \in 0..Len(turns)] ==
            IF n = 0 THEN <<>>
            ELSE IF Diarized(turns[n]) THEN Append(upTo[n - 1], turns[n]) ELSE upTo[n - 1] IN
    upTo[Len(turns)]

SequentialLines == LineSizes(DiarizedTurns, RolePrompt)
LabeledLines == LineSizes(turns, ClassPrompt)

-----------------------------------------------------------------------------
(* assignRoles *)

ApplyRoleMap(map) ==
    [i \in DOMAIN turns |->
        [turns[i] EXCEPT !.role = IF Diarized(turns[i]) THEN map[turns[i].speaker]
                                  ELSE "unknown"]]

\* Variant: each speaker is judged alone.
FallbackRoleMapSeparately ==
    LET score(s) == Cardinality({i \in 1..Least(EarlyTurns, Len(turns)) :
                        turns[i].speaker = s /\ "greeting" \in turns[i].cues}) IN
    [s \in {"0", "1"} |-> IF score(s) > 0 THEN "salesperson" ELSE "client"]

\* Whoever greets like the dealership more often in the first turns sells.
FallbackRoleMap ==
    LET score(s) == Cardinality({i \in 1..Least(EarlyTurns, Len(turns)) :
                        turns[i].speaker = s /\ "greeting" \in turns[i].cues})
        agent(s, other) == [q \in {s, other} |-> IF q = s THEN "salesperson" ELSE "client"] IN
    CASE score("0") > score("1") -> agent("0", "1")
      [] score("1") > score("0") -> agent("1", "0")
      [] OTHER -> [q \in {"0", "1"} |-> "unknown"]

Labelled(by, ts) ==
    /\ stage = "spoken" /\ stage' = "labelled"
    /\ roleBy' = by /\ turns' = ts
    /\ UNCHANGED <<heard, answer, verdict>>

SomebodyDiarized == \E i \in DOMAIN turns : Diarized(turns[i])

RolesUnneeded == ~SomebodyDiarized /\ Labelled("nobody", turns)

\* An answer that is not a role counts as unknown.
RolesByModel(map) ==
    /\ SomebodyDiarized
    /\ Labelled("model", ApplyRoleMap(map))

\* No client, no answer, an error or an incomplete answer.
RolesByFallback ==
    /\ SomebodyDiarized
    /\ Labelled("fallback", ApplyRoleMap(FallbackRoleMap))

-----------------------------------------------------------------------------
(* classifyConversation *)

\* A later attempt of the job finds the transcript stored and classifies no turns at all.
ForgetTurns ==
    /\ stage = "labelled" /\ turns # <<>>
    /\ turns' = <<>>
    /\ UNCHANGED <<heard, stage, roleBy, answer, verdict>>

\* A label that is not in its map counts as None; the map of results has no entry for
\* FollowUp, which the schema offers.  Scores are clamped.
MapToEnums(raw) ==
    LET known(x, labels) == IF x \in labels THEN x ELSE "None" IN
    [intent     |-> known(raw.intent, Intent),
     result     |-> known(raw.result, Result \ {"FollowUp"}),
     department |-> known(raw.department, Department),
     sentiment  |-> IF raw.sentiment < 1 THEN 1 ELSE Least(5, raw.sentiment)]

CuesHeard == UNION {turns[i].cues : i \in DOMAIN turns}

\* The first expression, in this order, that matches the text.
FirstOf(order, cues) ==
    LET hits == {i \in DOMAIN order : order[i] \in cues} IN
    IF hits = {} THEN "nothing" ELSE order[CHOOSE i \in hits : \A j \in hits : i <= j]

IntentOf(cues) ==
    LET cue == FirstOf(IntentCues, cues) IN
    CASE cue = "tradeIn"     -> "TradeIn"
      [] cue = "finance"     -> "Finance"
      [] cue = "credit"      -> "Credit"
      [] cue = "appointment" -> "Appointment"
      [] OTHER -> IF turns = <<>> THEN "None" ELSE "Other"

ResultOf(cues) ==
    LET cue == FirstOf(ResultCues, cues) IN
    CASE cue = "noConnect"     -> "NotConnected"
      [] cue = "cancel"        -> "AppointmentCancelled"
      [] cue = "reschedule"    -> "AppointmentRescheduled"
      [] cue = "booked"        -> "AppointmentBooked"
      [] cue = "request"       -> "AppointmentRequested"
      [] cue = "transfer"      -> "CallTransferred"
      [] cue = "notInterested" -> "NotInterested"
      [] cue = "info"          -> "Other"
      [] OTHER                 -> "None"

\* One department alone, else Sales before Service before Parts.
DepartmentOf(cues) ==
    LET named == cues \cap DepartmentCues IN
    CASE named = {}        -> "None"
      [] "Sales" \in named -> "Sales"
      [] "Sales" \notin named /\ "Service" \in named -> "Service"
      [] OTHER             -> "Parts"

SentimentOf(cues) ==
    LET cue == FirstOf(MoodCues, cues) IN
    CASE cue = "angry"     -> 1
      [] cue = "annoyed"   -> 2
      [] cue = "pleased"   -> 4
      [] cue = "delighted" -> 5
      [] OTHER             -> 3

Heuristic(cues) ==
    [intent |-> IntentOf(cues), result |-> ResultOf(cues),
     department |-> DepartmentOf(cues), sentiment |-> SentimentOf(cues)]

Classified(raw, v) ==
    /\ stage = "labelled" /\ stage' = "classified"
    /\ answer' = raw /\ verdict' = v
    /\ UNCHANGED <<heard, turns, roleBy>>

\* The model is asked only if there are lines to show it.
ClassifyByModel(raw) == turns # <<>> /\ Classified(raw, MapToEnums(raw))

ClassifyByKeywords == Classified(NoAnswer, Heuristic(CuesHeard))

Next ==
    \/ \E u \in Utterances : Hear(u)
    \/ Summarize
    \/ RolesUnneeded \/ RolesByFallback
    \/ \E map \in [{"0", "1"} -> Role] : RolesByModel(map)
    \/ ForgetTurns
    \/ \E raw \in Answers : ClassifyByModel(raw)
    \/ ClassifyByKeywords

Spec == Init /\ [][Next]_vars

-----------------------------------------------------------------------------
(* Properties *)

AudibleAt == {i \in DOMAIN heard : Audible(heard[i])}
Forgotten == turns = <<>> /\ stage # "listening"

\* Every utterance with a text ends up in exactly one turn, one of its own speaker whose
\* span covers it, and turns come in the order things were said: merging and labelling
\* lose, repeat, move and misattribute nothing.
EveryWordOnce ==
    ~Forgotten =>
        /\ UNION {turns[k].said : k \in DOMAIN turns} = AudibleAt
        /\ \A k \in DOMAIN turns : \A i \in turns[k].said :
               /\ turns[k].speaker = heard[i].speaker
               /\ turns[k].start <= heard[i].start /\ EndOf(heard[i]) <= turns[k].end
        /\ \A k, l \in DOMAIN turns : k < l =>
               \A i \in turns[k].said, j \in turns[l].said : i < j

\* Turns are as long as they may be and no longer: only a single utterance exceeds the limit
\* on characters, and where a speaker goes on in a new turn, either the silence since the
\* END of the last one was too long or the next utterance would not have fitted.
TurnsAreMaximal ==
    /\ \A k \in DOMAIN turns : turns[k].size <= MaxChars \/ Cardinality(turns[k].said) = 1
    /\ \A k \in 1..(Len(turns) - 1) :
           LET t == turns[k]
               first == CHOOSE i \in turns[k + 1].said : \A j \in turns[k + 1].said : i <= j
           IN t.speaker = turns[k + 1].speaker =>
                  \/ heard[first].start - t.end > MaxGap
                  \/ t.size + 1 + heard[first].size > MaxChars

\* A speaker has one role throughout, one that was not told apart has none, and the
\* keywords either name one salesperson and one client or leave both open: a conversation
\* is never turned into one between two salespeople or two clients by the fallback.
RolesFollowSpeakers ==
    stage \in {"labelled", "classified"} =>
        /\ \A k, l \in DOMAIN turns :
               turns[k].speaker = turns[l].speaker => turns[k].role = turns[l].role
        /\ \A k \in DOMAIN turns : ~Diarized(turns[k]) => turns[k].role = "unknown"
        /\ roleBy = "fallback" =>
               \A k, l \in {m \in DOMAIN turns : Diarized(turns[m])} :
                   turns[k].speaker # turns[l].speaker
                       => \/ turns[k].role = "unknown" /\ turns[l].role = "unknown"
                          \/ {turns[k].role, turns[l].role} = {"salesperson", "client"}

\* What the model is shown is a beginning of the conversation in whole lines: within the
\* caps, unless the first line alone exceeds them, and not shorter than it has to be, except
\* that lines which would fill the cap exactly lose their last one when more follow.
PromptIsLongest(lines, caps) ==
    LET k == LinesKept(lines, caps) IN
    /\ lines # <<>> => k >= 1
    /\ k <= Len(lines) /\ k <= caps.lines
    /\ k > 1 => Length(lines, k) <= caps.chars
    /\ k < Len(lines) /\ k < caps.lines => Length(lines, k + 1) >= caps.chars

PromptsAreLongest ==
    PromptIsLongest(SequentialLines, RolePrompt) /\ PromptIsLongest(LabeledLines, ClassPrompt)

\* An answer the prompt offers is stored as it is, but for the FollowUp and the Purchase the
\* maps have not got; without turns nothing is concluded, and the keywords let a call count
\* as booked only if nobody cancelled or moved the appointment.
VerdictIsFounded ==
    stage = "classified" =>
        /\ answer \in Offered =>
               verdict = [answer EXCEPT !.result = IF @ = "FollowUp" THEN "None" ELSE @,
                                        !.intent = IF @ = "Purchase" THEN "None" ELSE @]
        /\ answer = NoAnswer /\ turns = <<>> => verdict = Nothing
        /\ answer = NoAnswer /\ turns # <<>> =>
               /\ verdict.intent # "None"
               /\ verdict.department \in CuesHeard \cup {"None"}
               /\ verdict.result = "AppointmentBooked" =>
                      "booked" \in CuesHeard
                      /\ CuesHeard \cap {"noConnect", "cancel", "reschedule"} = {}

=============================================================================
