-------------------------- MODULE NumberInventory --------------------------
(***************************************************************************)
(* The life of a tracking number: CallTrackingService.provision and        *)
(* remove, BusinessesService.update where it changes the limit, and        *)
(* TwilioService's purchase and release.  Three stores have to agree: the  *)
(* businesses row (limit and used count), the tracking_numbers rows, and   *)
(* the numbers the Twilio account really owns.  No transaction spans them, *)
(* so each await of a handler is a step.  Routes and marketing sources of  *)
(* a number are in module Configuration.                                   *)
(*                                                                         *)
(* A provision request r buys at most one number and inserts at most one   *)
(* row, so r names the request, the row and the Twilio SID.                *)
(***************************************************************************)
EXTENDS Naturals, FiniteSets

CONSTANTS
    Business,   \* businesses (all exist and stay)
    Req,        \* provision requests = rows = SIDs
    Owner,      \* the business a provision request is made for
    Number,     \* phone numbers on sale
    Rem,        \* remove handlers that may run at once (each serves many requests)
    Adm,        \* limit updates that may run at once
    Limits,     \* values of maxTrackingNumbers an administrator asks for
    MaxDefault, \* limit of a new business
    Faults,     \* what the environment may do wrong, see FaultKinds
    None        \* NULL

FaultKinds ==
    { "buyLost",         \* Twilio sells the number, the answer is lost
      "releaseFails",    \* lookup or every DELETE attempt answers a retryable error
      "releaseLost",     \* the last DELETE works, its answer is lost
      "releaseRefused",  \* DELETE answers an error that is not retried
      "persistFails",    \* the insert transaction fails
      "rollbackFails",   \* the used-1 statement fails
      "finaliseFails",   \* the second transaction of remove fails
      "crash",           \* the process dies between two steps
      "repeat" }         \* a request names a row that is already released

ASSUME OwnerAssumption == Owner \in [Req -> Business]
ASSUME LimitAssumption == Limits \subseteq Nat /\ MaxDefault \in Nat
ASSUME ReqAssumption == IsFiniteSet(Req) /\ None \notin Req /\ None \notin Number
ASSUME FaultAssumption == Faults \subseteq FaultKinds

VARIABLES
    max,     \* businesses.max_tracking_numbers
    used,    \* businesses.tracking_numbers_used_count
    status,  \* tracking_numbers.status, "none" while the row does not exist
    sid,     \* rows whose twilio_phone_sid is not NULL (it is then the row's own)
    owned,   \* SIDs the Twilio account owns
    num,     \* the phone number behind a SID (and in the row's number column)
    pc,      \* where each provision request is
    rem,     \* where each remove handler is
    adm,     \* where each limit update is
    mishaps  \* history: what has happened so far that some promises except

dbVars == <<max, used, status, sid>>
twilioVars == <<owned, num>>
vars == <<max, used, status, sid, owned, num, pc, rem, adm, mishaps>>

Status == {"none", "active", "releasing", "released"}
ProvisionPc == {"idle", "reserved", "bought", "compensate", "rollback", "ended"}

\* key: the SID to delete, None while it has to be looked up by number.
\* gone: what remove() will take for "deleted".
RemState == [pc : {"idle", "marked", "answered"}, row : Req \cup {None},
             key : Req \cup {None}, gone : BOOLEAN]
RemIdle == [pc |-> "idle", row |-> None, key |-> None, gone |-> FALSE]

AdmState == [pc : {"idle", "guarded"}, biz : Business \cup {None}, val : Nat]
AdmIdle == [pc |-> "idle", biz |-> None, val |-> 0]

MishapKinds == {"crash", "rollbackFails", "releaseLost", "releaseRefused", "zeroLimit",
                "limitRace", "repeat"}

TypeOK ==
    /\ max \in [Business -> Nat]
    /\ used \in [Business -> Nat]
    /\ status \in [Req -> Status]
    /\ sid \subseteq Req
    /\ owned \subseteq Req
    /\ num \in [Req -> Number \cup {None}]
    /\ pc \in [Req -> ProvisionPc]
    /\ rem \in [Rem -> RemState]
    /\ adm \in [Adm -> AdmState]
    /\ mishaps \subseteq MishapKinds

Init ==
    /\ max = [b \in Business |-> MaxDefault]
    /\ used = [b \in Business |-> 0]
    /\ status = [r \in Req |-> "none"]
    /\ sid = {}
    /\ owned = {}
    /\ num = [r \in Req |-> None]
    /\ pc = [r \in Req |-> "idle"]
    /\ rem = [d \in Rem |-> RemIdle]
    /\ adm = [a \in Adm |-> AdmIdle]
    /\ mishaps = {}

Mishap(kind) == mishaps' = mishaps \cup {kind}

-----------------------------------------------------------------------------
(* Twilio *)

\* No two SIDs of the account carry one number; a number of the account is not on sale.
OnSale == {n \in Number : \A s \in owned : num[s] # n}

\* What releasing SID s leaves in the account, and whether the caller is told it worked:
\* a SID that is gone answers 20404, which counts as released; an error that is not
\* retryable is caught and not rethrown, so it is reported as released too.
ReleaseOutcomes(s) ==
    {o \in [left : {owned, owned \ {s}}, released : BOOLEAN, odd : SUBSET MishapKinds] :
        \/ o.left = owned \ {s} /\ o.released /\ o.odd = {}
        \/ "releaseFails" \in Faults /\ o.left = owned /\ ~o.released /\ o.odd = {}
        \/ /\ "releaseLost" \in Faults
           /\ o.left = owned \ {s} /\ ~o.released /\ o.odd = {"releaseLost"}
        \/ /\ "releaseRefused" \in Faults
           /\ o.left = owned /\ o.released /\ o.odd = {"releaseRefused"}}

-----------------------------------------------------------------------------
(* CallTrackingService.provision *)

\* Variant: off by one at the limit.
ReserveAtLimit(r) ==
    LET b == Owner[r] IN
    /\ pc[r] = "idle"
    /\ used[b] <= max[b]
    /\ used' = [used EXCEPT ![b] = @ + 1]
    /\ pc' = [pc EXCEPT ![r] = "reserved"]
    /\ UNCHANGED <<max, status, sid, owned, num, rem, adm, mishaps>>

\* One UPDATE: used + 1 WHERE used < max.
Reserve(r) ==
    LET b == Owner[r] IN
    /\ pc[r] = "idle"
    /\ used[b] < max[b]
    /\ used' = [used EXCEPT ![b] = @ + 1]
    /\ pc' = [pc EXCEPT ![r] = "reserved"]
    /\ UNCHANGED <<max, status, sid, owned, num, rem, adm, mishaps>>

\* The same UPDATE affects no row: the request is turned away.
Refuse(r) ==
    /\ pc[r] = "idle"
    /\ used[Owner[r]] >= max[Owner[r]]
    /\ pc' = [pc EXCEPT ![r] = "ended"]
    /\ UNCHANGED <<dbVars, twilioVars, rem, adm, mishaps>>

Buy(r) ==
    /\ pc[r] = "reserved"
    /\ \E n \in OnSale :
        /\ num' = [num EXCEPT ![r] = n]
        /\ owned' = owned \cup {r}
    /\ \/ pc' = [pc EXCEPT ![r] = "bought"]
       \/ /\ "buyLost" \in Faults
          /\ pc' = [pc EXCEPT ![r] = "rollback"]
    /\ UNCHANGED <<dbVars, rem, adm, mishaps>>

\* Variant: the failed purchase forgets its reservation.
BuyFailsKeepsSlot(r) ==
    /\ pc[r] = "reserved"
    /\ pc' = [pc EXCEPT ![r] = "ended"]
    /\ UNCHANGED <<dbVars, twilioVars, rem, adm, mishaps>>

\* Twilio refuses (number gone, nothing in the area code, outage).
BuyFails(r) ==
    /\ pc[r] = "reserved"
    /\ pc' = [pc EXCEPT ![r] = "rollback"]
    /\ UNCHANGED <<dbVars, twilioVars, rem, adm, mishaps>>

\* Partial unique index: one active row per number.
NumberFree(r) == \A q \in Req \ {r} : status[q] = "active" => num[q] # num[r]

\* The row (and a route of its own) in one transaction.
Persist(r) ==
    /\ pc[r] = "bought"
    /\ NumberFree(r)
    /\ status' = [status EXCEPT ![r] = "active"]
    /\ sid' = sid \cup {r}
    /\ pc' = [pc EXCEPT ![r] = "ended"]
    /\ UNCHANGED <<max, used, twilioVars, rem, adm, mishaps>>

PersistFails(r) ==
    /\ pc[r] = "bought"
    /\ ~NumberFree(r) \/ "persistFails" \in Faults
    /\ pc' = [pc EXCEPT ![r] = "compensate"]
    /\ UNCHANGED <<dbVars, twilioVars, rem, adm, mishaps>>

\* The answer of the compensating release is not looked at.
Compensate(r) ==
    /\ pc[r] = "compensate"
    /\ \E o \in ReleaseOutcomes(r) : owned' = o.left
    /\ pc' = [pc EXCEPT ![r] = "rollback"]
    /\ UNCHANGED <<dbVars, num, rem, adm, mishaps>>

\* Variant: rolled back where the error is caught and once more at the end.
RollbackTwice(r) ==
    LET b == Owner[r] IN
    /\ pc[r] = "rollback"
    /\ used' = [used EXCEPT ![b] = IF @ > 0 THEN @ - 2 ELSE @]
    /\ pc' = [pc EXCEPT ![r] = "ended"]
    /\ UNCHANGED <<max, status, sid, twilioVars, rem, adm, mishaps>>

\* rollbackReservation: used - 1 WHERE used > 0; an error is logged and dropped.
Rollback(r) ==
    LET b == Owner[r] IN
    /\ pc[r] = "rollback"
    /\ \/ used' = [used EXCEPT ![b] = IF @ > 0 THEN @ - 1 ELSE @] /\ UNCHANGED mishaps
       \/ "rollbackFails" \in Faults /\ UNCHANGED used /\ Mishap("rollbackFails")
    /\ pc' = [pc EXCEPT ![r] = "ended"]
    /\ UNCHANGED <<max, status, sid, twilioVars, rem, adm>>

ProvisionStep(r) ==
    \/ Buy(r) \/ BuyFails(r) \/ Persist(r) \/ PersistFails(r)
    \/ Compensate(r) \/ Rollback(r)

-----------------------------------------------------------------------------
(* CallTrackingService.remove.  A request for a row in Releasing affects no *)
(* row, is answered with a conflict and changes nothing.                    *)

\* Variant: read the status, then write it in another statement (no condition left).
MarkReleasingUnguarded(d, r) ==
    /\ rem[d].pc = "idle"
    /\ status[r] \in {"active", "releasing"}
    /\ status' = [status EXCEPT ![r] = "releasing"]
    /\ rem' = [rem EXCEPT ![d] = [pc |-> "marked", row |-> r, gone |-> FALSE,
                                  key |-> IF r \in sid THEN r ELSE None]]
    /\ UNCHANGED <<max, used, sid, twilioVars, pc, adm, mishaps>>

\* Variant: the slot is given back when the removal starts.
MarkReleasingFreesSlot(d, r) ==
    /\ rem[d].pc = "idle"
    /\ status[r] = "active"
    /\ status' = [status EXCEPT ![r] = "releasing"]
    /\ used' = [used EXCEPT ![Owner[r]] = IF @ > 0 THEN @ - 1 ELSE @]
    /\ rem' = [rem EXCEPT ![d] = [pc |-> "marked", row |-> r, gone |-> FALSE,
                                  key |-> IF r \in sid THEN r ELSE None]]
    /\ UNCHANGED <<max, sid, twilioVars, pc, adm, mishaps>>

\* One UPDATE: status = releasing WHERE status <> releasing, returning the SID and number.
MarkReleasing(d, r) ==
    /\ rem[d].pc = "idle"
    /\ status[r] \in {"active"} \cup (IF "repeat" \in Faults THEN {"released"} ELSE {})
    /\ status' = [status EXCEPT ![r] = "releasing"]
    /\ rem' = [rem EXCEPT ![d] = [pc |-> "marked", row |-> r, gone |-> FALSE,
                                  key |-> IF r \in sid THEN r ELSE None]]
    /\ mishaps' = mishaps \cup {k \in {"repeat"} : status[r] = "released"}
    /\ UNCHANGED <<max, used, sid, twilioVars, pc, adm>>

Answer(d, gone) ==
    rem' = [rem EXCEPT ![d] = [@ EXCEPT !.pc = "answered", !.gone = gone]]

\* The SID column was NULL: find the SID that carries the row's number today.
LookupSid(d) ==
    /\ rem[d].pc = "marked"
    /\ rem[d].key = None
    /\ LET matches == {s \in owned : num[s] = num[rem[d].row]} IN
        \/ matches = {} /\ Answer(d, TRUE)
        \/ \E s \in matches : rem' = [rem EXCEPT ![d].key = s]
        \/ "releaseFails" \in Faults /\ Answer(d, FALSE)
    /\ UNCHANGED <<dbVars, twilioVars, pc, adm, mishaps>>

\* Variant: the answer of Twilio is not looked at, as in the compensation.
ReleaseNumberBlindly(d) ==
    /\ rem[d].pc = "marked"
    /\ rem[d].key # None
    /\ \E o \in ReleaseOutcomes(rem[d].key) :
        /\ owned' = o.left
        /\ mishaps' = mishaps \cup o.odd
        /\ Answer(d, TRUE)
    /\ UNCHANGED <<dbVars, num, pc, adm>>

ReleaseNumber(d) ==
    /\ rem[d].pc = "marked"
    /\ rem[d].key # None
    /\ \E o \in ReleaseOutcomes(rem[d].key) :
        /\ owned' = o.left
        /\ mishaps' = mishaps \cup o.odd
        /\ Answer(d, o.released)
    /\ UNCHANGED <<dbVars, num, pc, adm>>

\* Second transaction, Twilio said the number is gone: close the row (and its
\* routes) and give back its slot.
FinaliseDeleted(d) ==
    LET r == rem[d].row
        b == Owner[r] IN
    /\ rem[d].pc = "answered" /\ rem[d].gone
    /\ status' = [status EXCEPT ![r] = "released"]
    /\ sid' = sid \ {r}
    /\ used' = [used EXCEPT ![b] = IF @ > 0 THEN @ - 1 ELSE @]
    /\ rem' = [rem EXCEPT ![d] = RemIdle]
    /\ UNCHANGED <<max, twilioVars, pc, adm, mishaps>>

\* Variant: the failed removal is not reverted.
FinaliseNotReverted(d) ==
    /\ rem[d].pc = "answered" /\ ~rem[d].gone
    /\ rem' = [rem EXCEPT ![d] = RemIdle]
    /\ UNCHANGED <<dbVars, twilioVars, pc, adm, mishaps>>

\* Second transaction, Twilio failed: back to active, if the index allows it.
FinaliseReverted(d) ==
    LET r == rem[d].row IN
    /\ rem[d].pc = "answered" /\ ~rem[d].gone
    /\ NumberFree(r)
    /\ status' = [status EXCEPT ![r] = "active"]
    /\ rem' = [rem EXCEPT ![d] = RemIdle]
    /\ UNCHANGED <<max, used, sid, twilioVars, pc, adm, mishaps>>

\* Variant: when the second transaction fails the row is put back to active.
FinaliseFailsReverts(d) ==
    /\ rem[d].pc = "answered"
    /\ "finaliseFails" \in Faults
    /\ status' = [status EXCEPT ![rem[d].row] = "active"]
    /\ rem' = [rem EXCEPT ![d] = RemIdle]
    /\ UNCHANGED <<max, used, sid, twilioVars, pc, adm, mishaps>>

\* The second transaction fails: the request ends, the row stays Releasing.
FinaliseFails(d) ==
    /\ rem[d].pc = "answered"
    /\ \/ "finaliseFails" \in Faults
       \/ ~rem[d].gone /\ ~NumberFree(rem[d].row)
    /\ rem' = [rem EXCEPT ![d] = RemIdle]
    /\ UNCHANGED <<dbVars, twilioVars, pc, adm, mishaps>>

RemoveStep(d) ==
    \/ LookupSid(d) \/ ReleaseNumber(d)
    \/ FinaliseDeleted(d) \/ FinaliseReverted(d) \/ FinaliseFails(d)

-----------------------------------------------------------------------------
(* BusinessesService.update with maxTrackingNumbers                        *)

\* Variant: the limit is set without the comparison.
GuardLimitUnchecked(a, b, v) ==
    /\ adm[a].pc = "idle"
    /\ max' = [max EXCEPT ![b] = v]
    /\ adm' = [adm EXCEPT ![a] = [pc |-> "guarded", biz |-> b, val |-> v]]
    /\ UNCHANGED <<used, status, sid, twilioVars, pc, rem, mishaps>>

\* if (dto.maxTrackingNumbers): the limit is set at once, unless it is below the used
\* count.  0 is falsy, so a limit of 0 goes straight on.
GuardLimit(a, b, v) ==
    /\ adm[a].pc = "idle"
    /\ \/ v = 0 /\ UNCHANGED max
       \/ v > 0 /\ v >= used[b] /\ max' = [max EXCEPT ![b] = v]
    /\ mishaps' = mishaps \cup {k \in {"zeroLimit", "limitRace"} :
           \/ k = "zeroLimit" /\ v = 0
           \/ k = "limitRace" /\ \E c \in Adm : adm[c].pc = "guarded" /\ adm[c].biz = b}
    /\ adm' = [adm EXCEPT ![a] = [pc |-> "guarded", biz |-> b, val |-> v]]
    /\ UNCHANGED <<used, status, sid, twilioVars, pc, rem>>

\* The transaction then writes the same value again.  What it loads (updated_at) only
\* decides whether it retries, so the loop comes down to one write or none.
CommitLimit(a) ==
    /\ adm[a].pc = "guarded"
    /\ max' = [max EXCEPT ![adm[a].biz] = adm[a].val]
    /\ adm' = [adm EXCEPT ![a] = AdmIdle]
    /\ UNCHANGED <<used, status, sid, twilioVars, pc, rem, mishaps>>

\* Three conflicts, or a database error.
GiveUpLimit(a) ==
    /\ adm[a].pc = "guarded"
    /\ adm' = [adm EXCEPT ![a] = AdmIdle]
    /\ UNCHANGED <<dbVars, twilioVars, pc, rem, mishaps>>

-----------------------------------------------------------------------------
(* The process dies: the request is forgotten, the stores keep what they have. *)

CrashProvision(r) ==
    /\ "crash" \in Faults
    /\ pc[r] \notin {"idle", "ended"}
    /\ pc' = [pc EXCEPT ![r] = "ended"]
    /\ Mishap("crash")
    /\ UNCHANGED <<dbVars, twilioVars, rem, adm>>

CrashRemove(d) ==
    /\ "crash" \in Faults
    /\ rem[d].pc # "idle"
    /\ rem' = [rem EXCEPT ![d] = RemIdle]
    /\ UNCHANGED <<dbVars, twilioVars, pc, adm, mishaps>>

Next ==
    \/ \E r \in Req : Reserve(r) \/ Refuse(r) \/ ProvisionStep(r)
                      \/ CrashProvision(r)
    \/ \E d \in Rem, r \in Req : MarkReleasing(d, r)
    \/ \E d \in Rem : RemoveStep(d) \/ CrashRemove(d)
    \/ \E a \in Adm, b \in Business, v \in Limits : GuardLimit(a, b, v)
    \/ \E a \in Adm : CommitLimit(a) \/ GiveUpLimit(a)

Spec == Init /\ [][Next]_vars

\* A request once started runs on: every await settles (Twilio's client and the
\* database driver time out), and the event loop resumes the handler.
Fairness ==
    /\ \A r \in Req : WF_vars(ProvisionStep(r))
    /\ \A d \in Rem : WF_vars(RemoveStep(d))

FairSpec == Spec /\ Fairness

-----------------------------------------------------------------------------
(* Properties *)

InFlight(r) == pc[r] \in {"reserved", "bought", "compensate", "rollback"}

\* The slots a business takes up: requests under way and numbers it still has.
Taken(r) == InFlight(r) \/ status[r] \in {"active", "releasing"}
Holders(b) == {r \in Req : Owner[r] = b /\ Taken(r)}

\* Whatever fails, a row has at most one handler between the two transactions of
\* remove(), and it stays Releasing until that handler is through: the status column
\* works as the lock the two transactions do not have in common.
RemovalExclusive ==
    \A d \in Rem : rem[d].pc # "idle" =>
        /\ rem[d].row \in Req
        /\ status[rem[d].row] = "releasing"
        /\ \A e \in Rem \ {d} : rem[e].pc # "idle" => rem[e].row # rem[d].row

\* The used count may run ahead of what a business holds (after a crash or a failed
\* rollback), it never falls behind: the conditional UPDATE in provision() is then
\* enough to keep the quota.
NeverUndercount == \A b \in Business : Cardinality(Holders(b)) <= used[b]

\* Until a provision request dies or fails to roll back, the used count is exact, at every
\* step and across lost purchases, compensations, reverted and half-done removals.
ExactCount ==
    mishaps \cap {"crash", "rollbackFails"} = {} =>
        \A b \in Business : Cardinality(Holders(b)) = used[b]

\* The used count stays within the limit, also while the limit changes, until a limit of 0
\* is asked for (which skips the guard) or two updates of one limit overlap: the comment
\* over the guard in BusinessesService.update says so of every new limit.
UsedWithinLimit ==
    mishaps \cap {"zeroLimit", "limitRace"} = {} =>
        \A b \in Business : used[b] <= max[b]

\* A row is written Released only when its own SID has left the Twilio account, until Twilio
\* refuses a DELETE: no crash, lost answer, failed transaction or look-up by number makes a
\* number that is still paid for vanish from the business.
GoneUnlessRefused ==
    "releaseRefused" \notin mishaps =>
        \A r \in Req : status[r] = "released" => r \notin owned

\* The other way round, until the answer of a DELETE that worked is lost: calls to an Active
\* row can arrive, because the account owns its number.
ActiveIsOwned ==
    "releaseLost" \notin mishaps => \A r \in Req : status[r] = "active" => r \in owned

\* Every slot that is taken is either given back or becomes a working number: no purchase
\* stays half done, no row stays Releasing.  Until a Released row is removed again, which
\* remove() accepts: the unique index may then keep it from putting the row back.
SlotsSettle ==
    \A r \in Req :
        (InFlight(r) \/ status[r] = "releasing")
            ~> ((~InFlight(r) /\ status[r] # "releasing") \/ "repeat" \in mishaps)

\* The quota as its users see it, without the counter.
Ledger == INSTANCE SlotLedger WITH
    Slot <- Req, held <- [b \in Business |-> Holders(b)], limit <- max

\* Counting in a column of its own, updated in other statements than the rows, still
\* takes a slot only below the limit and gives back only slots that are held.
LedgerSpec == Ledger!Spec

=============================================================================
