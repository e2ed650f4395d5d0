----------------------- MODULE NumberInventoryProofs -----------------------
(***************************************************************************)
(* Theorems about NumberInventory for any number of businesses, requests,  *)
(* handlers and numbers, and for every set of faults unless one is named.  *)
(***************************************************************************)
EXTENDS NumberInventory, FiniteSetTheorems, TLAPS

-----------------------------------------------------------------------------
(* Type correctness *)

\* A release takes at most the SID it names, and reports success only for a SID that is
\* gone, unless Twilio may refuse.
LEMMA ReleaseEffect ==
    ASSUME NEW s, NEW o \in ReleaseOutcomes(s)
    PROVE  /\ o.left = owned \/ o.left = owned \ {s}
           /\ o.released \in BOOLEAN
           /\ o.odd \subseteq MishapKinds
           /\ o.released /\ "releaseRefused" \notin Faults => s \notin o.left
  BY DEF ReleaseOutcomes, MishapKinds

\* Provisioning keeps every variable in its type.
LEMMA TypeProvision ==
    ASSUME TypeOK, NEW r \in Req, Reserve(r) \/ Refuse(r) \/ ProvisionStep(r)
    PROVE  TypeOK'
<1> USE DEF TypeOK, Status, ProvisionPc
<1>1. CASE Reserve(r)
  <2>1. Owner[r] \in Business /\ used[Owner[r]] \in Nat
    BY OwnerAssumption
  <2>2. used' \in [Business -> Nat]
    BY <1>1, <2>1 DEF Reserve
  <2>3. pc' \in [Req -> ProvisionPc]
    BY <1>1 DEF Reserve
  <2> QED
    BY <1>1, <2>2, <2>3 DEF Reserve
<1>2. CASE Refuse(r)
  BY <1>2 DEF Refuse, dbVars, twilioVars
<1>3. CASE Buy(r)
  BY <1>3 DEF Buy, OnSale, dbVars
<1>4. CASE BuyFails(r)
  BY <1>4 DEF BuyFails, dbVars, twilioVars
<1>5. CASE Persist(r)
  BY <1>5 DEF Persist, twilioVars
<1>6. CASE PersistFails(r)
  BY <1>6 DEF PersistFails, dbVars, twilioVars
<1>7. CASE Compensate(r)
  BY <1>7, ReleaseEffect DEF Compensate, dbVars
<1>8. CASE Rollback(r)
  <2>1. used' \in [Business -> Nat]
    BY <1>8, OwnerAssumption DEF Rollback
  <2>2. mishaps' \subseteq MishapKinds
    BY <1>8 DEF Rollback, Mishap, MishapKinds
  <2> QED
    BY <1>8, <2>1, <2>2 DEF Rollback, twilioVars
<1> QED
  BY <1>1, <1>2, <1>3, <1>4, <1>5, <1>6, <1>7, <1>8 DEF ProvisionStep

\* So does removing.
LEMMA TypeRemove ==
    ASSUME TypeOK, NEW d \in Rem,
           (\E r \in Req : MarkReleasing(d, r)) \/ RemoveStep(d) \/ CrashRemove(d)
    PROVE  TypeOK'
<1> USE DEF TypeOK, Status, RemState
<1>1. ASSUME NEW r \in Req, MarkReleasing(d, r) PROVE TypeOK'
  <2>1. mishaps' \subseteq MishapKinds
    BY <1>1 DEF MarkReleasing, MishapKinds
  <2>2. status' \in [Req -> Status] /\ rem' \in [Rem -> RemState]
    BY <1>1 DEF MarkReleasing
  <2> QED
    BY <1>1, <2>1, <2>2 DEF MarkReleasing, twilioVars
<1>2. CASE LookupSid(d)
  <2>1. ASSUME NEW g \in BOOLEAN, Answer(d, g) PROVE rem' \in [Rem -> RemState]
    <3>1. [rem[d] EXCEPT !.pc = "answered", !.gone = g] \in RemState
      OBVIOUS
    <3> QED
      BY <2>1, <3>1 DEF Answer
  <2>2. ASSUME NEW s \in owned, rem' = [rem EXCEPT ![d].key = s]
        PROVE  rem' \in [Rem -> RemState]
    BY <2>2
  <2>3. rem' \in [Rem -> RemState]
    BY <1>2, <2>1, <2>2 DEF LookupSid
  <2> QED
    BY <1>2, <2>3 DEF LookupSid, dbVars, twilioVars
<1>3. CASE ReleaseNumber(d)
  <2>1. PICK o \in ReleaseOutcomes(rem[d].key) :
            owned' = o.left /\ mishaps' = mishaps \cup o.odd /\ Answer(d, o.released)
    BY <1>3 DEF ReleaseNumber
  <2>2. owned' \subseteq Req /\ o.released \in BOOLEAN /\ mishaps' \subseteq MishapKinds
    BY <2>1, ReleaseEffect
  <2>3. rem' \in [Rem -> RemState]
    <3>1. [rem[d] EXCEPT !.pc = "answered", !.gone = o.released] \in RemState
      BY <2>2
    <3> QED
      BY <2>1, <3>1 DEF Answer
  <2> QED
    BY <1>3, <2>2, <2>3 DEF ReleaseNumber, dbVars
<1>4. CASE FinaliseDeleted(d)
  <2> DEFINE b == Owner[rem[d].row]
  <2>1. used' \in [Business -> Nat]
    <3>1. used' = [used EXCEPT ![b] = IF @ > 0 THEN @ - 1 ELSE @]
      BY <1>4 DEF FinaliseDeleted
    <3>2. \A c \in Business : (IF used[c] > 0 THEN used[c] - 1 ELSE used[c]) \in Nat
      OBVIOUS
    <3> QED
      BY <3>1, <3>2
  <2>2. status' \in [Req -> Status]
    BY <1>4 DEF FinaliseDeleted
  <2>3. rem' \in [Rem -> RemState]
    BY <1>4 DEF FinaliseDeleted, RemIdle
  <2> QED
    BY <1>4, <2>1, <2>2, <2>3 DEF FinaliseDeleted, twilioVars
<1>5. CASE FinaliseReverted(d)
  BY <1>5 DEF FinaliseReverted, RemIdle, twilioVars
<1>6. CASE FinaliseFails(d)
  BY <1>6 DEF FinaliseFails, RemIdle, dbVars, twilioVars
<1>7. CASE CrashRemove(d)
  BY <1>7 DEF CrashRemove, RemIdle, dbVars, twilioVars
<1> QED
  BY <1>1, <1>2, <1>3, <1>4, <1>5, <1>6, <1>7 DEF RemoveStep

\* And so do the limit updates.
LEMMA TypeLimit ==
    ASSUME TypeOK, NEW a \in Adm,
           \/ \E b \in Business, v \in Limits : GuardLimit(a, b, v)
           \/ CommitLimit(a) \/ GiveUpLimit(a)
    PROVE  TypeOK'
<1> USE DEF TypeOK, AdmState
<1>1. ASSUME NEW b \in Business, NEW v \in Limits, GuardLimit(a, b, v) PROVE TypeOK'
  <2>1. mishaps' \subseteq MishapKinds
    BY <1>1 DEF GuardLimit, MishapKinds
  <2>2. max' \in [Business -> Nat] /\ adm' \in [Adm -> AdmState]
    BY <1>1, LimitAssumption DEF GuardLimit
  <2> QED
    BY <1>1, <2>1, <2>2 DEF GuardLimit, twilioVars
<1>2. CASE CommitLimit(a)
  BY <1>2 DEF CommitLimit, AdmIdle, twilioVars
<1>3. CASE GiveUpLimit(a)
  BY <1>3 DEF GiveUpLimit, AdmIdle, dbVars, twilioVars
<1> QED
  BY <1>1, <1>2, <1>3

\* Every variable keeps its type, whatever fails.
THEOREM TypeCorrect == Spec => []TypeOK
<1>1. Init => TypeOK
  BY LimitAssumption, ReqAssumption
     DEF Init, TypeOK, Status, ProvisionPc, RemState, RemIdle, AdmState, AdmIdle
<1>2. TypeOK /\ [Next]_vars => TypeOK'
  <2> SUFFICES ASSUME TypeOK, [Next]_vars PROVE TypeOK'
    OBVIOUS
  <2>1. ASSUME NEW r \in Req, Reserve(r) \/ Refuse(r) \/ ProvisionStep(r) PROVE TypeOK'
    BY <2>1, TypeProvision
  <2>3. ASSUME NEW r \in Req, CrashProvision(r) PROVE TypeOK'
    BY <2>3 DEF TypeOK, ProvisionPc, CrashProvision, Mishap, MishapKinds, dbVars, twilioVars
  <2>4. ASSUME NEW d \in Rem, NEW r \in Req, MarkReleasing(d, r) PROVE TypeOK'
    BY <2>4, TypeRemove
  <2>5. ASSUME NEW d \in Rem, RemoveStep(d) \/ CrashRemove(d) PROVE TypeOK'
    BY <2>5, TypeRemove
  <2>6. ASSUME NEW a \in Adm, NEW b \in Business, NEW v \in Limits, GuardLimit(a, b, v)
        PROVE TypeOK'
    BY <2>6, TypeLimit
  <2>7. ASSUME NEW a \in Adm, CommitLimit(a) \/ GiveUpLimit(a) PROVE TypeOK'
    BY <2>7, TypeLimit
  <2>8. CASE UNCHANGED vars
    BY <2>8 DEF TypeOK, vars
  <2> QED
    BY <2>1, <2>3, <2>4, <2>5, <2>6, <2>7, <2>8 DEF Next
<1> QED
  BY <1>1, <1>2, PTL DEF Spec

-----------------------------------------------------------------------------
(* One handler per row in Releasing *)

\* A row exists only once the request that inserts it is over.
Lifecycle == \A r \in Req : status[r] # "none" => pc[r] = "ended"

\* A provision step, even one that inserts the row, touches no row being removed.
LEMMA ExclusiveProvision ==
    ASSUME TypeOK, RemovalExclusive, Lifecycle, NEW r \in Req,
           Reserve(r) \/ Refuse(r) \/ ProvisionStep(r) \/ CrashProvision(r)
    PROVE  RemovalExclusive' /\ Lifecycle'
<1> USE DEF TypeOK, RemovalExclusive, Lifecycle
<1>1. CASE Persist(r)
  <2>1. status[r] = "none"
    BY <1>1 DEF Persist
  <2>2. /\ rem' = rem /\ status' = [status EXCEPT ![r] = "active"]
        /\ pc' = [pc EXCEPT ![r] = "ended"]
    BY <1>1 DEF Persist
  <2>3. \A d \in Rem : rem[d].pc # "idle" => rem[d].row # r
    BY <2>1
  <2> QED
    BY <2>2, <2>3
<1>2. CASE ~Persist(r)
  <2>1. rem' = rem /\ status' = status
    BY <1>2 DEF Reserve, Refuse, ProvisionStep, Buy, BuyFails, PersistFails, Compensate,
                Rollback, CrashProvision, dbVars, twilioVars
  <2>2. pc[r] # "ended" /\ \A q \in Req \ {r} : pc'[q] = pc[q]
    <3>1. CASE Reserve(r) \/ Refuse(r)
      BY <3>1 DEF Reserve, Refuse
    <3>2. CASE Buy(r)
      BY <3>2 DEF Buy
    <3>3. CASE BuyFails(r) \/ PersistFails(r) \/ Compensate(r)
      BY <3>3 DEF BuyFails, PersistFails, Compensate
    <3>4. CASE Rollback(r)
      BY <3>4 DEF Rollback
    <3>5. CASE CrashProvision(r)
      <4>1. pc[r] # "ended"
        BY <3>5 DEF CrashProvision
      <4>2. pc' = [pc EXCEPT ![r] = "ended"]
        BY <3>5 DEF CrashProvision
      <4> QED
        BY <4>1, <4>2
    <3> QED
      BY <1>2, <3>1, <3>2, <3>3, <3>4, <3>5 DEF ProvisionStep
  <2>3. status[r] = "none"
    BY <2>2
  <2> QED
    BY <2>1, <2>2, <2>3
<1> QED
  BY <1>1, <1>2

\* The conditional UPDATE lets a handler in only where none is; a handler that ends
\* leaves no other one behind on its row.
LEMMA ExclusiveRemove ==
    ASSUME TypeOK, RemovalExclusive, Lifecycle, NEW d \in Rem,
           (\E r \in Req : MarkReleasing(d, r)) \/ RemoveStep(d) \/ CrashRemove(d)
    PROVE  RemovalExclusive' /\ Lifecycle'
<1> USE DEF TypeOK, RemovalExclusive, Lifecycle
<1>1. ASSUME NEW r \in Req, MarkReleasing(d, r) PROVE RemovalExclusive' /\ Lifecycle'
  <2>1. /\ status[r] \in {"active", "released"}
        /\ status' = [status EXCEPT ![r] = "releasing"]
        /\ pc' = pc
    BY <1>1 DEF MarkReleasing
  <2>2. /\ rem' = [rem EXCEPT ![d] = rem'[d]]
        /\ rem'[d].pc = "marked" /\ rem'[d].row = r
    BY <1>1 DEF MarkReleasing
  <2>3. \A e \in Rem : rem[e].pc # "idle" => rem[e].row # r
    BY <2>1
  <2> QED
    BY <2>1, <2>2, <2>3
<1>2. CASE LookupSid(d) \/ ReleaseNumber(d)
  <2>1. status' = status /\ pc' = pc
    BY <1>2 DEF LookupSid, ReleaseNumber, dbVars
  <2> DEFINE Moved == /\ \A e \in Rem \ {d} : rem'[e] = rem[e]
                      /\ rem'[d].row = rem[d].row
  <2>2. ASSUME NEW g, Answer(d, g) PROVE Moved
    BY <2>2 DEF Answer, RemState
  <2>3. ASSUME NEW s, rem' = [rem EXCEPT ![d].key = s] PROVE Moved
    BY <2>3 DEF RemState
  <2>4. rem[d].pc = "marked" /\ Moved
    BY <1>2, <2>2, <2>3 DEF LookupSid, ReleaseNumber
  <2> QED
    BY <2>1, <2>4
<1>3. CASE FinaliseDeleted(d) \/ FinaliseReverted(d) \/ FinaliseFails(d) \/ CrashRemove(d)
  <2>1. rem[d].pc # "idle" /\ rem' = [rem EXCEPT ![d] = RemIdle] /\ pc' = pc
    BY <1>3 DEF FinaliseDeleted, FinaliseReverted, FinaliseFails, CrashRemove, dbVars
  <2>2. rem[d].row \in Req /\ status[rem[d].row] = "releasing"
    BY <2>1
  <2>3. \A r \in Req \ {rem[d].row} : status'[r] = status[r]
    BY <1>3, <2>2 DEF FinaliseDeleted, FinaliseReverted, FinaliseFails, CrashRemove, dbVars
  <2>4. RemovalExclusive'
    BY <2>1, <2>2, <2>3 DEF RemIdle
  <2>5. Lifecycle'
    BY <2>1, <2>2, <2>3
  <2> QED
    BY <2>4, <2>5
<1> QED
  BY <1>1, <1>2, <1>3 DEF RemoveStep

\* One step of the system keeps the rows and their handlers in order.
LEMMA ExclusiveStep ==
    ASSUME TypeOK, RemovalExclusive, Lifecycle, [Next]_vars
    PROVE  RemovalExclusive' /\ Lifecycle'
<1>1. ASSUME NEW r \in Req,
             Reserve(r) \/ Refuse(r) \/ ProvisionStep(r) \/ CrashProvision(r)
      PROVE  RemovalExclusive' /\ Lifecycle'
  BY <1>1, ExclusiveProvision
<1>2. ASSUME NEW d \in Rem,
             (\E r \in Req : MarkReleasing(d, r)) \/ RemoveStep(d) \/ CrashRemove(d)
      PROVE  RemovalExclusive' /\ Lifecycle'
  BY <1>2, ExclusiveRemove
<1>3. CASE UNCHANGED <<status, pc, rem>>
  BY <1>3 DEF RemovalExclusive, Lifecycle
<1>5. ASSUME NEW a \in Adm,
             \/ \E b \in Business, v \in Limits : GuardLimit(a, b, v)
             \/ CommitLimit(a) \/ GiveUpLimit(a)
      PROVE  UNCHANGED <<status, pc, rem>>
  BY <1>5 DEF GuardLimit, CommitLimit, GiveUpLimit, dbVars
<1>6. CASE UNCHANGED vars
  BY <1>3, <1>6 DEF vars
<1> QED
  BY <1>1, <1>2, <1>3, <1>5, <1>6 DEF Next

\* Whatever fails and however often removal is asked for, at most one handler of
\* remove() is between its two transactions for a row, and the row is Releasing.
THEOREM RemovalIsExclusive == Spec => []RemovalExclusive
<1>1. Init => RemovalExclusive /\ Lifecycle
  BY DEF Init, RemovalExclusive, Lifecycle, RemIdle
<1>2. TypeOK /\ (RemovalExclusive /\ Lifecycle) /\ [Next]_vars
      => (RemovalExclusive /\ Lifecycle)'
  BY ExclusiveStep
<1> QED
  BY <1>1, <1>2, TypeCorrect, PTL DEF Spec

-----------------------------------------------------------------------------
(* What a step does to the slots.  From here on no request names a released *)
(* row.                                                                     *)

NoRepeat == "repeat" \notin Faults

SameSlots(R) == \A q \in R : Taken(q)' <=> Taken(q)

Keeps == SameSlots(Req) /\ UNCHANGED <<used, max>>

Takes(r) ==
    /\ ~Taken(r) /\ Taken(r)' /\ SameSlots(Req \ {r})
    /\ used[Owner[r]] < max[Owner[r]]
    /\ used' = [used EXCEPT ![Owner[r]] = @ + 1]
    /\ UNCHANGED max

\* What may leave a slot counted that nobody holds.
Excused == mishaps \cap {"crash", "rollbackFails"} # {}

Frees(r) ==
    /\ Taken(r) /\ ~Taken(r)' /\ SameSlots(Req \ {r})
    /\ \/ used' = [used EXCEPT ![Owner[r]] = IF @ > 0 THEN @ - 1 ELSE @]
       \/ UNCHANGED used /\ Excused'
    /\ UNCHANGED max

Relimits(b) ==
    /\ SameSlots(Req) /\ UNCHANGED used
    /\ \A c \in Business \ {b} : max'[c] = max[c]

SlotInv == TypeOK /\ RemovalExclusive /\ Lifecycle

\* Reserving takes a slot, rolling back and crashing free it, the steps between keep it.
LEMMA ProvisionSlots ==
    ASSUME SlotInv, NEW r \in Req,
           Reserve(r) \/ Refuse(r) \/ ProvisionStep(r) \/ CrashProvision(r)
    PROVE  Keeps \/ Takes(r) \/ Frees(r)
<1> USE DEF SlotInv, TypeOK, Lifecycle, Taken, InFlight, SameSlots
<1>1. CASE Reserve(r)
  <2>1. pc[r] = "idle" /\ pc' = [pc EXCEPT ![r] = "reserved"] /\ UNCHANGED <<status, max>>
    BY <1>1 DEF Reserve
  <2>2. /\ used[Owner[r]] < max[Owner[r]]
        /\ used' = [used EXCEPT ![Owner[r]] = @ + 1]
    BY <1>1 DEF Reserve
  <2>3. status[r] = "none"
    BY <2>1
  <2>4. ~Taken(r) /\ Taken(r)' /\ SameSlots(Req \ {r})
    BY <2>1, <2>3
  <2> QED
    BY <2>1, <2>2, <2>4 DEF Takes
<1>2. CASE Refuse(r)
  <2>1. pc[r] = "idle" /\ pc' = [pc EXCEPT ![r] = "ended"] /\ UNCHANGED <<status, used, max>>
    BY <1>2 DEF Refuse, dbVars
  <2> QED
    BY <2>1 DEF Keeps
<1>3. CASE Buy(r) \/ BuyFails(r) \/ PersistFails(r) \/ Compensate(r)
  <2>1. /\ InFlight(r) /\ InFlight(r)' /\ \A q \in Req \ {r} : pc'[q] = pc[q]
        /\ UNCHANGED <<status, used, max>>
    <3>1. CASE Buy(r)
      BY <3>1 DEF Buy, dbVars
    <3>2. CASE BuyFails(r) \/ PersistFails(r) \/ Compensate(r)
      BY <3>2 DEF BuyFails, PersistFails, Compensate, dbVars
    <3> QED
      BY <1>3, <3>1, <3>2
  <2> QED
    BY <2>1 DEF Keeps
<1>4. CASE Persist(r)
  <2>1. /\ pc[r] = "bought" /\ pc' = [pc EXCEPT ![r] = "ended"]
        /\ status' = [status EXCEPT ![r] = "active"] /\ UNCHANGED <<used, max>>
    BY <1>4 DEF Persist
  <2> QED
    BY <2>1 DEF Keeps
<1>5. CASE Rollback(r) \/ CrashProvision(r)
  <2>1. pc[r] \notin {"idle", "ended"} /\ pc' = [pc EXCEPT ![r] = "ended"]
    <3>1. CASE Rollback(r)
      BY <3>1 DEF Rollback
    <3>2. CASE CrashProvision(r)
      BY <3>2 DEF CrashProvision
    <3> QED
      BY <1>5, <3>1, <3>2
  <2>2. UNCHANGED <<status, max>>
    BY <1>5 DEF Rollback, CrashProvision, dbVars
  <2>3. \/ used' = [used EXCEPT ![Owner[r]] = IF @ > 0 THEN @ - 1 ELSE @]
        \/ UNCHANGED used /\ Excused'
    BY <1>5 DEF Rollback, CrashProvision, dbVars, Mishap, Excused
  <2>4. status[r] = "none"
    BY <2>1
  <2>5. Taken(r) /\ ~Taken(r)' /\ SameSlots(Req \ {r})
    BY <2>1, <2>2, <2>4 DEF ProvisionPc
  <2> QED
    BY <2>2, <2>3, <2>5 DEF Frees
<1> QED
  BY <1>1, <1>2, <1>3, <1>4, <1>5 DEF ProvisionStep

\* Only the second transaction of remove() frees a slot, and the row still held it.
LEMMA RemoveSlots ==
    ASSUME SlotInv, NoRepeat, NEW d \in Rem,
           (\E r \in Req : MarkReleasing(d, r)) \/ RemoveStep(d) \/ CrashRemove(d)
    PROVE  Keeps \/ \E r \in Req : Frees(r)
<1> USE DEF SlotInv, TypeOK, Lifecycle, Taken, InFlight, SameSlots
<1>1. ASSUME NEW r \in Req, MarkReleasing(d, r) PROVE Keeps
  <2>1. /\ status[r] = "active" /\ status' = [status EXCEPT ![r] = "releasing"]
        /\ UNCHANGED <<pc, used, max>>
    BY <1>1 DEF MarkReleasing, NoRepeat
  <2> QED
    BY <2>1 DEF Keeps
<1>2. CASE LookupSid(d) \/ ReleaseNumber(d) \/ FinaliseFails(d) \/ CrashRemove(d)
  <2>1. UNCHANGED <<status, pc, used, max>>
    BY <1>2 DEF LookupSid, ReleaseNumber, FinaliseFails, CrashRemove, dbVars
  <2> QED
    BY <2>1 DEF Keeps
<1>3. CASE FinaliseReverted(d)
  <2>1. rem[d].row \in Req /\ status[rem[d].row] = "releasing"
    BY <1>3 DEF FinaliseReverted, RemovalExclusive
  <2>2. /\ status' = [status EXCEPT ![rem[d].row] = "active"]
        /\ UNCHANGED <<pc, used, max>>
    BY <1>3 DEF FinaliseReverted
  <2> QED
    BY <2>1, <2>2 DEF Keeps
<1>4. CASE FinaliseDeleted(d)
  <2>1. PICK r \in Req : rem[d].row = r /\ status[r] = "releasing"
    BY <1>4 DEF FinaliseDeleted, RemovalExclusive
  <2>2. status' = [status EXCEPT ![r] = "released"] /\ UNCHANGED <<pc, max>>
    BY <1>4, <2>1 DEF FinaliseDeleted
  <2>3. used' = [used EXCEPT ![Owner[r]] = IF @ > 0 THEN @ - 1 ELSE @]
    BY <1>4, <2>1 DEF FinaliseDeleted
  <2>4. pc[r] = "ended"
    BY <2>1
  <2>5. Taken(r) /\ ~Taken(r)' /\ SameSlots(Req \ {r})
    BY <2>1, <2>2, <2>4
  <2> QED
    BY <2>2, <2>3, <2>5 DEF Frees
<1> QED
  BY <1>1, <1>2, <1>3, <1>4 DEF RemoveStep

\* Every step keeps the slots, takes one, frees one, or changes one limit.
LEMMA SlotStep ==
    ASSUME SlotInv, NoRepeat, [Next]_vars
    PROVE  \/ Keeps
           \/ \E r \in Req : Takes(r) \/ Frees(r)
           \/ \E b \in Business : Relimits(b)
<1>1. ASSUME NEW r \in Req,
             Reserve(r) \/ Refuse(r) \/ ProvisionStep(r) \/ CrashProvision(r)
      PROVE  Keeps \/ Takes(r) \/ Frees(r)
  BY <1>1, ProvisionSlots
<1>2. ASSUME NEW d \in Rem,
             (\E r \in Req : MarkReleasing(d, r)) \/ RemoveStep(d) \/ CrashRemove(d)
      PROVE  Keeps \/ \E r \in Req : Frees(r)
  BY <1>2, RemoveSlots
<1>3. CASE UNCHANGED <<status, pc, used, max>>
  BY <1>3 DEF Keeps, SameSlots, Taken, InFlight
<1>5. ASSUME NEW a \in Adm, GiveUpLimit(a) PROVE UNCHANGED <<status, pc, used, max>>
  BY <1>5 DEF GiveUpLimit, dbVars
<1>6. ASSUME NEW a \in Adm, NEW b \in Business, NEW v \in Limits, GuardLimit(a, b, v)
      PROVE  Relimits(b)
  <2>1. UNCHANGED <<status, pc, used>>
    BY <1>6 DEF GuardLimit
  <2>2. \A c \in Business \ {b} : max'[c] = max[c]
    BY <1>6 DEF GuardLimit, SlotInv, TypeOK
  <2> QED
    BY <2>1, <2>2 DEF Relimits, SameSlots, Taken, InFlight
<1>7. ASSUME NEW a \in Adm, CommitLimit(a) PROVE Keeps \/ \E b \in Business : Relimits(b)
  <2>1. /\ UNCHANGED <<status, pc, used>>
        /\ max' = [max EXCEPT ![adm[a].biz] = adm[a].val]
    BY <1>7 DEF CommitLimit
  <2>2. SameSlots(Req)
    BY <2>1 DEF SameSlots, Taken, InFlight
  <2>3. \A c \in Business \ {adm[a].biz} : max'[c] = max[c]
    BY <2>1 DEF SlotInv, TypeOK
  <2>4. CASE adm[a].biz \in Business
    BY <2>1, <2>2, <2>3, <2>4 DEF Relimits
  <2>5. CASE adm[a].biz \notin Business
    <3>1. max' = max
      BY <2>1, <2>5 DEF SlotInv, TypeOK
    <3> QED
      BY <2>1, <2>2, <3>1 DEF Keeps
  <2> QED
    BY <2>4, <2>5
<1>8. CASE UNCHANGED vars
  BY <1>3, <1>8 DEF vars
<1> QED
  BY <1>1, <1>2, <1>3, <1>5, <1>6, <1>7, <1>8 DEF Next

-----------------------------------------------------------------------------
(* The used count never falls behind *)

\* Steps that keep every slot keep every business's holders.
LEMMA HoldersKept ==
    ASSUME SameSlots(Req)
    PROVE  \A b \in Business : Holders(b)' = Holders(b)
  BY DEF SameSlots, Holders

\* Taking or freeing the slot of r changes the holders of r's owner by r, and nobody else's.
LEMMA HoldersMoved ==
    ASSUME NEW r \in Req, SameSlots(Req \ {r})
    PROVE  /\ \A b \in Business \ {Owner[r]} : Holders(b)' = Holders(b)
           /\ Taken(r)' => Holders(Owner[r])' = Holders(Owner[r]) \cup {r}
           /\ ~Taken(r)' => Holders(Owner[r])' = Holders(Owner[r]) \ {r}
  BY DEF SameSlots, Holders

\* A business holds finitely many slots.
LEMMA HoldersFinite ==
    ASSUME NEW b \in Business
    PROVE  IsFiniteSet(Holders(b)) /\ Cardinality(Holders(b)) \in Nat
  BY ReqAssumption, FS_Subset, FS_CardinalityType DEF Holders

\* The count moves with the slots: up when one is taken, down only when one is freed.
LEMMA CountStep ==
    ASSUME SlotInv, NeverUndercount, NoRepeat, [Next]_vars
    PROVE  NeverUndercount'
<1> USE DEF NeverUndercount
<1> DEFINE card(b) == Cardinality(Holders(b))
<1>0. \A b \in Business : used[b] \in Nat /\ card(b) \in Nat /\ card(b) <= used[b]
  BY HoldersFinite DEF SlotInv, TypeOK
<1>1. CASE SameSlots(Req) /\ UNCHANGED used
  BY <1>1, HoldersKept
<1>2. ASSUME NEW r \in Req, Takes(r) PROVE NeverUndercount'
  <2> DEFINE o == Owner[r]
  <2>1. o \in Business
    BY OwnerAssumption
  <2>2. Holders(o)' = Holders(o) \cup {r} /\ r \notin Holders(o)
    BY <1>2, HoldersMoved DEF Takes, Holders
  <2>3. Cardinality(Holders(o)') = card(o) + 1
    BY <2>1, <2>2, HoldersFinite, FS_AddElement
  <2>4. used' = [used EXCEPT ![o] = @ + 1]
    BY <1>2 DEF Takes
  <2>5. used'[o] = used[o] + 1 /\ \A b \in Business \ {o} : used'[b] = used[b]
    BY <2>1, <2>4 DEF SlotInv, TypeOK
  <2>6. \A b \in Business \ {o} : Holders(b)' = Holders(b)
    BY <1>2, HoldersMoved DEF Takes
  <2> QED
    BY <1>0, <2>1, <2>3, <2>5, <2>6
<1>3. ASSUME NEW r \in Req, Frees(r) PROVE NeverUndercount'
  <2> DEFINE o == Owner[r]
  <2>1. o \in Business
    BY OwnerAssumption
  <2>2. Holders(o)' = Holders(o) \ {r} /\ r \in Holders(o)
    BY <1>3, HoldersMoved DEF Frees, Holders
  <2>3. Cardinality(Holders(o)') = card(o) - 1
    BY <2>1, <2>2, HoldersFinite, FS_RemoveElement
  <2>4. used'[o] >= used[o] - 1 /\ \A b \in Business \ {o} : used'[b] = used[b]
    <3>1. CASE used' = [used EXCEPT ![o] = IF @ > 0 THEN @ - 1 ELSE @]
      BY <1>0, <2>1, <3>1 DEF SlotInv, TypeOK
    <3>2. CASE UNCHANGED used
      BY <1>0, <2>1, <3>2
    <3> QED
      BY <1>3, <3>1, <3>2 DEF Frees
  <2>5. used'[o] \in Int
    <3>1. CASE used' = [used EXCEPT ![o] = IF @ > 0 THEN @ - 1 ELSE @]
      BY <1>0, <2>1, <3>1 DEF SlotInv, TypeOK
    <3>2. CASE UNCHANGED used
      BY <1>0, <2>1, <3>2
    <3> QED
      BY <1>3, <3>1, <3>2 DEF Frees
  <2>6. \A b \in Business \ {o} : Holders(b)' = Holders(b)
    BY <1>3, HoldersMoved DEF Frees
  <2> QED
    BY <1>0, <2>1, <2>3, <2>4, <2>5, <2>6
<1> QED
  BY <1>1, <1>2, <1>3, SlotStep DEF Keeps, Relimits

\* However purchases, releases, rollbacks and crashes interleave, the used count is at
\* least the number of slots a business holds, provided no request names a released row.
THEOREM CountNeverBehind == NoRepeat /\ Spec => [](SlotInv /\ NeverUndercount)
<1>1. Init => SlotInv /\ NeverUndercount
  <2> SUFFICES ASSUME Init PROVE SlotInv /\ NeverUndercount
    OBVIOUS
  <2>1. TypeOK
    BY LimitAssumption, ReqAssumption
       DEF Init, TypeOK, Status, ProvisionPc, RemState, RemIdle, AdmState, AdmIdle
  <2>2. RemovalExclusive /\ Lifecycle
    BY DEF Init, RemovalExclusive, Lifecycle, RemIdle
  <2>3. \A b \in Business : Holders(b) = {}
    BY DEF Init, Holders, Taken, InFlight
  <2>4. NeverUndercount
    <3>1. \A b \in Business : used[b] = 0
      BY DEF Init
    <3>2. Cardinality({}) = 0
      BY FS_EmptySet
    <3>3. \A b \in Business : Cardinality(Holders(b)) = 0
      BY <2>3, <3>2
    <3> QED
      BY <3>1, <3>3 DEF NeverUndercount
  <2> QED
    BY <2>1, <2>2, <2>4 DEF SlotInv
<1>2. TypeOK /\ RemovalExclusive /\ Lifecycle /\ [Next]_vars
      => RemovalExclusive' /\ Lifecycle'
  BY ExclusiveStep
<1>3. NoRepeat /\ (SlotInv /\ NeverUndercount) /\ [Next]_vars /\ TypeOK'
      => (SlotInv /\ NeverUndercount)'
  BY <1>2, CountStep DEF SlotInv
<1>4. NoRepeat => []NoRepeat
  <2>1. NoRepeat => NoRepeat'
    BY DEF NoRepeat
  <2> QED
    BY <2>1, PTL DEF NoRepeat
<1> QED
  BY <1>1, <1>3, <1>4, TypeCorrect, PTL DEF Spec

-----------------------------------------------------------------------------
(* The quota without the counter *)

HeldMap == [b \in Business |-> Holders(b)]

\* The instance brings its own copy of the library's Cardinality.
LEMMA LedgerCardinality == \A S : Ledger!Cardinality(S) = Cardinality(S)
  BY DEF Ledger!Cardinality, Cardinality, Ledger!IsFiniteSet, IsFiniteSet

\* Every step of the code is a step of the ledger or leaves it alone.
LEMMA LedgerStep ==
    ASSUME SlotInv, NeverUndercount, NoRepeat, [Next]_vars, TypeOK'
    PROVE  [Ledger!Next]_(Ledger!ledgerVars)
<1> USE DEF Ledger!ledgerVars
<1>1. ASSUME SameSlots(Req), UNCHANGED max PROVE UNCHANGED Ledger!ledgerVars
  BY <1>1, HoldersKept
<1>2. ASSUME NEW r \in Req, Takes(r) PROVE Ledger!Next
  <2> DEFINE o == Owner[r]
  <2>1. o \in Business
    BY OwnerAssumption
  <2>2. \A b \in Business : r \notin Holders(b)
    BY <1>2 DEF Takes, Holders
  <2>3. Cardinality(Holders(o)) < max[o]
    BY <1>2, <2>1, HoldersFinite DEF Takes, NeverUndercount, SlotInv, TypeOK
  <2>4. /\ Holders(o)' = Holders(o) \cup {r}
        /\ \A b \in Business \ {o} : Holders(b)' = Holders(b)
    BY <1>2, HoldersMoved DEF Takes
  <2>5. HeldMap' = [HeldMap EXCEPT ![o] = @ \cup {r}]
    BY <2>1, <2>4 DEF HeldMap
  <2>6. Ledger!Acquire(o, r)
    BY <1>2, <2>1, <2>2, <2>3, <2>5, LedgerCardinality DEF Ledger!Acquire, HeldMap, Takes
  <2> QED
    BY <2>1, <2>6 DEF Ledger!Next
<1>3. ASSUME NEW r \in Req, Frees(r) PROVE Ledger!Next
  <2> DEFINE o == Owner[r]
  <2>1. o \in Business
    BY OwnerAssumption
  <2>2. r \in Holders(o)
    BY <1>3 DEF Frees, Holders
  <2>3. /\ Holders(o)' = Holders(o) \ {r}
        /\ \A b \in Business \ {o} : Holders(b)' = Holders(b)
    BY <1>3, HoldersMoved DEF Frees
  <2>4. HeldMap' = [HeldMap EXCEPT ![o] = @ \ {r}]
    BY <2>1, <2>3 DEF HeldMap
  <2>5. Ledger!GiveBack(o, r)
    BY <1>3, <2>1, <2>2, <2>4 DEF Ledger!GiveBack, HeldMap, Frees
  <2> QED
    BY <2>1, <2>5 DEF Ledger!Next
<1>4. ASSUME NEW b \in Business, Relimits(b) PROVE Ledger!Next
  <2>1. max' = [max EXCEPT ![b] = max'[b]] /\ max'[b] \in Nat
    BY <1>4 DEF Relimits, SlotInv, TypeOK
  <2>2. HeldMap' = HeldMap
    BY <1>4, HoldersKept DEF Relimits, HeldMap
  <2> QED
    BY <2>1, <2>2 DEF Ledger!Next, Ledger!SetLimit, HeldMap
<1> QED
  BY <1>1, <1>2, <1>3, <1>4, SlotStep DEF Keeps

\* With the slots a business takes up as the held set, the code implements the quota: a
\* slot is only ever taken below the limit, although the statement that checks the limit
\* looks at the counter and not at the rows.
THEOREM ImplementsLedger == NoRepeat /\ Spec => LedgerSpec
<1>1. Init => Ledger!Init
  BY LimitAssumption DEF Init, Ledger!Init, Holders, Taken, InFlight
<1>2. NoRepeat /\ SlotInv /\ NeverUndercount /\ [Next]_vars /\ TypeOK'
      => [Ledger!Next]_(Ledger!ledgerVars)
  BY LedgerStep
<1>3. NoRepeat => []NoRepeat
  <2>1. NoRepeat => NoRepeat'
    BY DEF NoRepeat
  <2> QED
    BY <2>1, PTL DEF NoRepeat
<1> QED
  BY <1>1, <1>2, <1>3, CountNeverBehind, TypeCorrect, PTL DEF Spec, LedgerSpec, Ledger!Spec

-----------------------------------------------------------------------------
(* What is promised until a mishap: the limit, the rows against the Twilio account, and
   the exact count *)

\* What has gone wrong is not forgotten.
LEMMA MishapsStay ==
    ASSUME [Next]_vars
    PROVE  mishaps \subseteq mishaps'
<1> USE DEF Mishap
<1>1. ASSUME NEW r \in Req, Reserve(r) \/ Refuse(r) \/ ProvisionStep(r) \/ CrashProvision(r)
      PROVE  mishaps \subseteq mishaps'
  BY <1>1 DEF Reserve, Refuse, ProvisionStep, Buy, BuyFails, Persist, PersistFails,
              Compensate, Rollback, CrashProvision
<1>2. ASSUME NEW d \in Rem,
             (\E r \in Req : MarkReleasing(d, r)) \/ RemoveStep(d) \/ CrashRemove(d)
      PROVE  mishaps \subseteq mishaps'
  BY <1>2 DEF MarkReleasing, RemoveStep, LookupSid, ReleaseNumber, FinaliseDeleted,
              FinaliseReverted, FinaliseFails, CrashRemove
<1>3. ASSUME NEW a \in Adm,
             \/ \E b \in Business, v \in Limits : GuardLimit(a, b, v)
             \/ CommitLimit(a) \/ GiveUpLimit(a)
      PROVE  mishaps \subseteq mishaps'
  BY <1>3 DEF GuardLimit, CommitLimit, GiveUpLimit
<1>4. CASE UNCHANGED vars
  BY <1>4 DEF vars
<1> QED
  BY <1>1, <1>2, <1>3, <1>4 DEF Next

-----------------------------------------------------------------------------
(* The limit *)

LimitMishaps == {"zeroLimit", "limitRace"}

\* Between the two writes of a limit nobody else changes it.
LimitKept ==
    mishaps \cap LimitMishaps = {} =>
        \A a \in Adm : adm[a].pc = "guarded" =>
            adm[a].biz \in Business /\ max[adm[a].biz] = adm[a].val

\* Steps that leave the limits alone and take a slot, if at all, below the limit.
LEMMA LimitSlots ==
    ASSUME TypeOK, UsedWithinLimit, LimitKept, mishaps \subseteq mishaps',
           UNCHANGED <<max, adm>>,
           \/ UNCHANGED used
           \/ \E b \in Business : \/ used[b] < max[b] /\ used' = [used EXCEPT ![b] = @ + 1]
                                  \/ used' = [used EXCEPT ![b] = IF @ > 0 THEN @ - 1 ELSE @]
    PROVE  UsedWithinLimit' /\ LimitKept'
<1>1. LimitKept'
  BY DEF LimitKept
<1>2. ASSUME (mishaps \cap LimitMishaps = {})' PROVE \A b \in Business : used'[b] <= max'[b]
  <2>1. \A b \in Business : used[b] \in Nat /\ max[b] \in Nat /\ used[b] <= max[b]
    BY <1>2 DEF UsedWithinLimit, LimitMishaps, TypeOK
  <2>2. CASE UNCHANGED used
    BY <2>1, <2>2
  <2>3. ASSUME NEW b \in Business, used[b] < max[b], used' = [used EXCEPT ![b] = @ + 1]
        PROVE  \A c \in Business : used'[c] <= max'[c]
    BY <2>1, <2>3 DEF TypeOK
  <2>4. ASSUME NEW b \in Business, used' = [used EXCEPT ![b] = IF @ > 0 THEN @ - 1 ELSE @]
        PROVE  \A c \in Business : used'[c] <= max'[c]
    BY <2>1, <2>4 DEF TypeOK
  <2> QED
    BY <2>2, <2>3, <2>4
<1> QED
  BY <1>1, <1>2 DEF UsedWithinLimit, LimitMishaps

\* One step.
LEMMA LimitStep ==
    ASSUME TypeOK, RemovalExclusive, UsedWithinLimit, LimitKept, [Next]_vars
    PROVE  UsedWithinLimit' /\ LimitKept'
<1>0. mishaps \subseteq mishaps'
  BY MishapsStay
<1>1. ASSUME NEW r \in Req, Reserve(r) \/ Refuse(r) \/ ProvisionStep(r) \/ CrashProvision(r)
      PROVE  UsedWithinLimit' /\ LimitKept'
  <2>1. UNCHANGED <<max, adm>>
    BY <1>1 DEF Reserve, Refuse, ProvisionStep, Buy, BuyFails, Persist, PersistFails,
                Compensate, Rollback, CrashProvision, dbVars
  <2>2. \/ UNCHANGED used
        \/ used[Owner[r]] < max[Owner[r]] /\ used' = [used EXCEPT ![Owner[r]] = @ + 1]
        \/ used' = [used EXCEPT ![Owner[r]] = IF @ > 0 THEN @ - 1 ELSE @]
    BY <1>1 DEF Reserve, Refuse, ProvisionStep, Buy, BuyFails, Persist, PersistFails,
                Compensate, Rollback, CrashProvision, dbVars
  <2> QED
    BY <1>0, <2>1, <2>2, LimitSlots, OwnerAssumption
<1>2. ASSUME NEW d \in Rem,
             (\E r \in Req : MarkReleasing(d, r)) \/ RemoveStep(d) \/ CrashRemove(d)
      PROVE  UsedWithinLimit' /\ LimitKept'
  <2>1. UNCHANGED <<max, adm>>
    BY <1>2 DEF MarkReleasing, RemoveStep, LookupSid, ReleaseNumber, FinaliseDeleted,
                FinaliseReverted, FinaliseFails, CrashRemove, dbVars
  <2>2. CASE FinaliseDeleted(d)
    <3>1. rem[d].row \in Req
      BY <2>2 DEF FinaliseDeleted, RemovalExclusive
    <3>2. used' = [used EXCEPT ![Owner[rem[d].row]] = IF @ > 0 THEN @ - 1 ELSE @]
      BY <2>2 DEF FinaliseDeleted
    <3> QED
      BY <1>0, <2>1, <3>1, <3>2, LimitSlots, OwnerAssumption
  <2>3. CASE ~FinaliseDeleted(d)
    <3>1. UNCHANGED used
      BY <1>2, <2>3 DEF MarkReleasing, RemoveStep, LookupSid, ReleaseNumber,
                        FinaliseReverted, FinaliseFails, CrashRemove, dbVars
    <3> QED
      BY <1>0, <2>1, <3>1, LimitSlots
  <2> QED
    BY <2>2, <2>3
<1>3. ASSUME NEW a \in Adm, NEW b \in Business, NEW v \in Limits, GuardLimit(a, b, v)
      PROVE  UsedWithinLimit' /\ LimitKept'
  <2> SUFFICES ASSUME (mishaps \cap LimitMishaps = {})'
               PROVE  /\ \A c \in Business : used'[c] <= max'[c]
                      /\ \A c \in Adm : adm'[c].pc = "guarded" =>
                            adm'[c].biz \in Business /\ max'[adm'[c].biz] = adm'[c].val
    BY DEF UsedWithinLimit, LimitKept, LimitMishaps
  <2>1. /\ \A c \in Business : used[c] <= max[c]
        /\ \A c \in Adm : adm[c].pc = "guarded" =>
              adm[c].biz \in Business /\ max[adm[c].biz] = adm[c].val
    BY <1>0 DEF UsedWithinLimit, LimitKept, LimitMishaps
  <2>2. "zeroLimit" \notin mishaps' /\ "limitRace" \notin mishaps'
    BY DEF LimitMishaps
  <2>3. v # 0 /\ \A c \in Adm : adm[c].pc = "guarded" => adm[c].biz # b
    BY <1>3, <2>2 DEF GuardLimit
  <2>4. v >= used[b] /\ max' = [max EXCEPT ![b] = v] /\ UNCHANGED used
    BY <1>3, <2>3 DEF GuardLimit
  <2>5. adm' = [adm EXCEPT ![a] = [pc |-> "guarded", biz |-> b, val |-> v]]
    BY <1>3 DEF GuardLimit
  <2>6. v \in Nat /\ used \in [Business -> Nat] /\ max \in [Business -> Nat]
    BY LimitAssumption DEF TypeOK
  <2>7. \A c \in Business : used'[c] <= max'[c]
    BY <2>1, <2>4, <2>6
  <2>8. ASSUME NEW c \in Adm, adm'[c].pc = "guarded"
        PROVE  adm'[c].biz \in Business /\ max'[adm'[c].biz] = adm'[c].val
    <3>1. CASE c = a
      BY <2>4, <2>5, <2>6, <3>1 DEF TypeOK
    <3>2. CASE c # a
      BY <2>1, <2>3, <2>4, <2>5, <2>6, <2>8, <3>2 DEF TypeOK
    <3> QED
      BY <3>1, <3>2
  <2> QED
    BY <2>7, <2>8
<1>4. ASSUME NEW a \in Adm, CommitLimit(a)
      PROVE  UsedWithinLimit' /\ LimitKept'
  <2> SUFFICES ASSUME mishaps \cap LimitMishaps = {}
               PROVE  UsedWithinLimit' /\ LimitKept'
    BY <1>0 DEF UsedWithinLimit, LimitKept, LimitMishaps
  <2>1. adm[a].biz \in Business /\ max[adm[a].biz] = adm[a].val
    BY <1>4 DEF LimitKept, CommitLimit
  <2>2. UNCHANGED <<max, used>>
    BY <1>4, <2>1 DEF CommitLimit, TypeOK
  <2>3. adm' = [adm EXCEPT ![a] = AdmIdle]
    BY <1>4 DEF CommitLimit
  <2>4. UsedWithinLimit'
    BY <2>2 DEF UsedWithinLimit, LimitMishaps
  <2>5. LimitKept'
    BY <2>2, <2>3 DEF LimitKept, AdmIdle, TypeOK
  <2> QED
    BY <2>4, <2>5
<1>5. ASSUME NEW a \in Adm, GiveUpLimit(a)
      PROVE  UsedWithinLimit' /\ LimitKept'
  BY <1>5 DEF GiveUpLimit, dbVars, UsedWithinLimit, LimitKept, AdmIdle, TypeOK
<1>6. CASE UNCHANGED vars
  BY <1>6 DEF vars, UsedWithinLimit, LimitKept
<1> QED
  BY <1>1, <1>2, <1>3, <1>4, <1>5, <1>6 DEF Next

\* Whatever fails and crashes, the used count stays within the limit until a limit of 0 is
\* asked for or two updates of a limit overlap.
THEOREM LimitHolds == Spec => []UsedWithinLimit
<1>1. Init => UsedWithinLimit /\ LimitKept
  BY LimitAssumption DEF Init, UsedWithinLimit, LimitKept, AdmIdle
<1>2. TypeOK /\ RemovalExclusive /\ (UsedWithinLimit /\ LimitKept) /\ [Next]_vars
      => (UsedWithinLimit /\ LimitKept)'
  BY LimitStep
<1> QED
  BY <1>1, <1>2, TypeCorrect, RemovalIsExclusive, PTL DEF Spec

-----------------------------------------------------------------------------
(* Rows and the Twilio account *)

\* A released row has no SID; until its removal is through, a row's handler works on it.
Closed ==
    /\ \A r \in Req : status[r] = "released" => r \notin sid
    /\ \A d \in Rem : rem[d].pc = "marked" /\ rem[d].row \in sid => rem[d].key = rem[d].row

\* A row without a SID, or whose handler believes the number gone, is right about it.
Gone ==
    "releaseRefused" \notin mishaps =>
        /\ \A r \in Req : status[r] # "none" /\ r \notin sid => r \notin owned
        /\ \A d \in Rem : rem[d].pc = "answered" /\ rem[d].gone => rem[d].row \notin owned

\* Buying is for a row that is not there yet, compensating only takes a number away.
LEMMA GoneProvision ==
    ASSUME SlotInv, Closed, Gone, NEW r \in Req,
           Reserve(r) \/ Refuse(r) \/ ProvisionStep(r) \/ CrashProvision(r)
    PROVE  Closed' /\ Gone'
<1> USE DEF SlotInv, TypeOK, RemovalExclusive, Lifecycle, Closed, Gone
<1>1. CASE Buy(r)
  <2>1. /\ status[r] = "none" /\ owned' = owned \cup {r}
        /\ UNCHANGED <<status, sid, rem, mishaps>>
    BY <1>1 DEF Buy, dbVars
  <2>2. \A d \in Rem : rem[d].pc # "idle" => rem[d].row # r
    BY <2>1
  <2> QED
    BY <2>1, <2>2
<1>2. CASE Persist(r)
  <2>1. /\ status[r] = "none" /\ status' = [status EXCEPT ![r] = "active"]
        /\ sid' = sid \cup {r} /\ UNCHANGED <<owned, rem, mishaps>>
    BY <1>2 DEF Persist, twilioVars
  <2>2. \A d \in Rem : rem[d].pc # "idle" => rem[d].row # r
    BY <2>1
  <2> QED
    BY <2>1, <2>2
<1>3. CASE Compensate(r)
  <2>1. owned' \subseteq owned /\ UNCHANGED <<status, sid, rem, mishaps>>
    BY <1>3, ReleaseEffect DEF Compensate, dbVars
  <2> QED
    BY <2>1
<1>4. CASE Reserve(r) \/ Refuse(r) \/ BuyFails(r) \/ PersistFails(r)
           \/ Rollback(r) \/ CrashProvision(r)
  <2>1. UNCHANGED <<status, sid, owned, rem>> /\ mishaps \subseteq mishaps'
    BY <1>4 DEF Reserve, Refuse, BuyFails, PersistFails, Rollback, CrashProvision, Mishap,
                dbVars, twilioVars
  <2> QED
    BY <2>1
<1> QED
  BY <1>1, <1>2, <1>3, <1>4 DEF ProvisionStep

\* A removal that believes its number gone has seen Twilio say so of the row's own SID, or
\* has found no number to release for a row whose SID was gone before.
LEMMA GoneRemove ==
    ASSUME SlotInv, Closed, Gone, NEW d \in Rem,
           (\E r \in Req : MarkReleasing(d, r)) \/ RemoveStep(d) \/ CrashRemove(d)
    PROVE  Closed' /\ Gone'
<1> USE DEF SlotInv, TypeOK, RemovalExclusive, Lifecycle, Closed, Gone
<1>1. ASSUME NEW r \in Req, MarkReleasing(d, r) PROVE Closed' /\ Gone'
  <2>1. /\ status[r] # "none" /\ status' = [status EXCEPT ![r] = "releasing"]
        /\ rem' = [rem EXCEPT ![d] = [pc |-> "marked", row |-> r, gone |-> FALSE,
                                      key |-> IF r \in sid THEN r ELSE None]]
        /\ UNCHANGED <<sid, owned>> /\ mishaps \subseteq mishaps'
    BY <1>1 DEF MarkReleasing, twilioVars
  <2> QED
    BY <2>1
<1>2. CASE LookupSid(d)
  <2>1. /\ rem[d].pc = "marked" /\ rem[d].row \in Req /\ status[rem[d].row] = "releasing"
        /\ rem[d].row \notin sid /\ UNCHANGED <<status, sid, owned, mishaps>>
    BY <1>2, ReqAssumption DEF LookupSid, dbVars, twilioVars
  <2>2. CASE \E g \in BOOLEAN : Answer(d, g)
    BY <2>1, <2>2 DEF Answer, RemState
  <2>3. ASSUME NEW s, rem' = [rem EXCEPT ![d].key = s] PROVE Closed' /\ Gone'
    BY <2>1, <2>3 DEF RemState
  <2> QED
    BY <1>2, <2>2, <2>3 DEF LookupSid
<1>3. CASE ReleaseNumber(d)
  <2>1. PICK o \in ReleaseOutcomes(rem[d].key) :
           owned' = o.left /\ mishaps' = mishaps \cup o.odd /\ Answer(d, o.released)
    BY <1>3 DEF ReleaseNumber
  <2>2. rem[d].pc = "marked" /\ rem[d].row \in Req /\ UNCHANGED <<status, sid>>
    BY <1>3 DEF ReleaseNumber, dbVars
  <2>3. owned' \subseteq owned /\ o.released \in BOOLEAN
    BY <2>1, ReleaseEffect
  <2>4. ASSUME "releaseRefused" \notin mishaps', o.released
        PROVE  rem[d].key \notin owned'
    BY <2>1, <2>4 DEF ReleaseOutcomes
  <2>5. rem' = [rem EXCEPT ![d] = [@ EXCEPT !.pc = "answered", !.gone = o.released]]
    BY <2>1 DEF Answer
  <2>6. Closed'
    BY <2>2, <2>5 DEF RemState
  <2>7. ASSUME "releaseRefused" \notin mishaps', o.released
        PROVE  rem[d].row \notin owned'
    <3>1. CASE rem[d].row \in sid
      BY <2>2, <2>4, <2>7, <3>1
    <3>2. CASE rem[d].row \notin sid
      BY <2>1, <2>2, <2>3, <2>7, <3>2
    <3> QED
      BY <3>1, <3>2
  <2>8. Gone'
    BY <2>1, <2>2, <2>3, <2>5, <2>7 DEF RemState
  <2> QED
    BY <2>6, <2>8
<1>4. CASE FinaliseDeleted(d)
  <2>1. PICK r \in Req : rem[d].row = r /\ status[r] = "releasing"
    BY <1>4 DEF FinaliseDeleted
  <2>2. /\ rem[d].pc = "answered" /\ rem[d].gone
        /\ status' = [status EXCEPT ![r] = "released"] /\ sid' = sid \ {r}
        /\ rem' = [rem EXCEPT ![d] = RemIdle] /\ UNCHANGED <<owned, mishaps>>
    BY <1>4, <2>1 DEF FinaliseDeleted, twilioVars
  <2> QED
    BY <2>1, <2>2 DEF RemIdle
<1>5. CASE FinaliseReverted(d)
  <2>1. PICK r \in Req : rem[d].row = r /\ status[r] = "releasing"
    BY <1>5 DEF FinaliseReverted
  <2>2. /\ status' = [status EXCEPT ![r] = "active"]
        /\ rem' = [rem EXCEPT ![d] = RemIdle] /\ UNCHANGED <<sid, owned, mishaps>>
    BY <1>5, <2>1 DEF FinaliseReverted, twilioVars
  <2> QED
    BY <2>1, <2>2 DEF RemIdle
<1>6. CASE FinaliseFails(d) \/ CrashRemove(d)
  <2>1. rem' = [rem EXCEPT ![d] = RemIdle] /\ UNCHANGED <<status, sid, owned, mishaps>>
    BY <1>6 DEF FinaliseFails, CrashRemove, dbVars, twilioVars
  <2> QED
    BY <2>1 DEF RemIdle
<1> QED
  BY <1>1, <1>2, <1>3, <1>4, <1>5, <1>6 DEF RemoveStep

\* One step.
LEMMA GoneStep ==
    ASSUME SlotInv, Closed, Gone, [Next]_vars
    PROVE  Closed' /\ Gone'
<1>1. ASSUME NEW r \in Req, Reserve(r) \/ Refuse(r) \/ ProvisionStep(r) \/ CrashProvision(r)
      PROVE  Closed' /\ Gone'
  BY <1>1, GoneProvision
<1>2. ASSUME NEW d \in Rem,
             (\E r \in Req : MarkReleasing(d, r)) \/ RemoveStep(d) \/ CrashRemove(d)
      PROVE  Closed' /\ Gone'
  BY <1>2, GoneRemove
<1>3. CASE UNCHANGED <<status, sid, owned, rem>>
  <2>1. mishaps \subseteq mishaps'
    BY MishapsStay
  <2> QED
    BY <1>3, <2>1 DEF Closed, Gone
<1>4. ASSUME NEW a \in Adm,
             \/ \E b \in Business, v \in Limits : GuardLimit(a, b, v)
             \/ CommitLimit(a) \/ GiveUpLimit(a)
      PROVE  UNCHANGED <<status, sid, owned, rem>>
  BY <1>4 DEF GuardLimit, CommitLimit, GiveUpLimit, dbVars, twilioVars
<1>5. CASE UNCHANGED vars
  BY <1>3, <1>5 DEF vars
<1> QED
  BY <1>1, <1>2, <1>3, <1>4, <1>5 DEF Next

\* Whatever fails, crashes or is asked for twice, a row is written Released only when its
\* own SID has left the account, until Twilio refuses a DELETE.
THEOREM ReleasedIsGone == Spec => []GoneUnlessRefused
<1>1. Init => Lifecycle /\ Closed /\ Gone
  BY DEF Init, Lifecycle, Closed, Gone, RemIdle
<1>2. TypeOK /\ RemovalExclusive /\ (Lifecycle /\ Closed /\ Gone) /\ [Next]_vars
      => (Lifecycle /\ Closed /\ Gone)'
  BY GoneStep, ExclusiveStep DEF SlotInv
<1>3. Closed /\ Gone => GoneUnlessRefused
  BY DEF Closed, Gone, GoneUnlessRefused
<1> QED
  BY <1>1, <1>2, <1>3, TypeCorrect, RemovalIsExclusive, PTL DEF Spec

-----------------------------------------------------------------------------
(* Numbers that are in use.  From here on no request names a released row.  *)

\* Rows that are not released have their SID, and removing them takes that one.
Live == \A r \in Req : status[r] \in {"active", "releasing"} => r \in sid

\* A row whose removal did not work, or has not been tried, still has its number.
Owned ==
    "releaseLost" \notin mishaps =>
        /\ \A r \in Req : pc[r] = "bought" \/ status[r] = "active" => r \in owned
        /\ \A d \in Rem : rem[d].pc = "marked" => rem[d].row \in owned
        /\ \A d \in Rem : rem[d].pc = "answered" /\ ~rem[d].gone => rem[d].row \in owned

\* The compensation takes away only a number that has no row.
LEMMA OwnedProvision ==
    ASSUME SlotInv, Live, Owned, NEW r \in Req,
           Reserve(r) \/ Refuse(r) \/ ProvisionStep(r) \/ CrashProvision(r)
    PROVE  Live' /\ Owned'
<1> USE DEF SlotInv, TypeOK, RemovalExclusive, Lifecycle, Live, Owned
<1>1. CASE Buy(r)
  <2>1. /\ owned' = owned \cup {r} /\ UNCHANGED <<status, sid, rem, mishaps>>
        /\ \A q \in Req \ {r} : pc'[q] = pc[q]
    BY <1>1 DEF Buy, dbVars
  <2> QED
    BY <2>1
<1>2. CASE Persist(r)
  <2>1. /\ pc[r] = "bought" /\ pc' = [pc EXCEPT ![r] = "ended"]
        /\ status' = [status EXCEPT ![r] = "active"]
        /\ sid' = sid \cup {r} /\ UNCHANGED <<owned, rem, mishaps>>
    BY <1>2 DEF Persist, twilioVars
  <2> QED
    BY <2>1
<1>3. CASE Compensate(r)
  <2>1. /\ pc[r] = "compensate" /\ pc' = [pc EXCEPT ![r] = "rollback"]
        /\ owned' = owned \/ owned' = owned \ {r}
        /\ UNCHANGED <<status, sid, rem, mishaps>>
    BY <1>3, ReleaseEffect DEF Compensate, dbVars
  <2>2. status[r] = "none" /\ \A d \in Rem : rem[d].pc # "idle" => rem[d].row # r
    BY <2>1
  <2> QED
    BY <2>1, <2>2
<1>4. CASE Reserve(r) \/ Refuse(r) \/ BuyFails(r) \/ PersistFails(r)
           \/ Rollback(r) \/ CrashProvision(r)
  <2>1. UNCHANGED <<status, sid, owned, rem>> /\ mishaps \subseteq mishaps'
    BY <1>4 DEF Reserve, Refuse, BuyFails, PersistFails, Rollback, CrashProvision, Mishap,
                dbVars, twilioVars
  <2>2. \A q \in Req : pc'[q] = "bought" => pc[q] = "bought"
    BY <1>4 DEF Reserve, Refuse, BuyFails, PersistFails, Rollback, CrashProvision
  <2> QED
    BY <2>1, <2>2
<1> QED
  BY <1>1, <1>2, <1>3, <1>4 DEF ProvisionStep

\* A removal takes away only the number of its own row, and knows when it has.
LEMMA OwnedRemove ==
    ASSUME SlotInv, Closed, Live, Owned, NoRepeat, NEW d \in Rem,
           (\E r \in Req : MarkReleasing(d, r)) \/ RemoveStep(d) \/ CrashRemove(d)
    PROVE  Live' /\ Owned'
<1> USE DEF SlotInv, TypeOK, RemovalExclusive, Lifecycle, Live, Owned
<1>1. ASSUME NEW r \in Req, MarkReleasing(d, r) PROVE Live' /\ Owned'
  <2>1. /\ status[r] = "active" /\ status' = [status EXCEPT ![r] = "releasing"]
        /\ rem' = [rem EXCEPT ![d] = [pc |-> "marked", row |-> r, gone |-> FALSE,
                                      key |-> IF r \in sid THEN r ELSE None]]
        /\ UNCHANGED <<sid, owned, pc>> /\ mishaps \subseteq mishaps'
    BY <1>1 DEF MarkReleasing, twilioVars, NoRepeat
  <2> QED
    BY <2>1
<1>2. CASE LookupSid(d)
  <2>1. rem[d].key = rem[d].row /\ rem[d].row \in Req /\ rem[d].key = None
    BY <1>2 DEF LookupSid, Closed
  <2> QED
    BY <2>1, ReqAssumption
<1>3. CASE ReleaseNumber(d)
  <2>1. PICK o \in ReleaseOutcomes(rem[d].key) :
           owned' = o.left /\ mishaps' = mishaps \cup o.odd /\ Answer(d, o.released)
    BY <1>3 DEF ReleaseNumber
  <2>2. PICK r \in Req : rem[d].row = r /\ status[r] = "releasing"
    BY <1>3 DEF ReleaseNumber
  <2>3. rem[d].pc = "marked" /\ UNCHANGED <<status, sid, pc>>
    BY <1>3 DEF ReleaseNumber, dbVars
  <2>4. rem[d].key = r
    BY <2>2, <2>3 DEF Closed
  <2>5. owned \ {r} \subseteq owned'
    BY <2>1, <2>4, ReleaseEffect
  <2>6. ASSUME "releaseLost" \notin mishaps', ~o.released
        PROVE  owned' = owned
    BY <2>1, <2>6 DEF ReleaseOutcomes
  <2>7. rem' = [rem EXCEPT ![d] = [@ EXCEPT !.pc = "answered", !.gone = o.released]]
    BY <2>1 DEF Answer
  <2>8. pc[r] = "ended" /\ status[r] = "releasing"
        /\ \A e \in Rem \ {d} : rem[e].pc # "idle" => rem[e].row # r
    BY <2>2, <2>3
  <2>9. Live'
    BY <2>3
  <2> SUFFICES ASSUME "releaseLost" \notin mishaps'
               PROVE  /\ \A q \in Req : pc'[q] = "bought" \/ status'[q] = "active"
                                            => q \in owned'
                      /\ \A e \in Rem : rem'[e].pc = "marked" => rem'[e].row \in owned'
                      /\ \A e \in Rem : rem'[e].pc = "answered" /\ ~rem'[e].gone
                                            => rem'[e].row \in owned'
    BY <2>9
  <2>10. "releaseLost" \notin mishaps
    BY <2>1
  <2>11. \A q \in Req : pc'[q] = "bought" \/ status'[q] = "active" => q \in owned'
    BY <2>3, <2>5, <2>8, <2>10
  <2>12. \A e \in Rem \ {d} : /\ rem'[e] = rem[e]
                              /\ rem[e].pc = "marked" => rem[e].row \in owned'
                              /\ rem[e].pc = "answered" /\ ~rem[e].gone
                                     => rem[e].row \in owned'
    BY <2>5, <2>7, <2>8, <2>10
  <2>13. /\ rem'[d].pc = "answered" /\ rem'[d].gone = o.released /\ rem'[d].row = r
    BY <2>2, <2>7 DEF RemState
  <2>14. ~o.released => r \in owned'
    BY <2>2, <2>3, <2>6, <2>10
  <2> QED
    BY <2>11, <2>12, <2>13, <2>14
<1>4. CASE FinaliseDeleted(d)
  <2>1. PICK r \in Req : rem[d].row = r /\ status[r] = "releasing"
    BY <1>4 DEF FinaliseDeleted
  <2>2. /\ status' = [status EXCEPT ![r] = "released"] /\ sid' = sid \ {r}
        /\ rem' = [rem EXCEPT ![d] = RemIdle] /\ UNCHANGED <<owned, pc, mishaps>>
    BY <1>4, <2>1 DEF FinaliseDeleted, twilioVars
  <2> QED
    BY <2>1, <2>2 DEF RemIdle
<1>5. CASE FinaliseReverted(d)
  <2>1. PICK r \in Req : rem[d].row = r /\ status[r] = "releasing"
    BY <1>5 DEF FinaliseReverted
  <2>2. /\ rem[d].pc = "answered" /\ ~rem[d].gone
        /\ status' = [status EXCEPT ![r] = "active"]
        /\ rem' = [rem EXCEPT ![d] = RemIdle] /\ UNCHANGED <<sid, owned, pc, mishaps>>
    BY <1>5, <2>1 DEF FinaliseReverted, twilioVars
  <2> QED
    BY <2>1, <2>2 DEF RemIdle
<1>6. CASE FinaliseFails(d) \/ CrashRemove(d)
  <2>1. rem' = [rem EXCEPT ![d] = RemIdle] /\ UNCHANGED <<status, sid, owned, pc, mishaps>>
    BY <1>6 DEF FinaliseFails, CrashRemove, dbVars, twilioVars
  <2> QED
    BY <2>1 DEF RemIdle
<1> QED
  BY <1>1, <1>2, <1>3, <1>4, <1>5, <1>6 DEF RemoveStep

\* One step.
LEMMA OwnedStep ==
    ASSUME SlotInv, Closed, Live, Owned, NoRepeat, [Next]_vars
    PROVE  Live' /\ Owned'
<1>1. ASSUME NEW r \in Req, Reserve(r) \/ Refuse(r) \/ ProvisionStep(r) \/ CrashProvision(r)
      PROVE  Live' /\ Owned'
  BY <1>1, OwnedProvision
<1>2. ASSUME NEW d \in Rem,
             (\E r \in Req : MarkReleasing(d, r)) \/ RemoveStep(d) \/ CrashRemove(d)
      PROVE  Live' /\ Owned'
  BY <1>2, OwnedRemove
<1>3. CASE UNCHANGED <<status, sid, owned, pc, rem>>
  <2>1. mishaps \subseteq mishaps'
    BY MishapsStay
  <2> QED
    BY <1>3, <2>1 DEF Live, Owned
<1>4. ASSUME NEW a \in Adm,
             \/ \E b \in Business, v \in Limits : GuardLimit(a, b, v)
             \/ CommitLimit(a) \/ GiveUpLimit(a)
      PROVE  UNCHANGED <<status, sid, owned, pc, rem>>
  BY <1>4 DEF GuardLimit, CommitLimit, GiveUpLimit, dbVars, twilioVars
<1>5. CASE UNCHANGED vars
  BY <1>3, <1>5 DEF vars
<1> QED
  BY <1>1, <1>2, <1>3, <1>4, <1>5 DEF Next

\* As long as no request names a released row, a fault stays one.
LEMMA NoRepeatStays == NoRepeat => []NoRepeat
<1>1. NoRepeat => NoRepeat'
  BY DEF NoRepeat
<1> QED
  BY <1>1, PTL DEF NoRepeat

\* The account owns the number of every Active row, until the answer of a DELETE that worked
\* is lost, provided no request names a released row.
THEOREM ActiveNumberIsOwned == NoRepeat /\ Spec => []ActiveIsOwned
<1>1. Init => Lifecycle /\ Closed /\ Gone /\ Live /\ Owned
  BY DEF Init, Lifecycle, Closed, Gone, Live, Owned, RemIdle
<1>2. TypeOK /\ RemovalExclusive /\ NoRepeat /\ (Lifecycle /\ Closed /\ Gone /\ Live /\ Owned)
      /\ [Next]_vars
      => (Lifecycle /\ Closed /\ Gone /\ Live /\ Owned)'
  BY OwnedStep, GoneStep, ExclusiveStep DEF SlotInv
<1>3. Owned => ActiveIsOwned
  BY DEF Owned, ActiveIsOwned
<1> QED
  BY <1>1, <1>2, <1>3, NoRepeatStays, TypeCorrect, RemovalIsExclusive, PTL DEF Spec

-----------------------------------------------------------------------------
(* The exact count *)

\* Nothing but a crash or a failed rollback lets count and slots part.
LEMMA ExactStep ==
    ASSUME SlotInv, ExactCount, NoRepeat, [Next]_vars
    PROVE  ExactCount'
<1> DEFINE card(b) == Cardinality(Holders(b))
<1> SUFFICES ASSUME ~Excused', NEW b \in Business
             PROVE  Cardinality(Holders(b)') = used'[b]
  BY DEF ExactCount, Excused
<1>0. \A c \in Business : used[c] \in Nat /\ card(c) = used[c]
  BY MishapsStay DEF Excused, ExactCount, SlotInv, TypeOK
<1>1. CASE SameSlots(Req) /\ UNCHANGED used
  BY <1>0, <1>1, HoldersKept
<1>2. ASSUME NEW r \in Req, Takes(r) PROVE Cardinality(Holders(b)') = used'[b]
  <2> DEFINE o == Owner[r]
  <2>1. o \in Business
    BY OwnerAssumption
  <2>2. Holders(o)' = Holders(o) \cup {r} /\ r \notin Holders(o)
    BY <1>2, HoldersMoved DEF Takes, Holders
  <2>3. Cardinality(Holders(o)') = card(o) + 1
    BY <2>1, <2>2, HoldersFinite, FS_AddElement
  <2>4. used'[o] = used[o] + 1 /\ \A c \in Business \ {o} : used'[c] = used[c]
    BY <1>2, <2>1 DEF Takes, SlotInv, TypeOK
  <2>5. \A c \in Business \ {o} : Holders(c)' = Holders(c)
    BY <1>2, HoldersMoved DEF Takes
  <2> QED
    BY <1>0, <2>1, <2>3, <2>4, <2>5
<1>3. ASSUME NEW r \in Req, Frees(r) PROVE Cardinality(Holders(b)') = used'[b]
  <2> DEFINE o == Owner[r]
  <2>1. o \in Business
    BY OwnerAssumption
  <2>2. Holders(o)' = Holders(o) \ {r} /\ r \in Holders(o)
    BY <1>3, HoldersMoved DEF Frees, Holders
  <2>3. Cardinality(Holders(o)') = card(o) - 1 /\ Cardinality(Holders(o)') \in Nat
    BY <2>1, <2>2, HoldersFinite, FS_RemoveElement, FS_Subset, FS_CardinalityType
  <2>4. used' = [used EXCEPT ![o] = IF @ > 0 THEN @ - 1 ELSE @]
    BY <1>3 DEF Frees
  <2>5. used[o] > 0
    BY <1>0, <2>1, <2>3
  <2>6. used'[o] = used[o] - 1 /\ \A c \in Business \ {o} : used'[c] = used[c]
    BY <2>1, <2>4, <2>5 DEF SlotInv, TypeOK
  <2>7. \A c \in Business \ {o} : Holders(c)' = Holders(c)
    BY <1>3, HoldersMoved DEF Frees
  <2> QED
    BY <1>0, <2>1, <2>3, <2>6, <2>7
<1> QED
  BY <1>1, <1>2, <1>3, SlotStep DEF Keeps, Relimits

\* As long as no request names a released row, the used count is exactly the number of slots
\* a business holds, until a provision request dies or fails to roll back.
THEOREM CountIsExact == NoRepeat /\ Spec => []ExactCount
<1>1. Init => ExactCount
  <2> SUFFICES ASSUME Init, NEW b \in Business PROVE Cardinality(Holders(b)) = used[b]
    BY DEF ExactCount
  <2>1. Holders(b) = {} /\ used[b] = 0
    BY DEF Init, Holders, Taken, InFlight
  <2> QED
    BY <2>1, FS_EmptySet
<1>2. SlotInv /\ NoRepeat /\ ExactCount /\ [Next]_vars => ExactCount'
  BY ExactStep
<1> QED
  BY <1>1, <1>2, NoRepeatStays, CountNeverBehind, PTL DEF Spec

=============================================================================
