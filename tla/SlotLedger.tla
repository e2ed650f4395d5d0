----------------------------- MODULE SlotLedger -----------------------------
(***************************************************************************)
(* What the tracking-number quota promises, with no counter in it: a       *)
(* business holds a set of slots (numbers it owns or is buying), takes a   *)
(* free slot only while it holds fewer than its limit, and may give any    *)
(* slot back.  An administrator changes the limit at will; lowering it     *)
(* takes no slot away.  NumberInventory implements this with the two       *)
(* columns max_tracking_numbers and tracking_numbers_used_count.           *)
(***************************************************************************)
EXTENDS Naturals, FiniteSets

CONSTANTS Business, Slot

VARIABLES held, limit

ledgerVars == <<held, limit>>

Init ==
    /\ held = [b \in Business |-> {}]
    /\ limit \in [Business -> Nat]

\* b takes slot s, which nobody holds.
Acquire(b, s) ==
    /\ \A c \in Business : s \notin held[c]
    /\ Cardinality(held[b]) < limit[b]
    /\ held' = [held EXCEPT ![b] = @ \cup {s}]
    /\ UNCHANGED limit

GiveBack(b, s) ==
    /\ s \in held[b]
    /\ held' = [held EXCEPT ![b] = @ \ {s}]
    /\ UNCHANGED limit

SetLimit(b) ==
    /\ limit'[b] \in Nat
    /\ limit' = [limit EXCEPT ![b] = limit'[b]]
    /\ UNCHANGED held

Next ==
    \/ \E b \in Business, s \in Slot : Acquire(b, s) \/ GiveBack(b, s)
    \/ \E b \in Business : SetLimit(b)

Spec == Init /\ [][Next]_ledgerVars

=============================================================================
