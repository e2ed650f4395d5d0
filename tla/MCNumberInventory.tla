------------------------- MODULE MCNumberInventory -------------------------
(* Small instances of NumberInventory for TLC. *)
EXTENDS NumberInventory, TLC

CONSTANTS b1, r1, r2, r3

OneOwner == [r \in Req |-> b1]

\* With one business, requests, handlers and numbers are interchangeable.
Interchangeable ==
    Permutations(Req) \cup Permutations(Rem) \cup Permutations(Number)
        \cup Permutations(Adm)

\* Everything the environment can do, except naming a row that is already released.
AnyFault == FaultKinds \ {"repeat"}
\* What a request survives to its end, a removed number removed again included.
AnsweredFaults == {"buyLost", "persistFails", "releaseFails", "releaseRefused", "repeat"}
=============================================================================
