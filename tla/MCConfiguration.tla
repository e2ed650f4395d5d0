-------------------------- MODULE MCConfiguration --------------------------
(* Small instances of Configuration for TLC. *)
EXTENDS Configuration, TLC

CONSTANTS s1, f1

\* Set both, set one, clear both.
Requests == { [fwd |-> f1, src |-> s1], [fwd |-> f1, src |-> Keep],
              [fwd |-> Keep, src |-> s1], [fwd |-> None, src |-> None] }

Interchangeable == Permutations(Updater)
=============================================================================
