--------------------------- MODULE MCSourceNames ---------------------------
(* Two businesses with one source each, three requests, two attempts per update. *)
EXTENDS SourceNames, TLC

CONSTANTS b1, b2, s1, s2, x, y

OneEach == s1 :> b1 @@ s2 :> b2
Names == s1 :> x @@ s2 :> y

Interchangeable == Permutations(Request)
=============================================================================
