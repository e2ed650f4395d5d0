----------------------------- MODULE MCAccounts -----------------------------
(* One business, two requests on businesses and two on sessions. *)
EXTENDS Accounts, TLC

CONSTANTS a1, x, X, u, b, B

Names == a1 :> x

\* x and X differ in case, like a_c and A_C; as patterns they match u too, like abc.  b and
\* B are a\_c and A\_C, which as patterns match x and X and not themselves.
Likes == x :> {x, X, u} @@ X :> {x, X, u} @@ u :> {u} @@ b :> {x, X} @@ B :> {x, X}

Interchangeable == Permutations(Writer) \cup Permutations(Session)
=============================================================================
