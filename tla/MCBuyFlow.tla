------------------------------ MODULE MCBuyFlow -----------------------------
(* One purchase with two of every request: two /mpesa requests that overlap, *)
(* two deliveries of one result, two /credit requests.                       *)
EXTENDS BuyFlow, TLC

CONSTANTS p1, u1, u2, d1, d2, r1, r2

\* The requests of one kind are interchangeable.
Interchangeable == Permutations({u1, u2}) \cup Permutations({d1, d2}) \cup Permutations({r1, r2})
=============================================================================
