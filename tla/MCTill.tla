------------------------------- MODULE MCTill -------------------------------
(***************************************************************************)
(* Instances of Till: two customers, one part of the catalog.             *)
(***************************************************************************)
EXTENDS Till, TLC

CONSTANTS a, b, oil

Customers == Permutations({a, b})
=============================================================================
