----------------------------- MODULE MCJobCard -----------------------------
(***************************************************************************)
(* Instances of JobCard: two people sign in, two mechanics can be chosen.  *)
(***************************************************************************)
EXTENDS JobCard

CONSTANTS ana, ben, mike, dave

Symmetry == Permutations({ana, ben}) \cup Permutations({mike, dave})
=============================================================================
