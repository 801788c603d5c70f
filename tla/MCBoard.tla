------------------------------ MODULE MCBoard ------------------------------
(***************************************************************************)
(* Instances of Board: orders a and b on the server, o made up offline.    *)
(***************************************************************************)
EXTENDS Board

CONSTANTS a, b, o
=============================================================================
