------------------------------ MODULE MCStaff ------------------------------
(***************************************************************************)
(* A small instance of Staff: two people, a cashier's switches.            *)
(***************************************************************************)
EXTENDS Staff

CONSTANTS ann, bob

MCToggled == {<<"pos", "cashier">>, <<"sales", "cashier">>, <<"audit", "cashier">>}
============================================================================
