----------------------------- MODULE MCPayroll -----------------------------
(***************************************************************************)
(* An instance of Payroll: commissions c and d of the mechanic m, of which *)
(* d is older than the period that is selected first, and the cashier k.   *)
(***************************************************************************)
EXTENDS Payroll

CONSTANTS c, d, m, k, sample

Owner == [x \in {c, d} |-> m]
=============================================================================
