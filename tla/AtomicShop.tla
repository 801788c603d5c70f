------------------------------ MODULE AtomicShop ------------------------------
(***************************************************************************)
(* What the point of sale promises of its committed data: every request    *)
(* that changes stock takes effect in one step, on the data as it is at    *)
(* that step, as if no other request were running. No locks, no drafts and *)
(* no handlers appear here.                                                *)
(***************************************************************************)
EXTENDS ShopData

VARIABLES row, sale, jobs, key, body

vars == <<row, sale, jobs, key, body>>

BodyOf(r) == body[key[r]]

Init ==
    /\ row = [i \in Products |-> NewItem(i)]
    /\ sale = [r \in Requests |-> "none"]
    /\ jobs = [j \in Jobs |-> [paid |-> FALSE, commissions |-> {}]]
    /\ key \in [Requests -> Keys]
    /\ body \in [Keys -> Bodies]

\* No movement of the item was written by r.
Untouched(r, i) == \A m \in 1..Len(row[i].moves) : row[i].moves[m].ref # r

\* Item i gains exactly one movement for each line of r that names it, in line
\* order, each with sign times the line's quantity, and still balances.
Moves(r, i, sign) ==
    LET old == row[i].moves
        new == row'[i].moves
        ls == LinesOf(BodyOf(r), i)
    IN  /\ Len(new) = Len(old) + Cardinality(ls)
        /\ \A m \in 1..Len(old) : new[m] = old[m]
        /\ \A n \in ls :
             LET m == Len(old) + Cardinality({l \in ls : l <= n})
             IN  /\ new[m].ref = r
                 /\ new[m].line = n
                 /\ new[m].change = sign * BodyOf(r).lines[n].qty
        /\ Balanced(i, row[i]) => Balanced(i, row'[i])
        /\ row'[i].active = row[i].active

Checkout(r) ==
    /\ BodyOf(r).op = "checkout"
    /\ sale[r] = "none"
    /\ sale' = [sale EXCEPT ![r] = "COMPLETED"]
    /\ \A i \in Products : Untouched(r, i) /\ Moves(r, i, -1)
    /\ jobs' = [j \in Jobs |->
                  IF j # BodyOf(r).job THEN jobs[j]
                  ELSE [paid |-> TRUE,
                        commissions |-> jobs[j].commissions \cup
                                        (IF j \in Assigned THEN {r} ELSE {})]]
    /\ UNCHANGED <<key, body>>

AdjustStock(r) ==
    /\ BodyOf(r).op = "adjust_stock"
    /\ \A i \in Products : Untouched(r, i) /\ Moves(r, i, 1)
    /\ UNCHANGED <<sale, jobs, key, body>>

DeleteItem(r) ==
    /\ BodyOf(r).op = "delete_item"
    /\ row' = [row EXCEPT ![BodyOf(r).lines[1].id].active = FALSE]
    /\ UNCHANGED <<sale, jobs, key, body>>

VoidTransaction(r) ==
    /\ BodyOf(r).op = "void_transaction"
    /\ \E t \in Requests :
         /\ sale[t] # "none"
         /\ sale' = [sale EXCEPT ![t] = "VOIDED"]
    /\ UNCHANGED <<row, jobs, key, body>>

Next ==
    \E r \in Requests :
        \/ Checkout(r)
        \/ AdjustStock(r)
        \/ DeleteItem(r)
        \/ VoidTransaction(r)

Spec == Init /\ [][Next]_vars
=============================================================================
