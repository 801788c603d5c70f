------------------------------- MODULE ShopData -------------------------------
(***************************************************************************)
(* The constants and record types the point-of-sale modules share: the     *)
(* rows of inventory.items with their inventory.stock_movements, and the   *)
(* bodies of the HTTP requests that change them.                           *)
(***************************************************************************)
EXTENDS Integers, Sequences, FiniteSets

CONSTANTS
    Products,   \* ids of inventory.items rows whose item_type is PRODUCT
    Services,   \* ids of inventory.items rows of any other item_type
    Extras,     \* cart line ids that are no items row: unknown or non-UUID ids
    Jobs,       \* ids of repairs.job_orders rows
    Assigned,   \* the job orders that have a mechanic_id
    NoJob,      \* job_order_id = None
    Requests,   \* HTTP requests; a request also names the transaction it creates
    Keys,       \* Idempotency-Key values; the requests of one key submit one body
    Bodies,     \* the request bodies users submit
    Opening     \* the current_stock each product was created with

Ops == {"checkout", "adjust_stock", "update_item", "delete_item", "void_transaction"}

\* The rows a handler locks with SELECT ... FOR UPDATE.
Rows == Products \cup Services \cup Jobs

Line == [id : Products \cup Services \cup Extras, qty : Int]

\* lines: the cart of a checkout; the one item (and, for adjust_stock, its
\* quantity_changed) of an inventory request; empty for void_transaction.
Body == [op : Ops, lines : Seq(Line), job : Jobs \cup {NoJob}]

\* A stock_movements row. ref is the request that wrote it and line the line of
\* its body it was written for; change and new are quantity_changed and
\* new_quantity.
Move == [ref : Requests, line : Nat \ {0}, change : Int, new : Int]

\* An items row with its movements in the order they were committed.
Item == [stock : Int, active : BOOLEAN, moves : Seq(Move)]

Job == [paid : BOOLEAN, commissions : SUBSET Requests]

ASSUME DataAssumption ==
    /\ Assigned \subseteq Jobs
    /\ NoJob \notin Rows
    /\ Products \cap (Services \cup Jobs) = {}
    /\ Extras \cap Rows = {}
    /\ Opening \in [Products -> Int]
    /\ Bodies \subseteq Body
    /\ \A b \in Bodies :
         b.op \in {"adjust_stock", "update_item", "delete_item"} =>
             Len(b.lines) = 1 /\ b.lines[1].id \in Products

NewItem(i) == [stock |-> Opening[i], active |-> TRUE, moves |-> <<>>]

\* The stock after the first n movements of an item, read off the movements.
StockAfter(i, moves, n) == IF n = 0 THEN Opening[i] ELSE moves[n].new

\* Every movement starts from the quantity the one before it left, and the
\* item's stock is the quantity the last one left.
Balanced(i, item) ==
    /\ \A n \in 1..Len(item.moves) :
         item.moves[n].new = StockAfter(i, item.moves, n - 1) + item.moves[n].change
    /\ item.stock = StockAfter(i, item.moves, Len(item.moves))

\* The lines of body b that move stock of product i.
LinesOf(b, i) == {n \in 1..Len(b.lines) : b.lines[n].id = i}
=============================================================================
