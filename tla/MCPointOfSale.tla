---------------------------- MODULE MCPointOfSale ----------------------------
(***************************************************************************)
(* Small instances of PointOfSale for TLC: two products, a service, a       *)
(* free-text line, a job order with a mechanic, requests under two keys.    *)
(***************************************************************************)
EXTENDS PointOfSale, TLC

CONSTANTS
    belt, plug,     \* two products
    labor,          \* a SERVICE item
    custom,         \* a cart line without an items row
    job,            \* a job order
    Menu            \* which bodies a run enumerates

MCOpening == [i \in Products |-> 2]

Cart(lines, j) == [op |-> "checkout", lines |-> lines, job |-> j]
Sell(i, n) == [id |-> i, qty |-> n]
Adjust(i, n) == [op |-> "adjust_stock", lines |-> <<Sell(i, n)>>, job |-> NoJob]
Edit(i) == [op |-> "update_item", lines |-> <<Sell(i, 0)>>, job |-> NoJob]
Delete(i) == [op |-> "delete_item", lines |-> <<Sell(i, 0)>>, job |-> NoJob]
VoidSale == [op |-> "void_transaction", lines |-> <<>>, job |-> NoJob]

\* Opposite cart orders, the same part twice, a part with a service for a job.
BeltThenPlug == Cart(<<Sell(belt, 1), Sell(plug, 1)>>, NoJob)
PlugThenBelt == Cart(<<Sell(plug, 2), Sell(belt, 1)>>, NoJob)
BeltTwice == Cart(<<Sell(belt, 1), Sell(belt, 2)>>, NoJob)
JobCart == Cart(<<Sell(labor, 1), Sell(custom, 1), Sell(belt, 1)>>, job)

MCBodies ==
    CASE Menu = "counter" -> {BeltThenPlug, PlugThenBelt, BeltTwice, JobCart, Adjust(belt, 1)}
      [] Menu = "all" -> {BeltThenPlug, PlugThenBelt, BeltTwice, JobCart, Adjust(belt, 1), Delete(belt), VoidSale}
      [] Menu = "edit" -> {BeltThenPlug, Edit(belt)}
      [] Menu = "forms" -> {BeltThenPlug, PlugThenBelt, JobCart, Edit(belt), Delete(belt), VoidSale}

AnyStep == {"lookup", "lines", "settle", "load", "audit", "commit", "save"}
BeforeSaving == AnyStep \ {"save"}
WhileSaving == {"save"}

Symmetry == Permutations(Requests) \cup Permutations(Keys)
=============================================================================
