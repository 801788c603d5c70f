----------------------------- MODULE MCJobOrders -----------------------------
(***************************************************************************)
(* Small instances of JobOrders for TLC: a job order with a mechanic and   *)
(* one yet to be created, and three requests about them at a time.          *)
(***************************************************************************)
EXTENDS JobOrders

CONSTANTS
    repair, tuneup, \* two job orders
    Menu            \* which bodies a run enumerates

For(handler, j) == [op |-> handler, job |-> j, status |-> Keep, paid |-> Keep, mechanic |-> Keep]
Move(j, status) == [For("update_job_status", j) EXCEPT !.status = status]

Workshop(j) ==
    {For("delete_job_order", j), For("add_cart_item_to_job", j), For("checkout", j)}
        \cup {Move(j, s) : s \in {"ONGOING", "COMPLETED", "RELEASED"}}

\* The board's dialog sends notes and the mechanic's name, the API takes any field.
Notes(j) == For("update_job_details", j)
Create(j) == {[For("create_job", j) EXCEPT !.mechanic = m] : m \in {TRUE, Keep}}

MCBodies ==
    CASE Menu = "floor" ->
           Workshop(repair) \cup Create(tuneup) \cup
           {Notes(repair), For("checkout", tuneup),
            For("add_cart_item_to_job", tuneup), Move(tuneup, "COMPLETED")}
      [] Menu = "counter" ->
           {For("checkout", repair), For("delete_job_order", repair), Move(repair, "COMPLETED")}
=============================================================================
