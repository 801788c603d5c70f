------------------------------ MODULE JobOrders ------------------------------
(***************************************************************************)
(* The repairs router (backend/app/modules/repairs/router.py) and what a    *)
(* checkout does to a job order, over PostgreSQL at READ COMMITTED. Only the*)
(* checkout locks the job order before it reads it; every other handler     *)
(* reads it, decides, and writes the columns it changed when it commits.    *)
(* The till settles the job order with a second request after the checkout, *)
(* whatever the answer to the checkout was.                                 *)
(***************************************************************************)
EXTENDS Integers, FiniteSets

CONSTANTS
    Jobs,       \* ids of repairs.job_orders rows
    Opened,     \* the job orders open at the start
    Assigned,   \* those of them that have a mechanic_id
    Requests,   \* HTTP requests
    Bodies,     \* the requests users make
    Keep,       \* a field the request does not set
    Free,       \* the holder of a row lock nobody holds
    MaxFaults   \* bound: how many handlers the environment may kill

Status == {"PENDING", "ONGOING", "COMPLETED", "RELEASED"}

Ops == {"create_job", "update_job_status", "update_job_details", "delete_job_order",
        "update_job_payment_status", "add_cart_item_to_job", "checkout"}

\* job is the id in the URL; for create_job the id the database will choose.
Body == [op : Ops, job : Jobs, status : Status \cup {Keep},
         paid : BOOLEAN \cup {Keep}, mechanic : BOOLEAN \cup {Keep}]

\* A job order. is_paid and payment_status change together; mechanic says
\* whether mechanic_id is set. An id is not reused after a DELETE.
JobOrder == [life : {"absent", "live", "deleted"}, status : Status,
             paid : BOOLEAN, mechanic : BOOLEAN]

Child == [job : Jobs, by : Requests]

ASSUME JobOrdersAssumption ==
    /\ Assigned \subseteq Opened /\ Opened \subseteq Jobs
    /\ Bodies \subseteq Body
    /\ \A b \in Bodies : /\ b.op = "update_job_status" => b.status # Keep
                         /\ b.op = "update_job_details" => b.mechanic # FALSE
    /\ Free \notin Requests
    /\ Keep \notin Status /\ Keep \notin BOOLEAN
    /\ MaxFaults \in Nat

VARIABLES
    job,            \* committed repairs.job_orders
    commissions,    \* committed repairs.commissions and the request that added each
    cartItems,      \* committed repairs.repair_cart_items, likewise
    sale,           \* requests whose checkout has committed a transaction
    lock,           \* row locks on job orders
    op, pc,         \* the handler a request runs, and where it is
    seen,           \* the job order as the handler read it
    body, faults

vars == <<job, commissions, cartItems, sale, lock, op, pc, seen, body, faults>>
tables == <<job, commissions, cartItems, sale>>

J(r) == body[r].job
Running == {"find", "flush", "check", "insert", "commit"}

TypeOK ==
    /\ job \in [Jobs -> JobOrder]
    /\ commissions \subseteq Child
    /\ cartItems \subseteq Child
    /\ sale \subseteq Requests
    /\ lock \in [Jobs -> Requests \cup {Free}]
    /\ op \in [Requests -> Ops]
    /\ pc \in [Requests -> {"idle", "done", "failed"} \cup Running]
    /\ seen \in [Requests -> JobOrder]
    /\ body \in [Requests -> Bodies]
    /\ faults \in 0..MaxFaults

NewJob(life, mechanic) ==
    [life |-> life, status |-> "PENDING", paid |-> FALSE, mechanic |-> mechanic]

Init ==
    /\ job = [j \in Jobs |-> IF j \in Opened THEN NewJob("live", j \in Assigned)
                                             ELSE NewJob("absent", FALSE)]
    /\ commissions = {}
    /\ cartItems = {}
    /\ sale = {}
    /\ lock = [j \in Jobs |-> Free]
    /\ pc = [r \in Requests |-> "idle"]
    /\ seen = [r \in Requests |-> NewJob("absent", FALSE)]
    /\ body \in [Requests -> Bodies]
    /\ op = [r \in Requests |-> body[r].op]
    /\ faults = 0

Goto(r, step) == pc' = [pc EXCEPT ![r] = step]
Live(r) == job[J(r)].life = "live"
At(r, handler, step) == op[r] = handler /\ pc[r] = step
CommissionsOf(j) == {c \in commissions : c.job = j}
Given(value, old) == IF value = Keep THEN old ELSE value

\* UPDATE and DELETE wait for any lock on the row. An INSERT of a child row
\* takes a key-share lock, which only SELECT ... FOR UPDATE keeps out.
CanWrite(r) == lock[J(r)] \in {Free, r}
CanReference(r) == lock[J(r)] \in {Free, r} \cup {q \in Requests : op[q] # "checkout"}

Unlock(r) == lock' = [j \in Jobs |-> IF lock[j] = r THEN Free ELSE lock[j]]

-----------------------------------------------------------------------------
\* The database gives every created job order an id of its own.
FreshId(r) ==
    /\ job[J(r)].life = "absent"
    /\ \A q \in Requests \ {r} : op[q] = "create_job" /\ J(q) = J(r) => pc[q] = "idle"

Send(r) ==
    /\ pc[r] = "idle"
    /\ op[r] = "create_job" => FreshId(r)
    /\ Goto(r, "find")
    /\ UNCHANGED <<tables, lock, op, seen, body, faults>>

\* Mutant of Created: the request's null status is not replaced by a default.
CreatedAsSent(b) ==
    [life |-> "live", status |-> b.status, paid |-> Given(b.paid, FALSE),
     mechanic |-> Given(b.mechanic, FALSE)]

Created(b) ==
    [life |-> "live", status |-> Given(b.status, "PENDING"), paid |-> Given(b.paid, FALSE),
     mechanic |-> Given(b.mechanic, FALSE)]

CreateJob(r) ==
    /\ At(r, "create_job", "find")
    /\ job[J(r)].life = "absent"
    /\ job' = [job EXCEPT ![J(r)] = Created(body[r])]
    /\ Goto(r, "done")
    /\ UNCHANGED <<commissions, cartItems, sale, lock, op, seen, body, faults>>

\* Mutant of Refused: a job order is released whether or not it is paid.
RefusedIfGone(r) ==
    \/ ~Live(r)
    \/ op[r] = "delete_job_order" /\ job[J(r)].paid

\* The checks of a handler on the row it read: found, paid before release,
\* unpaid before deletion.
Refused(r) ==
    \/ ~Live(r)
    \/ op[r] = "update_job_status" /\ body[r].status = "RELEASED" /\ ~job[J(r)].paid
    \/ op[r] = "delete_job_order" /\ job[J(r)].paid

FindJobOrder(r) ==
    /\ pc[r] = "find"
    /\ op[r] \notin {"create_job", "checkout"}
    /\ seen' = [seen EXCEPT ![r] = job[J(r)]]
    /\ Goto(r, IF Refused(r) THEN "failed"
               ELSE IF op[r] = "update_job_payment_status" THEN "flush" ELSE "commit")
    /\ UNCHANGED <<tables, lock, op, body, faults>>

\* Mutant of Write: the UPDATE names every column, not those that changed.
WriteEveryColumn(r, new, earned) ==
    /\ new # seen[r] => CanWrite(r)
    /\ IF Live(r)
       THEN /\ job' = [job EXCEPT ![J(r)] = new]
            /\ commissions' = commissions \cup earned
            /\ Goto(r, "done")
       ELSE /\ UNCHANGED <<job, commissions>>
            /\ Goto(r, "failed")
    /\ UNCHANGED <<cartItems, sale, op, seen, body, faults>>

\* Commit what handler r wrote: the job order as it is with the columns that
\* differ from what r read, and its new commissions. The UPDATE of a row deleted
\* meanwhile matches nothing, and without an UPDATE the refresh after the commit
\* finds nothing: the handler fails either way.
Write(r, new, earned) ==
    /\ new # seen[r] => CanWrite(r)
    /\ IF Live(r)
       THEN /\ job' = [job EXCEPT ![J(r)] =
                          [f \in DOMAIN new |-> IF new[f] = seen[r][f] THEN @[f] ELSE new[f]]]
            /\ commissions' = commissions \cup earned
            /\ Goto(r, "done")
       ELSE /\ UNCHANGED <<job, commissions>>
            /\ Goto(r, "failed")
    /\ UNCHANGED <<cartItems, sale, op, seen, body, faults>>

\* A move to COMPLETED from any other status earns the mechanic a commission.
CommitStatus(r) ==
    /\ At(r, "update_job_status", "commit")
    /\ LET completes == body[r].status = "COMPLETED" /\ seen[r].status # "COMPLETED" IN
         Write(r, [seen[r] EXCEPT !.status = body[r].status],
               IF completes /\ seen[r].mechanic THEN {[job |-> J(r), by |-> r]} ELSE {})
    /\ UNCHANGED lock

CommitDetails(r) ==
    /\ At(r, "update_job_details", "commit")
    /\ Write(r, [seen[r] EXCEPT !.status = Given(body[r].status, @),
                                !.paid = Given(body[r].paid, @),
                                !.mechanic = Given(body[r].mechanic, @)], {})
    /\ UNCHANGED lock

\* Commissions and cart items go with the job order: those the handler deletes,
\* and by ON DELETE CASCADE those added since.
CommitDelete(r) ==
    /\ At(r, "delete_job_order", "commit")
    /\ CanWrite(r)
    /\ job' = [job EXCEPT ![J(r)].life = "deleted"]
    /\ commissions' = {c \in commissions : c.job # J(r)}
    /\ cartItems' = {c \in cartItems : c.job # J(r)}
    /\ Goto(r, "done")
    /\ UNCHANGED <<sale, lock, op, seen, body, faults>>

\* Mutant of CommitCartItem: no foreign key from the item to its job order.
CommitLooseItem(r) ==
    /\ At(r, "add_cart_item_to_job", "commit")
    /\ cartItems' = cartItems \cup {[job |-> J(r), by |-> r]}
    /\ Goto(r, "done")
    /\ UNCHANGED <<job, commissions, sale, lock, op, seen, body, faults>>

CommitCartItem(r) ==
    /\ At(r, "add_cart_item_to_job", "commit")
    /\ CanReference(r)
    /\ cartItems' = IF Live(r) THEN cartItems \cup {[job |-> J(r), by |-> r]} ELSE cartItems
    /\ Goto(r, IF Live(r) THEN "done" ELSE "failed")
    /\ UNCHANGED <<job, commissions, sale, lock, op, seen, body, faults>>

-----------------------------------------------------------------------------
(* update_job_payment_status                                                *)

Settled(old) == [old EXCEPT !.paid = TRUE, !.status = "COMPLETED"]

\* Mutant of FlushPayment: the session does not flush before it queries.
FlushAtCommit(r) ==
    /\ At(r, "update_job_payment_status", "flush")
    /\ Goto(r, "check")
    /\ UNCHANGED <<tables, lock, op, seen, body, faults>>

\* The query for commissions first flushes the UPDATE of the job order, which
\* locks the row, unless no column changes.
FlushPayment(r) ==
    /\ At(r, "update_job_payment_status", "flush")
    /\ IF Settled(seen[r]) = seen[r]
       THEN Goto(r, "check") /\ UNCHANGED lock
       ELSE /\ CanWrite(r)
            /\ IF Live(r)
               THEN Goto(r, "check") /\ lock' = [lock EXCEPT ![J(r)] = r]
               ELSE Goto(r, "failed") /\ UNCHANGED lock
    /\ UNCHANGED <<tables, op, seen, body, faults>>

\* Mutant of HasCommission: any commission in the table will do.
AnyCommission(r) == commissions # {}

HasCommission(r) == CommissionsOf(J(r)) # {}

CheckCommission(r) ==
    /\ At(r, "update_job_payment_status", "check")
    /\ Goto(r, IF HasCommission(r) THEN "commit" ELSE "insert")
    /\ UNCHANGED <<tables, lock, op, seen, body, faults>>

\* The commission is inserted whether or not a mechanic is assigned.
CommitPayment(r) ==
    /\ op[r] = "update_job_payment_status"
    /\ pc[r] \in {"insert", "commit"}
    /\ pc[r] = "insert" => CanReference(r)
    /\ Write(r, Settled(seen[r]), IF pc[r] = "insert" THEN {[job |-> J(r), by |-> r]} ELSE {})
    /\ Unlock(r)

-----------------------------------------------------------------------------
(* checkout, as far as it concerns the job order                            *)

\* SELECT ... FOR UPDATE. A checkout whose job order is gone sells all the same.
LockJobOrder(r) ==
    /\ At(r, "checkout", "find")
    /\ CanWrite(r)
    /\ seen' = [seen EXCEPT ![r] = job[J(r)]]
    /\ lock' = IF Live(r) THEN [lock EXCEPT ![J(r)] = r] ELSE lock
    /\ Goto(r, "commit")
    /\ UNCHANGED <<tables, op, body, faults>>

CommitCheckout(r) ==
    /\ At(r, "checkout", "commit")
    /\ sale' = sale \cup {r}
    /\ IF lock[J(r)] = r
       THEN /\ job' = [job EXCEPT ![J(r)].paid = TRUE]
            /\ commissions' = commissions \cup
                 (IF seen[r].mechanic THEN {[job |-> J(r), by |-> r]} ELSE {})
       ELSE UNCHANGED <<job, commissions>>
    /\ Unlock(r)
    /\ Goto(r, "done")
    /\ UNCHANGED <<cartItems, op, seen, body, faults>>

\* The till goes on to PATCH payment-status: the checkout hook has turned an
\* error into a made-up COMPLETED transaction.
SettleAtTill(r) ==
    /\ op[r] = "checkout"
    /\ pc[r] \in {"done", "failed"}
    /\ op' = [op EXCEPT ![r] = "update_job_payment_status"]
    /\ Goto(r, "find")
    /\ UNCHANGED <<tables, lock, seen, body, faults>>

\* The process or its connection dies: PostgreSQL rolls back.
Fault(r) ==
    /\ pc[r] \in Running
    /\ faults < MaxFaults
    /\ faults' = faults + 1
    /\ Unlock(r)
    /\ Goto(r, "failed")
    /\ UNCHANGED <<tables, op, seen, body>>

Quiet ==
    /\ \A r \in Requests : pc[r] \notin Running
    /\ UNCHANGED vars

ServerStep(r) ==
    \/ CreateJob(r)
    \/ FindJobOrder(r)
    \/ CommitStatus(r)
    \/ CommitDetails(r)
    \/ CommitDelete(r)
    \/ CommitCartItem(r)
    \/ FlushPayment(r)
    \/ CheckCommission(r)
    \/ CommitPayment(r)
    \/ LockJobOrder(r)
    \/ CommitCheckout(r)

Next ==
    \/ \E r \in Requests : Send(r) \/ ServerStep(r) \/ SettleAtTill(r) \/ Fault(r)
    \/ Quiet

Spec == Init /\ [][Next]_vars

-----------------------------------------------------------------------------
(* Properties. *)

\* Commissions and cart items are those of an existing job order, although items
\* are added and payments settled while another user deletes it.
NoOrphans == \A c \in commissions \cup cartItems : job[c.job].life = "live"

\* A motorcycle is released only after its job order is paid.
ReleasedIsPaid ==
    \A j \in Jobs : job[j].life = "live" /\ job[j].status = "RELEASED" => job[j].paid

\* Whoever settles a job order, checkout or payment-status, and whatever runs
\* beside it, its mechanic has a commission from the moment it is paid.
PaidHasCommission ==
    \A j \in Jobs : job[j].life = "live" /\ job[j].paid /\ job[j].mechanic
                    => CommissionsOf(j) # {}

\* "Check if commission already exists for this job order": if it has a mechanic,
\* payment-status adds only the first one, also when two tills settle it at once.
PaymentAddsOnlyTheFirst ==
    [][\A c \in commissions' \ commissions :
          op[c.by] = "update_job_payment_status" /\ job[c.job].mechanic
          => CommissionsOf(c.job) = {}]_vars

\* "Generate Commission on Completion if not already paid": completing a paid
\* job order whose mechanic has a commission adds no other one.
CompletionPaysOnce ==
    [][\A c \in commissions' \ commissions :
          op[c.by] = "update_job_status" /\ job[c.job].paid => CommissionsOf(c.job) = {}]_vars

\* "Cannot delete paid Job Order": a paid job order stays.
PaidIsKept ==
    [][\A j \in Jobs : job[j].life = "live" /\ job[j].paid => job'[j].life = "live"]_vars

\* "Stock deductions, commission settlements, and invoice records commit
\* atomically": a job order is not paid unless a checkout of it has committed.
PaidHasSale ==
    \A j \in Jobs : job[j].life = "live" /\ job[j].paid => \E r \in sale : J(r) = j

-----------------------------------------------------------------------------
(* The inductive invariants behind NoOrphans, ReleasedIsPaid and            *)
(* PaidHasCommission.                                                       *)

\* A job order is locked by who settles it, and not deleted under the lock.
LockedIsLive ==
    \A j \in Jobs :
        lock[j] # Free => /\ job[j].life = "live"
                          /\ op[lock[j]] \in {"checkout", "update_job_payment_status"}

\* A request is handled by its own handler, then perhaps settled by the till.
OpFixed == \A r \in Requests : op[r] \in {body[r].op, "update_job_payment_status"}

IInv == TypeOK /\ OpFixed /\ NoOrphans /\ LockedIsLive

\* Users release and unpay job orders by the board and the till only, as the
\* pages do, and not by the other fields the API takes.
ByTheBoard ==
    \A b \in Bodies :
        /\ b.op \in {"create_job", "update_job_details"} => b.status # "RELEASED"
        /\ b.op = "update_job_details" => b.paid # FALSE

\* A status handler about to release a job order has read it as paid, and it
\* is not unpaid again.
ReleaseIsCleared ==
    \A r \in Requests :
        /\ seen[r].life = "live" => job[J(r)].life # "absent"
        /\ /\ At(r, "update_job_status", "commit")
           /\ body[r].status = "RELEASED"
           => seen[r].life = "live" /\ seen[r].paid
        /\ seen[r].life = "live" /\ seen[r].paid => job[J(r)].paid

ReleaseInv == IInv /\ ReleasedIsPaid /\ ReleaseIsCleared

\* Users pay job orders by a checkout or by payment-status only, and choose the
\* mechanic when they open them, as the pages do.
PaidAtTheTill ==
    \A b \in Bodies :
        /\ b.op \in {"create_job", "update_job_details"} => b.paid # TRUE
        /\ b.op = "update_job_details" => b.mechanic # TRUE

\* A commission a settlement has found goes with its job order only.
CommissionFound ==
    \A r \in Requests :
        At(r, "update_job_payment_status", "commit") =>
            job[J(r)].life = "deleted" \/ CommissionsOf(J(r)) # {}

\* The mechanic a checkout has read is the mechanic for as long as it has the lock.
MechanicRead ==
    \A r \in Requests :
        op[r] = "checkout" /\ lock[J(r)] = r => seen[r].mechanic = job[J(r)].mechanic

CommissionInv == IInv /\ PaidHasCommission /\ CommissionFound /\ MechanicRead

\* Whoever has read a job order as paid finds its commission.
PaidSeen ==
    \A r \in Requests :
        /\ seen[r].life = "live" => job[J(r)].life # "absent"
        /\ /\ seen[r].life = "live" /\ seen[r].paid
           /\ job[J(r)].life = "live" /\ job[J(r)].mechanic
           => CommissionsOf(J(r)) # {}

\* A settlement has the lock from its flush on, unless it had nothing to write;
\* the one that is about to add a mechanic's commission has it, and adds the first.
SettlesAlone ==
    \A r \in Requests :
        /\ /\ op[r] = "update_job_payment_status" /\ pc[r] \in {"flush", "check", "insert"}
           => seen[r].life = "live"
        /\ At(r, "update_job_payment_status", "check")
           => lock[J(r)] = r \/ Settled(seen[r]) = seen[r]
        /\ /\ At(r, "update_job_payment_status", "insert")
           /\ job[J(r)].life = "live" /\ job[J(r)].mechanic
           => lock[J(r)] = r /\ CommissionsOf(J(r)) = {}

SettleInv == CommissionInv /\ PaidSeen /\ SettlesAlone
=============================================================================
