----------------------------- MODULE PointOfSale -----------------------------
(***************************************************************************)
(* The sales and inventory routers of the modular monolith                 *)
(* (backend/app/modules/{sales,inventory}/router.py) behind the idempotency*)
(* decorator (backend/app/core/idempotency.py), over PostgreSQL at READ    *)
(* COMMITTED. Requests are handled concurrently. A handler's database      *)
(* session is one transaction: SELECT ... FOR UPDATE locks a row until the *)
(* transaction ends, what it writes is visible to others only once it      *)
(* commits, and the deadlock detector aborts one waiter of a cycle. The    *)
(* audit row and the idempotency row are written by sessions of their own. *)
(***************************************************************************)
EXTENDS ShopData

CONSTANTS
    Free,       \* the holder of a row lock nobody holds
    NoReply,    \* no idempotency_keys row
    Keep,       \* update_item writes no current_stock
    Recounts,   \* stock values a user may type into the edit form
    Patient,    \* TRUE: a client resends a key only once it has an answer
    MaxFaults,  \* bound: how many handlers the environment may kill
    FaultSteps  \* the steps at which it may kill one

ASSUME PointOfSaleAssumption ==
    /\ Free \notin Requests
    /\ NoReply \notin Requests
    /\ Keep \notin Int
    /\ Recounts \subseteq Int
    /\ Patient \in BOOLEAN
    /\ MaxFaults \in Nat
    /\ FaultSteps \subseteq {"lookup", "lines", "settle", "load", "audit", "commit", "save"}

VARIABLES
    row,        \* committed inventory.items with their stock_movements
    sale,       \* committed sales.transactions: the status of the one r created
    jobs,       \* committed is_paid and commissions of repairs.job_orders
    audit,      \* requests with a row in audit.logs
    reply,      \* auth.idempotency_keys: the request whose response is cached
    lock,       \* row locks on items and job orders
    draft,      \* the version of an item its lock holder will commit
    aborted,    \* requests whose transaction PostgreSQL has aborted
    pc, next,   \* where a handler is, and its next cart line
    form,       \* the current_stock an edit form submits
    key, body,  \* the key a request carries and the body submitted under a key
    faults

vars == <<row, sale, jobs, audit, reply, lock, draft, aborted, pc, next, form,
          key, body, faults>>

dbVars == <<row, sale, jobs>>
input == <<key, body>>

Op(r) == body[key[r]].op
Lines(r) == body[key[r]].lines
JobOf(r) == body[key[r]].job
Target(r) == Lines(r)[1].id

\* The decorator is on every handler, but the client attaches no key to DELETE.
Keyed(r) == Op(r) # "delete_item"

InHandler == {"lines", "settle", "load", "audit", "commit"}
InFlight == InHandler \cup {"lookup", "save"}
Answered == {"replayed", "done", "failed"}

TypeOK ==
    /\ row \in [Products -> Item]
    /\ sale \in [Requests -> {"none", "COMPLETED", "VOIDED"}]
    /\ jobs \in [Jobs -> Job]
    /\ audit \subseteq Requests
    /\ reply \in [Keys -> Requests \cup {NoReply}]
    /\ lock \in [Rows -> Requests \cup {Free}]
    /\ draft \in [Products -> Item]
    /\ aborted \subseteq Requests
    /\ pc \in [Requests -> {"idle"} \cup InFlight \cup Answered]
    /\ next \in [Requests -> Nat \ {0}]
    /\ form \in [Requests -> Int \cup {Keep}]
    /\ key \in [Requests -> Keys]
    /\ body \in [Keys -> Bodies]
    /\ faults \in 0..MaxFaults

Init ==
    /\ row = [i \in Products |-> NewItem(i)]
    /\ sale = [r \in Requests |-> "none"]
    /\ jobs = [j \in Jobs |-> [paid |-> FALSE, commissions |-> {}]]
    /\ audit = {}
    /\ reply = [k \in Keys |-> NoReply]
    /\ lock = [x \in Rows |-> Free]
    /\ draft = [i \in Products |-> NewItem(i)]
    /\ aborted = {}
    /\ pc = [r \in Requests |-> "idle"]
    /\ next = [r \in Requests |-> 1]
    /\ form = [r \in Requests |-> Keep]
    /\ key \in [Requests -> Keys]
    /\ body \in [Keys -> Bodies]
    /\ faults = 0

Goto(r, step) == pc' = [pc EXCEPT ![r] = step]

-----------------------------------------------------------------------------
(* Row locks. *)

\* Mutant of CanLock: a plain SELECT, without FOR UPDATE.
SelectWithoutLock(r, x) == TRUE

CanLock(r, x) == lock[x] \in {Free, r}

\* The row the next statement of r's transaction locks.
Wanted(r) ==
    CASE pc[r] = "lines" /\ next[r] <= Len(Lines(r)) -> Lines(r)[next[r]].id
      [] pc[r] = "settle" -> JobOf(r)
      [] pc[r] = "load" /\ Op(r) = "adjust_stock" -> Target(r)
      [] OTHER -> NoJob

Waiting(r) == Wanted(r) \in Rows /\ ~CanLock(r, Wanted(r))

\* Each of S waits for a lock another of S holds, and each of S is waited for.
WaitCycle(S) ==
    /\ \A r \in S : Waiting(r)
    /\ S = {lock[Wanted(r)] : r \in S}

Release(r) == lock' = [x \in DOMAIN lock |-> IF lock[x] = r THEN Free ELSE lock[x]]

\* COMMIT and ROLLBACK of the item rows r has locked.
Publish(r) ==
    /\ row' = [i \in Products |-> IF lock[i] = r THEN draft[i] ELSE row[i]]
    /\ Release(r)
    /\ UNCHANGED draft

\* Mutant of Rollback: the dead handler's connection stays idle in transaction.
RollbackKeepingLocks(r) ==
    /\ draft' = [i \in Products |-> IF lock[i] = r THEN row[i] ELSE draft[i]]
    /\ UNCHANGED <<row, lock>>

Rollback(r) ==
    /\ draft' = [i \in Products |-> IF lock[i] = r THEN row[i] ELSE draft[i]]
    /\ Release(r)
    /\ UNCHANGED row

\* Mutant of Moved: the stock is computed from the row as last committed.
MovedFromCommitted(i, r, k, n) ==
    [stock |-> row[i].stock + n,
     active |-> draft[i].active,
     moves |-> Append(draft[i].moves, [ref |-> r, line |-> k, change |-> n,
                                       new |-> row[i].stock + n])]

\* Change the stock of item i by n and record the movement, for line k of r.
Moved(i, r, k, n) ==
    [stock |-> draft[i].stock + n,
     active |-> draft[i].active,
     moves |-> Append(draft[i].moves, [ref |-> r, line |-> k, change |-> n,
                                       new |-> draft[i].stock + n])]

-----------------------------------------------------------------------------
(* The client and the idempotency decorator. *)

\* A patient client waits for the answer to one attempt before it makes another.
MaySend(r) ==
    Patient => \A q \in Requests : key[q] = key[r] => pc[q] \notin InFlight

\* The edit form submits current_stock whether or not the user touched it: the
\* value the page showed, or a count typed over it.
Send(r) ==
    /\ pc[r] = "idle"
    /\ MaySend(r)
    /\ IF Op(r) = "update_item"
       THEN \E n \in Recounts \cup {row[Target(r)].stock} :
               form' = [form EXCEPT ![r] = n]
       ELSE UNCHANGED form
    /\ Goto(r, "lookup")
    /\ UNCHANGED <<dbVars, audit, reply, lock, draft, aborted, next, input, faults>>

\* A saved response answers the request; the handler does not run.
Replay(r) ==
    /\ pc[r] = "lookup"
    /\ Keyed(r)
    /\ reply[key[r]] # NoReply
    /\ Goto(r, "replayed")
    /\ UNCHANGED <<dbVars, audit, reply, lock, draft, aborted, next, form, input, faults>>

\* No saved response: the handler runs. A checkout inserts its transaction.
StartHandler(r) ==
    /\ pc[r] = "lookup"
    /\ Keyed(r) => reply[key[r]] = NoReply
    /\ Goto(r, IF Op(r) = "checkout" THEN "lines" ELSE "load")
    /\ UNCHANGED <<dbVars, audit, reply, lock, draft, aborted, next, form, input, faults>>

\* Mutant of SaveReply: the response is serialized to None and never saved.
SaveNothing(r) ==
    /\ pc[r] = "save"
    /\ Goto(r, "done")
    /\ UNCHANGED <<dbVars, audit, reply, lock, draft, aborted, next, form, input, faults>>

\* After the handler returned a 2xx response: INSERT ... ON CONFLICT DO UPDATE.
SaveReply(r) ==
    /\ pc[r] = "save"
    /\ reply' = [reply EXCEPT ![key[r]] = r]
    /\ Goto(r, "done")
    /\ UNCHANGED <<dbVars, audit, lock, draft, aborted, next, form, input, faults>>

-----------------------------------------------------------------------------
(* checkout *)

\* A PRODUCT line: lock the item, deduct the quantity, record a SALE movement.
\* The stock is not compared with the quantity.
DeductLine(r) ==
    /\ pc[r] = "lines"
    /\ next[r] <= Len(Lines(r))
    /\ LET line == Lines(r)[next[r]] IN
         /\ line.id \in Products
         /\ CanLock(r, line.id)
         /\ lock' = [lock EXCEPT ![line.id] = r]
         /\ draft' = [draft EXCEPT ![line.id] = Moved(line.id, r, next[r], -line.qty)]
    /\ next' = [next EXCEPT ![r] = @ + 1]
    /\ UNCHANGED <<dbVars, audit, reply, aborted, pc, form, input, faults>>

\* The row of a line that is no PRODUCT is locked all the same.
LockService(r) ==
    /\ pc[r] = "lines"
    /\ next[r] <= Len(Lines(r))
    /\ LET id == Lines(r)[next[r]].id IN
         /\ id \in Services
         /\ CanLock(r, id)
         /\ lock' = [lock EXCEPT ![id] = r]
    /\ next' = [next EXCEPT ![r] = @ + 1]
    /\ UNCHANGED <<dbVars, audit, reply, draft, aborted, pc, form, input, faults>>

\* A line without an items row only becomes a transaction_items row.
SkipLine(r) ==
    /\ pc[r] = "lines"
    /\ next[r] <= Len(Lines(r))
    /\ Lines(r)[next[r]].id \in Extras
    /\ next' = [next EXCEPT ![r] = @ + 1]
    /\ UNCHANGED <<dbVars, audit, reply, lock, draft, aborted, pc, form, input, faults>>

\* The payment is added; a checkout with a job order goes on to lock it.
AddPayment(r) ==
    /\ pc[r] = "lines"
    /\ next[r] > Len(Lines(r))
    /\ Goto(r, IF JobOf(r) = NoJob THEN "audit" ELSE "settle")
    /\ UNCHANGED <<dbVars, audit, reply, lock, draft, aborted, next, form, input, faults>>

\* Lock the job order; its new values are written when the transaction commits.
SettleJob(r) ==
    /\ pc[r] = "settle"
    /\ CanLock(r, JobOf(r))
    /\ lock' = [lock EXCEPT ![JobOf(r)] = r]
    /\ Goto(r, "audit")
    /\ UNCHANGED <<dbVars, audit, reply, draft, aborted, next, form, input, faults>>

Settled(job, j, r) ==
    [paid |-> TRUE,
     commissions |-> job.commissions \cup (IF j \in Assigned THEN {r} ELSE {})]

CommitCheckout(r) ==
    /\ pc[r] = "commit"
    /\ Op(r) = "checkout"
    /\ r \notin aborted
    /\ Publish(r)
    /\ sale' = [sale EXCEPT ![r] = "COMPLETED"]
    /\ jobs' = [j \in Jobs |-> IF j = JobOf(r) THEN Settled(jobs[j], j, r) ELSE jobs[j]]
    /\ Goto(r, "save")
    /\ UNCHANGED <<audit, reply, aborted, next, form, input, faults>>

-----------------------------------------------------------------------------
(* The inventory router. *)

AdjustStock(r) ==
    /\ pc[r] = "load"
    /\ Op(r) = "adjust_stock"
    /\ CanLock(r, Target(r))
    /\ lock' = [lock EXCEPT ![Target(r)] = r]
    /\ draft' = [draft EXCEPT ![Target(r)] = Moved(Target(r), r, 1, Lines(r)[1].qty)]
    /\ Goto(r, "audit")
    /\ UNCHANGED <<dbVars, audit, reply, aborted, next, form, input, faults>>

CommitAdjustment(r) ==
    /\ pc[r] = "commit"
    /\ Op(r) = "adjust_stock"
    /\ Publish(r)
    /\ Goto(r, "save")
    /\ UNCHANGED <<sale, jobs, audit, reply, aborted, next, form, input, faults>>

\* update_item and delete_item read the row without a lock. The mapper later
\* writes only the columns whose new value differs from the one read here.
LoadItem(r) ==
    /\ pc[r] = "load"
    /\ Op(r) \in {"update_item", "delete_item"}
    /\ form' = [form EXCEPT ![r] = IF @ = row[Target(r)].stock THEN Keep ELSE @]
    /\ Goto(r, "audit")
    /\ UNCHANGED <<dbVars, audit, reply, lock, draft, aborted, next, input, faults>>

\* An UPDATE outside a locked section waits for the row's lock.
WriteItem(r, item) ==
    /\ lock[Target(r)] = Free
    /\ row' = [row EXCEPT ![Target(r)] = item]
    /\ draft' = [draft EXCEPT ![Target(r)] = item]

\* Mutant of CommitItemUpdate: an untouched column is written as None.
UpdateEveryColumn(r) ==
    /\ pc[r] = "commit"
    /\ Op(r) = "update_item"
    /\ WriteItem(r, [row[Target(r)] EXCEPT !.stock = form[r]])
    /\ Goto(r, "save")
    /\ UNCHANGED <<sale, jobs, audit, reply, lock, aborted, next, form, input, faults>>

CommitItemUpdate(r) ==
    /\ pc[r] = "commit"
    /\ Op(r) = "update_item"
    /\ WriteItem(r, [row[Target(r)] EXCEPT !.stock = IF form[r] = Keep THEN @ ELSE form[r]])
    /\ Goto(r, "save")
    /\ UNCHANGED <<sale, jobs, audit, reply, lock, aborted, next, form, input, faults>>

\* Mutant of CommitItemDelete: a hard delete whose cascade takes the movements.
DeleteWithMovements(r) ==
    /\ pc[r] = "commit"
    /\ Op(r) = "delete_item"
    /\ WriteItem(r, [row[Target(r)] EXCEPT !.active = FALSE, !.moves = <<>>])
    /\ Goto(r, "done")
    /\ UNCHANGED <<sale, jobs, audit, reply, lock, aborted, next, form, input, faults>>

CommitItemDelete(r) ==
    /\ pc[r] = "commit"
    /\ Op(r) = "delete_item"
    /\ WriteItem(r, [row[Target(r)] EXCEPT !.active = FALSE])
    /\ Goto(r, "done")
    /\ UNCHANGED <<sale, jobs, audit, reply, lock, aborted, next, form, input, faults>>

-----------------------------------------------------------------------------
(* void_transaction *)

Transactions == {t \in Requests : sale[t] # "none"}

FindTransaction(r) ==
    /\ pc[r] = "load"
    /\ Op(r) = "void_transaction"
    /\ Goto(r, IF Transactions = {} THEN "failed" ELSE "audit")
    /\ UNCHANGED <<dbVars, audit, reply, lock, draft, aborted, next, form, input, faults>>

\* Only the status changes: no stock returns and no job order is reopened.
CommitVoid(r) ==
    /\ pc[r] = "commit"
    /\ Op(r) = "void_transaction"
    /\ \E t \in Transactions : sale' = [sale EXCEPT ![t] = "VOIDED"]
    /\ Goto(r, "save")
    /\ UNCHANGED <<row, jobs, audit, reply, lock, draft, aborted, next, form, input, faults>>

-----------------------------------------------------------------------------
(* Auditing, and the failures of a handler. *)

\* log_audit_event commits in its own session, before the handler commits, and
\* swallows every exception.
LogAudit(r) ==
    /\ pc[r] = "audit"
    /\ \/ audit' = audit \cup {r}
       \/ UNCHANGED audit
    /\ Goto(r, "commit")
    /\ UNCHANGED <<dbVars, reply, lock, draft, aborted, next, form, input, faults>>

\* Mutant of DeadlockVictim: each line has a savepoint, so only the line is lost.
SkipDeadlockedLine(r) ==
    /\ \E S \in SUBSET Requests : r \in S /\ WaitCycle(S)
    /\ next' = [next EXCEPT ![r] = @ + 1]
    /\ UNCHANGED <<dbVars, audit, reply, lock, draft, aborted, pc, form, input, faults>>

\* The detector aborts a transaction waiting in a cycle and its locks are
\* released. The checkout swallows the error, and the error of every statement
\* after it, and runs on to its audit call.
DeadlockVictim(r) ==
    /\ \E S \in SUBSET Requests : r \in S /\ WaitCycle(S)
    /\ Rollback(r)
    /\ aborted' = aborted \cup {r}
    /\ Goto(r, "audit")
    /\ UNCHANGED <<sale, jobs, audit, reply, next, form, input, faults>>

\* Mutant of CommitRefused: the failure of the commit is swallowed as well.
SwallowCommitError(r) ==
    /\ pc[r] = "commit"
    /\ r \in aborted
    /\ Goto(r, "save")
    /\ UNCHANGED <<dbVars, audit, reply, lock, draft, aborted, next, form, input, faults>>

\* An aborted transaction cannot commit: the checkout answers 500.
CommitRefused(r) ==
    /\ pc[r] = "commit"
    /\ r \in aborted
    /\ Goto(r, "failed")
    /\ UNCHANGED <<dbVars, audit, reply, lock, draft, aborted, next, form, input, faults>>

\* The process or its database connection dies: PostgreSQL rolls back what is
\* not committed and the client gets an error.
Fault(r) ==
    /\ pc[r] \in FaultSteps
    /\ faults < MaxFaults
    /\ Rollback(r)
    /\ Goto(r, "failed")
    /\ faults' = faults + 1
    /\ UNCHANGED <<sale, jobs, audit, reply, aborted, next, form, input>>

\* Nothing is in flight: the bounded clients need send no more.
Quiet ==
    /\ \A r \in Requests : pc[r] \notin InFlight
    /\ UNCHANGED vars

-----------------------------------------------------------------------------
CheckoutStep(r) ==
    \/ DeductLine(r)
    \/ LockService(r)
    \/ SkipLine(r)
    \/ AddPayment(r)
    \/ SettleJob(r)
    \/ CommitCheckout(r)
    \/ DeadlockVictim(r)
    \/ CommitRefused(r)

InventoryStep(r) ==
    \/ AdjustStock(r)
    \/ CommitAdjustment(r)
    \/ LoadItem(r)
    \/ CommitItemUpdate(r)
    \/ CommitItemDelete(r)

VoidStep(r) == FindTransaction(r) \/ CommitVoid(r)

ServerStep(r) ==
    \/ Replay(r)
    \/ StartHandler(r)
    \/ CheckoutStep(r)
    \/ InventoryStep(r)
    \/ VoidStep(r)
    \/ LogAudit(r)
    \/ SaveReply(r)

Next == (\E r \in Requests : Send(r) \/ ServerStep(r) \/ Fault(r)) \/ Quiet

Spec == Init /\ [][Next]_vars

\* The event loop runs a handler that can go on and PostgreSQL grants a free
\* lock and runs its deadlock detector. Users and faults are not fair.
Fairness == \A r \in Requests : WF_vars(ServerStep(r))

FairSpec == Spec /\ Fairness

-----------------------------------------------------------------------------
(* Properties. *)

\* Stock movements balance to the unit: each committed movement starts from the
\* quantity its predecessor left and the item's stock is what the last one left,
\* although concurrent checkouts and adjustments compute it in the handler.
LedgerBalances == \A i \in Products : Balanced(i, row[i])

\* The movement of r for line n is among moves, once.
Recorded(r, n, moves) ==
    \E m \in 1..Len(moves) :
        /\ moves[m].ref = r
        /\ moves[m].line = n
        /\ moves[m].change = -Lines(r)[n].qty
        /\ \A o \in 1..Len(moves) : moves[o].ref = r /\ moves[o].line = n => o = m

\* A sale exists exactly when all of its stock deductions do, and then its job
\* order is paid and the mechanic has a commission: no swallowed exception,
\* deadlock or crash inside checkout leaves an invoice without its deductions or
\* deductions without an invoice.
SaleIsAtomic ==
    \A r \in Requests :
        IF sale[r] # "none"
        THEN /\ \A i \in Products : \A n \in LinesOf(body[key[r]], i) :
                  Recorded(r, n, row[i].moves)
             /\ JobOf(r) # NoJob => jobs[JobOf(r)].paid
             /\ JobOf(r) \in Assigned => jobs[JobOf(r)].commissions # {}
        ELSE /\ \A j \in Jobs : r \notin jobs[j].commissions
             /\ Op(r) = "checkout" =>
                  \A i \in Products : \A m \in 1..Len(row[i].moves) :
                      row[i].moves[m].ref # r

\* Two requests with the same Idempotency-Key never create two transactions.
OneSalePerKey ==
    \A q, r \in Requests :
        key[q] = key[r] /\ sale[q] # "none" /\ sale[r] # "none" => q = r

\* A cached receipt is that of a committed transaction submitted under its key.
CachedReceiptIsCommitted ==
    \A k \in Keys :
        reply[k] # NoReply /\ body[k].op = "checkout" =>
            key[reply[k]] = k /\ sale[reply[k]] # "none"

\* Every request the server accepts is answered: no lock is leaked and no set of
\* checkouts with the same parts in different cart order waits forever.
EventuallyAnswered ==
    \A r \in Requests : pc[r] = "lookup" ~> pc[r] \in Answered

\* The stock movement trail is immutable: a commit only appends to it.
LedgerOnlyGrows ==
    [][\A i \in Products :
         /\ Len(row[i].moves) <= Len(row'[i].moves)
         /\ \A m \in 1..Len(row[i].moves) : row'[i].moves[m] = row[i].moves[m]]_vars

\* The detailed point of sale implements the atomic shop: each commit is one
\* request taking effect alone, and every other step leaves committed data alone.
Shop == INSTANCE AtomicShop
ImplementsAtomicShop == Shop!Spec

-----------------------------------------------------------------------------
(* The inductive invariant behind LedgerBalances, LedgerOnlyGrows and       *)
(* SaleIsAtomic.                                                            *)

Holding == {"lines", "settle", "audit", "commit"}

\* Only a checkout or an adjustment between its first lock and its COMMIT holds
\* row locks.
LocksHeldByHandlers ==
    \A x \in Rows :
        lock[x] # Free => /\ pc[lock[x]] \in Holding
                          /\ lock[x] \notin aborted
                          /\ Op(lock[x]) \in {"checkout", "adjust_stock"}

\* An uncommitted version appends to the committed one and needs the row lock.
DraftExtendsRow ==
    \A i \in Products :
        /\ lock[i] = Free => draft[i] = row[i]
        /\ Len(row[i].moves) <= Len(draft[i].moves)
        /\ \A m \in 1..Len(row[i].moves) : draft[i].moves[m] = row[i].moves[m]

HandlerProgress ==
    \A r \in Requests :
        /\ pc[r] \in {"idle", "lookup"} => next[r] = 1
        /\ pc[r] \in {"lines", "settle"} => Op(r) = "checkout"
        /\ pc[r] = "settle" => JobOf(r) # NoJob
        /\ pc[r] = "load" => Op(r) # "checkout"
        /\ r \in aborted => Op(r) = "checkout" /\ pc[r] \in {"audit", "commit", "failed"}
        /\ sale[r] # "none" => Op(r) = "checkout" /\ pc[r] \in {"save", "done", "failed"}
        /\ /\ Op(r) = "checkout" /\ r \notin aborted
           /\ pc[r] \in {"settle", "audit", "commit"}
           => next[r] > Len(Lines(r))

\* A running checkout holds the lock of every product it has deducted so far
\* and the deduction is in that product's draft, once.
DeductionsSoFar ==
    \A r \in Requests :
        Op(r) = "checkout" /\ pc[r] \in Holding /\ r \notin aborted =>
            \A i \in Products : \A n \in LinesOf(body[key[r]], i) :
                n < next[r] => lock[i] = r /\ Recorded(r, n, draft[i].moves)

\* Every deduction in sight belongs to a line already handled, and one whose
\* sale has not committed is an uncommitted movement of the lock holder.
MovesAccountedFor ==
    \A i \in Products : \A m \in 1..Len(draft[i].moves) :
        LET move == draft[i].moves[m] IN
        Op(move.ref) = "checkout" =>
            /\ move.line < next[move.ref]
            /\ sale[move.ref] = "none" => lock[i] = move.ref /\ m > Len(row[i].moves)

\* The deductions of a committed sale are in the committed and the draft rows.
SalesRecorded ==
    \A r \in Requests : sale[r] # "none" =>
        \A i \in Products : \A n \in LinesOf(body[key[r]], i) :
            Recorded(r, n, row[i].moves) /\ Recorded(r, n, draft[i].moves)

\* The job order of a committed sale is paid and has a commission, and every
\* commission is that of a committed sale.
JobsSettled ==
    \A r \in Requests :
        IF sale[r] # "none"
        THEN /\ JobOf(r) # NoJob => jobs[JobOf(r)].paid
             /\ JobOf(r) \in Assigned => jobs[JobOf(r)].commissions # {}
        ELSE \A j \in Jobs : r \notin jobs[j].commissions

IInv ==
    /\ TypeOK
    /\ LocksHeldByHandlers
    /\ DraftExtendsRow
    /\ HandlerProgress
    /\ DeductionsSoFar
    /\ MovesAccountedFor
    /\ SalesRecorded
    /\ JobsSettled

\* No user submits the edit form: stock changes by movements only.
NoItemEdits == \A b \in Bodies : b.op # "update_item"

\* A balanced draft commits as a balanced row.
BalanceInv == \A i \in Products : Balanced(i, row[i]) /\ Balanced(i, draft[i])

-----------------------------------------------------------------------------
(* The inductive invariant behind ImplementsAtomicShop.                     *)

\* What line n of r does to the stock of its product.
Change(r, n) == IF Op(r) = "checkout" THEN -Lines(r)[n].qty ELSE Lines(r)[n].qty

\* new is old with one movement of r for each line in S, in line order.
Appends(r, S, old, new) ==
    /\ Len(new) = Len(old) + Cardinality(S)
    /\ \A n \in S :
         LET move == new[Len(old) + Cardinality({l \in S : l <= n})]
         IN  move.ref = r /\ move.line = n /\ move.change = Change(r, n)

\* The lines of r whose movements are in its draft of item i.
Handled(r, i) == {n \in LinesOf(body[key[r]], i) : Op(r) = "checkout" => n < next[r]}

\* A draft adds to the committed row the lines handled so far and nothing else.
DraftsAddLines ==
    \A r \in Requests, i \in Products :
        lock[i] = r => Appends(r, Handled(r, i), row[i].moves, draft[i].moves)

AdjustmentsHoldLocks ==
    \A r \in Requests :
        Op(r) = "adjust_stock" /\ pc[r] \in {"audit", "commit"} => lock[Target(r)] = r

\* The movement of an adjustment that is not over is uncommitted.
AdjustmentsAccountedFor ==
    \A i \in Products : \A m \in 1..Len(draft[i].moves) :
        LET r == draft[i].moves[m].ref IN
        Op(r) = "adjust_stock" =>
            \/ pc[r] \in {"save", "done", "failed"}
            \/ lock[i] = r /\ m > Len(row[i].moves)

DraftsKeepActive == \A i \in Products : draft[i].active = row[i].active

ShopInv ==
    /\ IInv
    /\ BalanceInv
    /\ DraftsAddLines
    /\ AdjustmentsHoldLocks
    /\ AdjustmentsAccountedFor
    /\ DraftsKeepActive

-----------------------------------------------------------------------------
(* The inductive invariants behind CachedReceiptIsCommitted and             *)
(* OneSalePerKey.                                                           *)

\* A handler saves the response of a transaction that has committed.
SavesAfterCommit ==
    \A r \in Requests : pc[r] = "save" /\ Op(r) = "checkout" => sale[r] # "none"

ReceiptInv == TypeOK /\ SavesAfterCommit /\ CachedReceiptIsCommitted

\* Clients wait for answers and no fault hits the saving of a response.
RetriesAfterAnswer == Patient /\ "save" \notin FaultSteps

\* One attempt under a key at a time; a sale is known by its response once its
\* request is answered, and a handler that runs has looked and found none.
PatienceInv ==
    /\ TypeOK
    /\ \A q, r \in Requests :
         q # r /\ key[q] = key[r] => pc[q] \notin InFlight \/ pc[r] \notin InFlight
    /\ \A r \in Requests :
         sale[r] # "none" => pc[r] = "save" \/ reply[key[r]] # NoReply
    /\ \A r \in Requests :
         pc[r] \in InHandler /\ Keyed(r) => reply[key[r]] = NoReply
    /\ OneSalePerKey

-----------------------------------------------------------------------------
(* What the documents say and the code does not do. *)

\* "if db_item.current_stock < item.qty: raise InsufficientStockError": stock is
\* never sold below zero.
StockNeverNegative == \A i \in Products : row[i].stock >= 0

\* "Every financial transaction logs cashier identity ... into
\* sales.transactions and audit.logs".
EverySaleAudited == \A r \in Requests : sale[r] # "none" => r \in audit
=============================================================================
