-------------------------------- MODULE Till --------------------------------
(***************************************************************************)
(* The counter, in one browser tab: the pages /pos, /pos/checkout, /sales  *)
(* and /sales/receipt with the cart of lib/store/pos-store.ts and the hook *)
(* useCheckoutSaga.  The tab keeps the cart, the carts saved per job, the  *)
(* stock levels, the paid marks and the sales log in localStorage, merges  *)
(* them with what the server answers, and goes on with handlers that await *)
(* the server after their page is gone.  PointOfSale models what happens   *)
(* inside the server; here a checkout commits in one step or not at all.   *)
(*                                                                         *)
(* A page's effects run with the handler that changes what they depend on. *)
(* Every unit of an item costs Price, so that half of a line is a number.  *)
(***************************************************************************)
EXTENDS Integers, Sequences, FiniteSets, Functions

CONSTANTS Job, Part, Service,   \* job orders, catalog items
          NoJob, NoPage,
          Stock,        \* units of every part that the server starts with
          Default,      \* the stock assumed for an item the cache does not know
          MaxQty,       \* bound on the quantity of a cart line
          MaxPay,       \* bound on the payments recorded
          MaxFetch,     \* bound on the job lists on their way
          Cashier,      \* user_role is "cashier"
          Budget        \* bound on syncs, losses, and steps of other users

ASSUME TillConstants ==
  /\ Part \cap Service = {} /\ NoJob \notin Job
  /\ NoPage \notin {"pos", "checkout", "sales", "receipt"}
  /\ Stock \in Nat /\ Default \in Nat /\ MaxQty \in Nat
  /\ MaxPay \in Nat /\ MaxFetch \in Nat /\ Budget \in Nat
  /\ Cashier \in BOOLEAN

VARIABLES
  jobs,     \* jobs[j]: the server's row, "open", "paid" or "gone"
  sales,    \* the server's transactions, in the order of their commits
  saved,    \* saved[j]: motoshop_cart_<job>
  paid,     \* jobs with motoshop_job_paid_<job>
  deleted,  \* motoshop_deleted_job_ids
  listed,   \* jobs that motoshop_active_repairs / motoshop_jobs show as unpaid
  cached,   \* motoshop_inventory_stock, a part left out is not in its domain
  log,      \* motoshop_sales_logs, the latest first
  cart,     \* pos-cart-storage
  at,       \* the page that is mounted and its query
  pos,      \* state of /pos
  form,     \* state of /pos/checkout
  book,     \* state of /sales and /sales/receipt
  asked,    \* fetchActiveRepairs calls that wait for their answer
  shelving, \* fetchCatalog waits for its answer
  pay,      \* pay[x]: the x-th run of handleExecutePayment
  budget

server == <<jobs, sales>>
disk   == <<saved, paid, deleted, listed, cached, log>>
tab    == <<cart, at, pos, form, book>>
vars   == <<server, disk, tab, asked, shelving, pay, budget>>

----------------------------------------------------------------------------
Item   == Part \cup Service
Price  == 2
Pay    == 1 .. MaxPay
Empty  == [i \in Item |-> 0]
Lines  == [Item -> 0 .. MaxQty]
Filter == {"SERVICE", "PRODUCT"}
NoRows == [j \in {} |-> "gone"]
Status == {"COMPLETED", "VOIDED"}

NoPos   == [selected |-> NoJob, changing |-> FALSE, view |-> "catalog",
            filter |-> "SERVICE", confirm |-> FALSE, active |-> {},
            shelf |-> [i \in {} |-> 0]]
NoForm  == [disc |-> 0, method |-> "CASH", cash |-> 0, pending |-> 0, receipt |-> 0]
NoBook  == [ready |-> FALSE, rows |-> {}, filter |-> "ALL", shown |-> 0, st |-> "NONE"]
NoPay   == [st |-> "none", job |-> NoJob, lines |-> Empty, due |-> 0, cash |-> 0,
            id |-> 0, mounted |-> FALSE]
Away    == [page |-> NoPage, job |-> NoJob, cart |-> FALSE]

Spend == budget > 0 /\ budget' = budget - 1
Quiet == UNCHANGED budget

\* A transaction id: n is the server's n-th sale, -x what the hook made up for
\* the x-th payment.
Id == DOMAIN sales \cup {-x : x \in Pay}

Init ==
  /\ jobs = [j \in Job |-> "open"] /\ sales = <<>>
  /\ saved = [j \in Job |-> Empty] /\ paid = {} /\ deleted = {}
  /\ listed = Job
  /\ cached = [i \in {} |-> 0] /\ log = <<>>
  /\ cart = Empty /\ at = Away /\ pos = NoPos /\ form = NoForm /\ book = NoBook
  /\ asked = {} /\ shelving = FALSE
  /\ pay = [x \in Pay |-> NoPay]
  /\ budget = Budget

----------------------------------------------------------------------------
(* The cart and the effects of /pos.                                       *)

\* addToCart: a line more, or one unit more of the line there is.
AddToCart(c, i) == [c EXCEPT ![i] = IF @ < MaxQty THEN @ + 1 ELSE @]

\* The items stored for a job, put back one addToCart each: quantities are 1.
Restored(j) == [i \in Item |-> IF saved[j][i] > 0 THEN 1 ELSE 0]

\* Keep localStorage cart items synced, but never write an empty cart.
SaveCart(sv, j, c) == IF j # NoJob /\ c # Empty THEN [sv EXCEPT ![j] = c] ELSE sv

\* Mutant of Guarded: no effect watches the selection.
UnguardedView(p) == p

\* No cart view without a customer.
Guarded(p) == IF p.selected = NoJob /\ p.view = "cart"
              THEN [p EXCEPT !.view = "catalog"] ELSE p

\* A handler of /pos leaves p and c, then the effects run.
Render(p, c) ==
  /\ pos' = Guarded(p) /\ cart' = c
  /\ saved' = SaveCart(saved, p.selected, c)

\* The mount of /pos asks for both lists, as every focus and storage event does.
Ask == IF Cardinality(asked) < MaxFetch
       THEN asked \cup {[deleted |-> deleted, got |-> FALSE, rows |-> NoRows]} ELSE asked

Leave(p) == pay' = [x \in Pay |-> [pay[x] EXCEPT !.mounted = FALSE]] /\ at' = p

GoPos(j, view) ==
  /\ Leave([page |-> "pos", job |-> j, cart |-> view])
  /\ pos' = NoPos /\ form' = NoForm /\ book' = NoBook
  /\ asked' = Ask /\ shelving' = TRUE

OpenPos ==
  /\ at.page # "pos"
  /\ GoPos(NoJob, FALSE)
  /\ Quiet /\ UNCHANGED <<server, disk, cart>>

Sync ==
  /\ at.page = "pos" /\ Spend
  /\ asked' = Ask /\ shelving' = TRUE
  /\ UNCHANGED <<server, disk, tab, pay>>

\* Rows of active-carts: every job that is not released, the paid ones too.
ServeRepairs ==
  \E a \in asked :
    /\ ~a.got
    /\ asked' = (asked \ {a}) \cup
                {[a EXCEPT !.got = TRUE, !.rows = [j \in {k \in Job : jobs[k] # "gone"} |-> jobs[j]]]}
    /\ Quiet /\ UNCHANGED <<server, disk, tab, shelving, pay>>

\* Mutant of Merged: the paid marks are those of the server's rows alone.
MergedUnmarked(a) ==
  {j \in listed \cup DOMAIN a.rows :
     /\ j \notin a.deleted
     /\ j \in DOMAIN a.rows => a.rows[j] = "open"}

\* Server rows first, then the local ones; without the deleted, which were read
\* before the request, and the paid, which are read now.
Merged(a) ==
  {j \in listed \cup DOMAIN a.rows :
     /\ j \notin a.deleted /\ j \notin paid
     /\ j \in DOMAIN a.rows => a.rows[j] = "open"}

\* The query of the page selects its job again, whatever the cart holds.
Reselect(p, j, view) ==
  IF j \in p.active
  THEN [p EXCEPT !.selected = j, !.changing = FALSE, !.filter = "SERVICE",
                 !.view = IF view THEN "cart" ELSE @]
  ELSE p

ApplyRepairs(a) ==
  /\ asked' = asked \ {a}
  /\ IF at.page = "pos"
     THEN LET seen == [pos EXCEPT !.active = Merged(a),
                                  !.selected = IF @ \in Merged(a) THEN @ ELSE NoJob]
              keep == IF Guarded(seen) # seen THEN FALSE ELSE at.cart
              next == Reselect(Guarded(seen), at.job, keep)
          IN pos' = Guarded(next) /\ saved' = SaveCart(saved, next.selected, cart)
     ELSE UNCHANGED <<pos, saved>>
  /\ UNCHANGED <<server, paid, deleted, listed, cached, log, cart, at, form, book,
                 shelving, pay>>

RepairsArrive == \E a \in asked : a.got /\ ApplyRepairs(a) /\ Quiet
RepairsLost   == \E a \in asked : ~a.got /\ ApplyRepairs(a) /\ Spend

\* The catalog: the server's stock unless the cache knows better.
Sold(i) == SumFunction([n \in DOMAIN sales |-> sales[n].lines[i]])
Shelf == [i \in Item |-> IF i \in DOMAIN cached THEN cached[i] ELSE Stock - Sold(i)]

CatalogArrives ==
  /\ shelving /\ shelving' = FALSE
  /\ IF at.page = "pos"
     THEN \/ pos' = [pos EXCEPT !.shelf = Shelf] /\ Quiet
          \/ pos' = [pos EXCEPT !.shelf = [i \in {} |-> 0]] /\ Spend
     ELSE UNCHANGED pos /\ Quiet
  /\ UNCHANGED <<server, disk, cart, at, form, book, asked, pay>>

----------------------------------------------------------------------------
(* What /pos offers, and what the cashier does there.                      *)

OnPos(v) == at.page = "pos" /\ pos.view = v

CardsOffered   == OnPos("catalog") /\ (pos.selected = NoJob \/ pos.changing)
BannerOffered  == OnPos("catalog") /\ pos.selected # NoJob /\ ~pos.changing
ReviewOffered  == OnPos("catalog") /\ pos.selected # NoJob
CatalogShown   == {i \in DOMAIN pos.shelf : (i \in Service) <=> (pos.filter = "SERVICE")}
CardOffered(i) == OnPos("catalog") /\ i \in CatalogShown
AddOffered(i)  == /\ CardOffered(i) /\ pos.selected # NoJob /\ cart[i] = 0
                  /\ i \in Part => pos.shelf[i] # 0
StepOffered(i) == CardOffered(i) /\ pos.selected # NoJob /\ cart[i] > 0
CartOffered    == OnPos("cart")
RowOffered(i)  == CartOffered /\ cart[i] > 0
PayOffered     == CartOffered /\ cart # Empty /\ pos.selected # NoJob

Here == UNCHANGED <<server, paid, deleted, listed, cached, log, at, form, book,
                    asked, shelving, pay>>

\* selectActiveCustomerRepair with its reset of the cart.
Select(j) ==
  /\ CardsOffered /\ j \in pos.active
  /\ Render([pos EXCEPT !.selected = j, !.changing = FALSE, !.filter = "SERVICE"],
            Restored(j))
  /\ Quiet /\ Here

ChangeCustomer ==
  /\ BannerOffered \/ (CartOffered /\ pos.selected # NoJob)
  /\ Render([pos EXCEPT !.changing = TRUE, !.view = "catalog"], cart)
  /\ Quiet /\ Here

CancelChange ==
  /\ CardsOffered /\ pos.selected # NoJob
  /\ Render([pos EXCEPT !.changing = FALSE], cart)
  /\ Quiet /\ Here

SetFilter(f) ==
  /\ OnPos("catalog")
  /\ Render([pos EXCEPT !.filter = f], cart)
  /\ Quiet /\ Here

\* handleAddItemToCustomerCart; the server's copy of the cart is not read here.
Add(i) ==
  /\ AddOffered(i) /\ (i \in Part => pos.shelf[i] > 0)
  /\ Render(pos, AddToCart(cart, i))
  /\ Quiet /\ Here

\* The stepper of a catalog card stops at the stock, that of a cart row does not.
More(i) ==
  /\ \/ StepOffered(i) /\ (i \in Part => cart[i] < pos.shelf[i])
     \/ RowOffered(i)
  /\ cart[i] < MaxQty
  /\ Render(pos, [cart EXCEPT ![i] = @ + 1])
  /\ Quiet /\ Here

\* One unit less, or the line removed: updateQty and removeFromCart.
Less(i) ==
  /\ StepOffered(i) \/ RowOffered(i)
  /\ Render(pos, [cart EXCEPT ![i] = @ - 1])
  /\ Quiet /\ Here

Remove(i) ==
  /\ RowOffered(i)
  /\ Render(pos, [cart EXCEPT ![i] = 0])
  /\ Quiet /\ Here

View(v) ==
  /\ v = "cart" => ReviewOffered
  /\ v = "catalog" => CartOffered
  /\ at.page = "pos"
  /\ Render([pos EXCEPT !.view = v], cart)
  /\ Quiet /\ Here

\* The Clear Cart buttons open a dialog, which outlives the view and the selection.
AskClear ==
  /\ CartOffered /\ cart # Empty /\ ~pos.confirm
  /\ Render([pos EXCEPT !.confirm = TRUE], cart)
  /\ Quiet /\ Here

KeepCart ==
  /\ at.page = "pos" /\ pos.confirm
  /\ Render([pos EXCEPT !.confirm = FALSE], cart)
  /\ Quiet /\ Here

ClearCart ==
  /\ at.page = "pos" /\ pos.confirm
  /\ cart' = Empty /\ pos' = [pos EXCEPT !.confirm = FALSE]
  /\ saved' = IF pos.selected = NoJob THEN saved
              ELSE [saved EXCEPT ![pos.selected] = Empty]
  /\ Quiet /\ Here

----------------------------------------------------------------------------
(* /pos/checkout.                                                          *)

Subtotal == Price * SumFunction(cart)
Due      == Subtotal - (Subtotal * form.disc) \div 100
Received == IF form.method = "CASH" THEN form.cash ELSE Due

\* The restore on mount: only into an empty cart.
OpenedCart(j) == IF cart = Empty THEN Restored(j) ELSE cart

Proceed ==
  /\ PayOffered
  /\ Leave([page |-> "checkout", job |-> pos.selected, cart |-> FALSE])
  /\ pos' = NoPos /\ form' = NoForm /\ cart' = OpenedCart(pos.selected)
  /\ Quiet /\ UNCHANGED <<server, disk, book, asked, shelving>>

ReceiptShown == at.page = "checkout" /\ form.receipt # 0
OrderShown   == at.page = "checkout" /\ form.receipt = 0
TenderShown  == OrderShown /\ form.method = "CASH"

\* Only isCheckingOut, an empty cart and too little cash disable the button.
RecordOffered == /\ OrderShown /\ cart # Empty
                 /\ form.pending # 0 => pay[form.pending].st # "posting"
                 /\ Received >= Due

OnForm == Quiet /\ UNCHANGED <<server, disk, cart, at, pos, book, asked, shelving,
                               pay>>

Discount(d) == OrderShown /\ form' = [form EXCEPT !.disc = d] /\ OnForm
Method(m)   == OrderShown /\ form' = [form EXCEPT !.method = m] /\ OnForm
ExactCash   == TenderShown /\ form' = [form EXCEPT !.cash = Due] /\ OnForm

ReturnToPos ==
  /\ at.page = "checkout"
  /\ IF form.receipt # 0
     THEN GoPos(NoJob, FALSE) /\ cart' = Empty
     ELSE GoPos(at.job, TRUE) /\ cart' = cart
  /\ Quiet /\ UNCHANGED <<server, disk>>

\* handleExecutePayment up to its first await.
RecordPayment(x) ==
  /\ RecordOffered
  /\ pay[x] = NoPay /\ \A y \in Pay : y < x => pay[y] # NoPay
  /\ pay' = [pay EXCEPT ![x] = [NoPay EXCEPT
               !.st = "posting", !.job = at.job, !.lines = cart, !.due = Due,
               !.cash = Received, !.mounted = TRUE]]
  /\ form' = [form EXCEPT !.pending = x]
  /\ Quiet /\ UNCHANGED <<server, disk, cart, at, pos, book, asked, shelving>>

\* The server commits the sale and the payment of its job together, perhaps when
\* the page has given up on an answer.
Commit(x) ==
  /\ pay[x].st # "none" /\ \A n \in DOMAIN sales : sales[n].by # x
  /\ sales' = Append(sales, [job |-> pay[x].job, lines |-> pay[x].lines,
                             st |-> "COMPLETED", by |-> x])
  /\ jobs' = [jobs EXCEPT ![pay[x].job] = IF @ = "open" THEN "paid" ELSE @]
  /\ pay' = [pay EXCEPT ![x].id = IF @ = 0 THEN Len(sales) + 1 ELSE @]
  /\ Quiet /\ UNCHANGED <<disk, tab, asked, shelving>>

\* The cache of stock levels after the sale of lines c.
Deducted(c) ==
  [i \in DOMAIN cached \cup {k \in Part : c[k] > 0} |->
     LET now == IF i \in DOMAIN cached THEN cached[i] ELSE Default
     IN  IF i \in Part /\ c[i] > now THEN 0 ELSE now - c[i]]

\* Mutant of LogPayment: the log takes the lines from the store after the await.
LogPaymentLate(x, id) ==
  /\ log' = <<[id |-> id, job |-> pay[x].job, lines |-> cart,
               due |-> pay[x].due, st |-> "COMPLETED"]>> \o log
  /\ cached' = Deducted(pay[x].lines)
  /\ pay' = [pay EXCEPT ![x].st = "patching", ![x].id = id]
  /\ UNCHANGED <<server, saved, paid, deleted, listed, tab, asked, shelving>>

\* The answer of the checkout, or what the hook makes up when there is none.
LogPayment(x, id) ==
  /\ log' = <<[id |-> id, job |-> pay[x].job, lines |-> pay[x].lines,
               due |-> pay[x].due, st |-> "COMPLETED"]>> \o log
  /\ cached' = Deducted(pay[x].lines)
  /\ pay' = [pay EXCEPT ![x].st = "patching", ![x].id = id]
  /\ UNCHANGED <<server, saved, paid, deleted, listed, tab, asked, shelving>>

Answered(x)   == pay[x].st = "posting" /\ pay[x].id > 0 /\ LogPayment(x, pay[x].id) /\ Quiet
Unanswered(x) == pay[x].st = "posting" /\ LogPayment(x, -x) /\ Spend

\* PATCH payment-status, for the second time.
Patch(x) ==
  /\ pay[x].st = "patching"
  /\ jobs' = [jobs EXCEPT ![pay[x].job] = IF @ = "open" THEN "paid" ELSE @]
  /\ pay' = [pay EXCEPT ![x].st = "patched"]
  /\ Quiet /\ UNCHANGED <<sales, disk, tab, asked, shelving>>

\* The rest of the handler, whatever the PATCH answers.  The page, if it is still
\* there, shows the receipt; the cart is emptied anyway.
Finish(x) ==
  /\ \/ pay[x].st = "patched" /\ Quiet
     \/ pay[x].st = "patching" /\ Spend
  /\ paid' = paid \cup {pay[x].job}
  /\ saved' = [saved EXCEPT ![pay[x].job] = Empty]
  /\ listed' = listed \ {pay[x].job}
  /\ cart' = Empty
  /\ form' = IF pay[x].mounted THEN [form EXCEPT !.receipt = x] ELSE form
  /\ pay' = [pay EXCEPT ![x].st = "done"]
  /\ UNCHANGED <<server, deleted, cached, log, at, pos, book, asked, shelving>>

----------------------------------------------------------------------------
(* /sales and /sales/receipt.                                              *)

Entry(id, st) == [id |-> id, st |-> st]

\* Mutant of Ledger: the log is added without looking for the ids the server sent.
LedgerTwice(known) == known \cup {Entry(e.id, e.st) : e \in Range(log)}

\* The local log, without what the server knows, and the server's list.
Ledger(known) ==
  LET ids == {s.id : s \in known}
  IN  known \cup {Entry(e.id, e.st) : e \in {l \in Range(log) : l.id \notin ids}}

OnServer == {Entry(n, sales[n].st) : n \in DOMAIN sales}

GoTo(page) ==
  /\ Leave([Away EXCEPT !.page = page])
  /\ pos' = NoPos /\ form' = NoForm
  /\ UNCHANGED <<server, disk, cart, asked, shelving>>

OpenSales ==
  /\ at.page # "sales"
  /\ GoTo("sales") /\ book' = NoBook /\ Quiet

LoadSales ==
  /\ at.page = "sales" /\ ~book.ready
  /\ \/ book' = [book EXCEPT !.ready = TRUE, !.rows = Ledger(OnServer)] /\ Quiet
     \/ book' = [book EXCEPT !.ready = TRUE, !.rows = Ledger({})] /\ Spend
  /\ UNCHANGED <<server, disk, cart, at, pos, form, asked, shelving, pay>>

FilterSales(f) ==
  /\ at.page = "sales" /\ book' = [book EXCEPT !.filter = f] /\ Quiet
  /\ UNCHANGED <<server, disk, cart, at, pos, form, asked, shelving, pay>>

FilteredSales == {r \in book.rows : book.filter \in {"ALL", r.st}}

\* A row opens its receipt; the id is the server's, or is found in the log.
OpenReceipt(r) ==
  /\ at.page = "sales" /\ book.ready /\ r \in FilteredSales
  /\ GoTo("receipt") /\ book' = [NoBook EXCEPT !.shown = r.id] /\ Quiet

Logged(id) == {e.st : e \in {l \in Range(log) : l.id = id}}

LoadReceipt ==
  /\ at.page = "receipt" /\ ~book.ready
  /\ \/ /\ book.shown \in DOMAIN sales
        /\ book' = [book EXCEPT !.ready = TRUE, !.st = sales[book.shown].st] /\ Quiet
     \/ /\ book.shown \in DOMAIN sales => budget > 0
        /\ budget' = IF book.shown \in DOMAIN sales THEN budget - 1 ELSE budget
        /\ book' = [book EXCEPT !.ready = TRUE,
                      !.st = IF Logged(book.shown) = {} THEN "NONE"
                             ELSE CHOOSE st \in Logged(book.shown) : TRUE]
  /\ UNCHANGED <<server, disk, cart, at, pos, form, asked, shelving, pay>>

VoidOffered == at.page = "receipt" /\ book.ready /\ book.st = "COMPLETED" /\ ~Cashier

\* The page and the log say VOIDED, whether or not the server does.
VoidLogged == [k \in DOMAIN log |->
                 IF log[k].id = book.shown THEN [log[k] EXCEPT !.st = "VOIDED"] ELSE log[k]]

\* The page sends PUT and the server knows only POST, so the request fails and
\* the page carries on as if there were no server.
Void ==
  /\ VoidOffered
  /\ book' = [book EXCEPT !.st = "VOIDED"]
  /\ log' = VoidLogged
  /\ Quiet
  /\ UNCHANGED <<server, saved, paid, deleted, listed, cached, cart, at, pos, form,
                 asked, shelving, pay>>

----------------------------------------------------------------------------
(* Other users and other tabs, and a reload of this one.                   *)

\* A job is paid for or released elsewhere, or deleted on the board in another
\* tab, whose storage event is a Sync.
Elsewhere(j) ==
  /\ Spend
  /\ \/ jobs[j] = "open" /\ jobs' = [jobs EXCEPT ![j] = "paid"] /\ deleted' = deleted
     \/ jobs[j] = "paid" /\ jobs' = [jobs EXCEPT ![j] = "gone"] /\ deleted' = deleted
     \/ jobs[j] = "open" /\ jobs' = [jobs EXCEPT ![j] = "gone"]
                         /\ deleted' = deleted \cup {j}
  /\ UNCHANGED <<sales, saved, paid, listed, cached, log, tab, asked, shelving, pay>>

\* The handlers of the page die; a request that was sent may still be served.
Reload ==
  /\ at.page = "checkout" /\ Spend
  /\ pay' = [x \in Pay |-> IF pay[x].st \in {"posting", "patching", "patched"}
                           THEN [pay[x] EXCEPT !.st = "orphan", !.mounted = FALSE]
                           ELSE [pay[x] EXCEPT !.mounted = FALSE]]
  /\ form' = NoForm /\ cart' = OpenedCart(at.job)
  /\ asked' = {} /\ shelving' = FALSE
  /\ UNCHANGED <<server, disk, at, pos, book>>

----------------------------------------------------------------------------
Cashiering ==
  \/ OpenPos \/ ChangeCustomer \/ CancelChange \/ AskClear \/ KeepCart \/ ClearCart
  \/ Proceed \/ ReturnToPos \/ ExactCash
  \/ \E j \in Job : Select(j)
  \/ \E i \in Item : Add(i) \/ More(i) \/ Less(i) \/ Remove(i)
  \/ \E v \in {"catalog", "cart"} : View(v)
  \/ \E f \in Filter : SetFilter(f)
  \/ \E d \in {0, 50} : Discount(d)
  \/ \E m \in {"CASH", "CARD"} : Method(m)
  \/ \E x \in Pay : RecordPayment(x)

Invoicing ==
  \/ OpenSales \/ Void
  \/ \E f \in Status \cup {"ALL"} : FilterSales(f)
  \/ \E r \in book.rows : OpenReceipt(r)

Answers ==
  \/ ServeRepairs \/ RepairsArrive \/ CatalogArrives \/ LoadSales \/ LoadReceipt
  \/ \E x \in Pay : Commit(x) \/ Answered(x) \/ Patch(x) \/ Finish(x)

Faults ==
  \/ Sync \/ RepairsLost \/ Reload
  \/ \E x \in Pay : Unanswered(x)
  \/ \E j \in Job : Elsewhere(j)

Next == Cashiering \/ Invoicing \/ Answers \/ Faults

Spec == Init /\ [][Next]_vars

----------------------------------------------------------------------------
TypeOK ==
  /\ jobs \in [Job -> {"open", "paid", "gone"}]
  /\ sales \in Seq([job : Job, lines : Lines, st : Status, by : Pay])
  /\ saved \in [Job -> Lines] /\ cart \in Lines
  /\ paid \subseteq Job /\ deleted \subseteq Job /\ listed \subseteq Job
  /\ DOMAIN cached \subseteq Part /\ \A i \in DOMAIN cached : cached[i] \in Nat
  /\ log \in Seq(Range(log))
  /\ \A k \in DOMAIN log : /\ log[k].id \in Id /\ log[k].job \in Job
                          /\ log[k].lines \in Lines /\ log[k].st \in Status
  /\ at \in [page : {NoPage, "pos", "checkout", "sales", "receipt"},
             job : Job \cup {NoJob}, cart : BOOLEAN]
  /\ pos.selected \in Job \cup {NoJob} /\ pos.active \subseteq Job
  /\ form.pending \in Pay \cup {0} /\ form.receipt \in Pay \cup {0}
  /\ \A x \in Pay : /\ pay[x].st \in {"none", "posting", "patching", "patched", "done",
                                   "orphan"}
                    /\ pay[x].job \in Job \cup {NoJob} /\ pay[x].lines \in Lines
                    /\ pay[x].id \in Id \cup {0}
  /\ \A a \in asked : a.deleted \subseteq Job /\ DOMAIN a.rows \subseteq Job
  /\ budget \in 0 .. Budget

\* No cart is in view without a customer, and the customer is one of those the
\* page offers: a job paid for, released or deleted meanwhile is let go.
CartHasCustomer ==
  /\ CartOffered => pos.selected # NoJob
  /\ pos.selected # NoJob => pos.selected \in pos.active

\* A list of jobs that was asked for before a payment and arrives after it does
\* not bring the paid job back to the counter.
PaidNotOffered == [][\A j \in paid' \ pos.active : j \notin pos'.active]_vars

\* The sales log and the receipt on the screen show what the server recorded for
\* that payment, whatever became of the cart while it was on its way; and a job
\* marked as paid is in the log.
LogIsTrue ==
  /\ \A k \in DOMAIN log : log[k].id > 0 =>
       /\ log[k].id \in DOMAIN sales
       /\ <<log[k].job, log[k].lines>> = <<sales[log[k].id].job, sales[log[k].id].lines>>
  /\ form.receipt # 0 => \E k \in DOMAIN log : /\ log[k].id = pay[form.receipt].id
                                               /\ log[k].due = pay[form.receipt].due
  /\ \A j \in paid : \E k \in DOMAIN log : log[k].job = j

\* Each invoice is one row of the sales page, with one status, although the
\* server and the log both hold it.
ListedOnce == \A r, q \in book.rows : r.id = q.id => r = q

\* "Save item persistently in localStorage keyed by job_id": an item enters the
\* saved cart of a job only when it is added while that job is selected.
SavedByHand ==
  [][\A j \in Job, i \in Item :
       saved[j][i] = 0 /\ saved'[j][i] > 0 => pos.selected = j /\ cart[i] = 0]_vars

\* "Checkout must ... [persist] invoice records, payments, and stock movements":
\* a receipt is shown for a sale that the server has.
ReceiptHasSale == form.receipt # 0 => pay[form.receipt].id \in DOMAIN sales

\* "Void an existing transaction": an invoice that the receipt page shows as voided
\* is voided on the server, if the server has it.
VoidIsRecorded ==
  book.st = "VOIDED" /\ book.shown \in DOMAIN sales => sales[book.shown].st = "VOIDED"

----------------------------------------------------------------------------
(* The inductive invariant behind CartHasCustomer, LogIsTrue and ListedOnce. *)

Shapes ==
  /\ DOMAIN pos = DOMAIN NoPos /\ DOMAIN form = DOMAIN NoForm /\ DOMAIN book = DOMAIN NoBook
  /\ DOMAIN pay = Pay /\ \A x \in Pay : DOMAIN pay[x] = DOMAIN NoPay
  /\ \A k \in DOMAIN log : DOMAIN log[k] = {"id", "job", "lines", "due", "st"}
  /\ \A a \in asked : DOMAIN a = {"deleted", "got", "rows"}

CustomerKept ==
  /\ pos.selected # NoJob => pos.selected \in pos.active
  /\ pos.view = "cart" => pos.selected # NoJob

\* What a payment is for, where it was recorded, and that it was logged.
Logs(k, x) ==
  log[k].id = pay[x].id /\ log[k].due = pay[x].due /\ log[k].job = pay[x].job

Recorded ==
  /\ at.page = "checkout" => at.job \in Job
  /\ \A x \in Pay :
       /\ pay[x].st # "none" => pay[x].job \in Job
       /\ pay[x].id > 0 => LET s == sales[pay[x].id]
                          IN  <<s.by, s.job, s.lines>> = <<x, pay[x].job, pay[x].lines>>
       /\ pay[x].st \in {"patching", "patched", "done"} => \E k \in DOMAIN log : Logs(k, x)
  /\ form.receipt # 0 => pay[form.receipt].st = "done"
  /\ \A j \in paid : \E k \in DOMAIN log : log[k].job = j

\* The payment behind an entry of the log: it has been logged, and keeps its id.
Payer(id, served) == IF id > 0 THEN served[id].by ELSE -id

LogAgrees ==
  /\ \A k \in DOMAIN log :
       /\ pay[Payer(log[k].id, sales)].id = log[k].id
       /\ pay[Payer(log[k].id, sales)].st \notin {"none", "posting"}
       /\ log[k].id > 0 =>
            <<log[k].job, log[k].lines>> = <<sales[log[k].id].job, sales[log[k].id].lines>>
  /\ \A k, m \in DOMAIN log : log[k].id = log[m].id => k = m

IInv == TypeOK /\ Shapes /\ CustomerKept /\ Recorded /\ LogAgrees /\ ListedOnce
=============================================================================
