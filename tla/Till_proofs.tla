----------------------------- MODULE Till_proofs -----------------------------
(***************************************************************************)
(* Proofs about Till: that a cart always has a customer whom the page      *)
(* offers, that a paid job is not brought back, that the sales log and the *)
(* receipt show what the server recorded, and that an invoice is one row.  *)
(*                                                                         *)
(* The payments carry the argument: a run of handleExecutePayment keeps    *)
(* the lines, the job and the amount it was started with, logs them once,  *)
(* and under an id that the server or the run itself has given to no other *)
(* payment.  What becomes of the cart and of the pages does not matter.    *)
(***************************************************************************)
EXTENDS Till, TLAPS, SequenceTheorems

USE TillConstants

----------------------------------------------------------------------------
(* The state of /pos.                                                      *)

PosShape == {"selected", "changing", "view", "filter", "confirm", "active", "shelf"}

\* A state of /pos before its effects run.
PosFits(p) ==
  /\ DOMAIN p = PosShape
  /\ p.selected \in Job \cup {NoJob} /\ p.active \subseteq Job
  /\ p.selected # NoJob => p.selected \in p.active

LEMMA PosFitsNow ==
  ASSUME IInv
  PROVE  PosFits(pos) /\ (pos.view = "cart" => pos.selected # NoJob)
BY DEF IInv, TypeOK, Shapes, CustomerKept, PosFits, NoPos, PosShape

LEMMA NoPosFits == PosFits(NoPos) /\ NoPos.view # "cart" /\ NoPos.active = {}
BY DEF PosFits, NoPos, PosShape

LEMMA GuardedFits ==
  ASSUME NEW p, PosFits(p)
  PROVE  /\ PosFits(Guarded(p)) /\ Guarded(p).active = p.active
         /\ Guarded(p).selected = p.selected
         /\ Guarded(p).view = "cart" => Guarded(p).selected # NoJob
BY DEF Guarded, PosFits, PosShape

\* After the effects no cart is in view without a customer.
Ready == PosFits(pos') /\ (pos'.view = "cart" => pos'.selected # NoJob)

LEMMA RenderStep ==
  ASSUME IInv, NEW p, NEW c, Render(p, c), DOMAIN p = PosShape, p.active = pos.active,
         p.selected = pos.selected \/ p.selected \in pos.active
  PROVE  Ready /\ pos'.active = pos.active
<1>1. PosFits(p)
  BY PosFitsNow DEF PosFits
<1> QED
  BY <1>1, GuardedFits DEF Render, Ready

\* The handlers of the catalog and of the cart of /pos.
Handlers ==
  \/ ChangeCustomer \/ CancelChange \/ AskClear \/ KeepCart
  \/ \E j \in Job : Select(j)
  \/ \E i \in Item : Add(i) \/ More(i) \/ Less(i) \/ Remove(i)
  \/ \E v \in {"catalog", "cart"} : View(v)
  \/ \E f \in Filter : SetFilter(f)

LEMMA HandlersRender ==
  ASSUME IInv, Handlers
  PROVE  /\ Here
         /\ \E p, c : /\ Render(p, c) /\ DOMAIN p = PosShape /\ p.active = pos.active
                      /\ p.selected = pos.selected \/ p.selected \in pos.active
                      /\ c \in Lines
<1>0. DOMAIN pos = PosShape
  BY PosFitsNow DEF PosFits
<1>c. cart \in [Item -> 0 .. MaxQty] /\ cart \in Lines /\ saved \in [Job -> Lines]
  BY DEF IInv, TypeOK, Lines
<1> DEFINE Goal == \E p, c : /\ Render(p, c) /\ DOMAIN p = PosShape /\ p.active = pos.active
                             /\ p.selected = pos.selected \/ p.selected \in pos.active
                             /\ c \in Lines
<1>a. ASSUME NEW p, NEW c \in Lines, Render(p, c), DOMAIN p = PosShape, p.active = pos.active,
             p.selected = pos.selected \/ p.selected \in pos.active
      PROVE  Goal
  BY <1>a
<1> HIDE DEF Goal
<1>1. CASE ChangeCustomer
  <2> DEFINE p == [pos EXCEPT !.changing = TRUE, !.view = "catalog"]
  <2>1. DOMAIN p = PosShape /\ p.active = pos.active /\ p.selected = pos.selected
    BY <1>0 DEF PosShape
  <2>2. Render(p, cart) /\ Here
    BY <1>1 DEF ChangeCustomer
  <2> QED
    BY <1>a, <1>c, <2>1, <2>2 DEF Goal
<1>2. CASE CancelChange
  <2> DEFINE p == [pos EXCEPT !.changing = FALSE]
  <2>1. DOMAIN p = PosShape /\ p.active = pos.active /\ p.selected = pos.selected
    BY <1>0 DEF PosShape
  <2>2. Render(p, cart) /\ Here
    BY <1>2 DEF CancelChange
  <2> QED
    BY <1>a, <1>c, <2>1, <2>2 DEF Goal
<1>3. CASE AskClear \/ KeepCart
  <2>1. PICK b \in BOOLEAN : Render([pos EXCEPT !.confirm = b], cart) /\ Here
    BY <1>3 DEF AskClear, KeepCart
  <2> DEFINE p == [pos EXCEPT !.confirm = b]
  <2>2. DOMAIN p = PosShape /\ p.active = pos.active /\ p.selected = pos.selected
    BY <1>0 DEF PosShape
  <2> QED
    BY <1>a, <1>c, <2>1, <2>2 DEF Goal
<1>4. ASSUME NEW j \in Job, Select(j) PROVE Here /\ Goal
  <2> DEFINE p == [pos EXCEPT !.selected = j, !.changing = FALSE, !.filter = "SERVICE"]
  <2>1. DOMAIN p = PosShape /\ p.active = pos.active /\ p.selected = j
    BY <1>0 DEF PosShape
  <2>2. Render(p, Restored(j)) /\ Here /\ j \in pos.active
    BY <1>4 DEF Select
  <2>3. Restored(j) \in Lines
    <3>1. saved[j] \in [Item -> 0 .. MaxQty]
      BY <1>c DEF Lines
    <3> QED
      BY <3>1 DEF Restored, Lines
  <2> QED
    BY <1>a, <2>1, <2>2, <2>3 DEF Goal
<1>5. ASSUME NEW i \in Item, Add(i) \/ More(i) \/ Less(i) \/ Remove(i) PROVE Here /\ Goal
  <2>1. CASE Add(i)
    <3>1. AddToCart(cart, i) \in Lines
      BY <1>c DEF AddToCart, Lines
    <3> QED
      BY <1>0, <1>a, <2>1, <3>1 DEF Add, Goal
  <2>2. CASE More(i)
    <3>1. [cart EXCEPT ![i] = @ + 1] \in Lines
      BY <1>c, <2>2 DEF More, Lines
    <3> QED
      BY <1>0, <1>a, <2>2, <3>1 DEF More, Goal
  <2>3. CASE Less(i)
    <3>1. cart[i] > 0
      BY <2>3 DEF Less, StepOffered, RowOffered
    <3>2. [cart EXCEPT ![i] = @ - 1] \in Lines
      BY <1>c, <3>1 DEF Lines
    <3> QED
      BY <1>0, <1>a, <2>3, <3>2 DEF Less, Goal
  <2>4. CASE Remove(i)
    <3>1. [cart EXCEPT ![i] = 0] \in Lines
      BY <1>c DEF Lines
    <3> QED
      BY <1>0, <1>a, <2>4, <3>1 DEF Remove, Goal
  <2> QED
    BY <1>5, <2>1, <2>2, <2>3, <2>4
<1>6. ASSUME NEW v \in {"catalog", "cart"}, View(v) PROVE Here /\ Goal
  <2> DEFINE p == [pos EXCEPT !.view = v]
  <2>1. DOMAIN p = PosShape /\ p.active = pos.active /\ p.selected = pos.selected
    BY <1>0 DEF PosShape
  <2>2. Render(p, cart) /\ Here
    BY <1>6 DEF View
  <2> QED
    BY <1>a, <1>c, <2>1, <2>2 DEF Goal
<1>7. ASSUME NEW f \in Filter, SetFilter(f) PROVE Here /\ Goal
  <2> DEFINE p == [pos EXCEPT !.filter = f]
  <2>1. DOMAIN p = PosShape /\ p.active = pos.active /\ p.selected = pos.selected
    BY <1>0 DEF PosShape
  <2>2. Render(p, cart) /\ Here
    BY <1>7 DEF SetFilter
  <2> QED
    BY <1>a, <1>c, <2>1, <2>2 DEF Goal
<1> QED
  BY <1>1, <1>2, <1>3, <1>4, <1>5, <1>6, <1>7 DEF Handlers, Goal

\* The inputs and the button of /pos/checkout.
OnTheForm ==
  \/ ExactCash
  \/ \E d \in {0, 50} : Discount(d)
  \/ \E m \in {"CASH", "CARD"} : Method(m)
  \/ \E x \in Pay : RecordPayment(x)

LEMMA CashieringCases ==
  ASSUME Cashiering
  PROVE  Handlers \/ OpenPos \/ ClearCart \/ Proceed \/ ReturnToPos \/ OnTheForm
BY DEF Cashiering, Handlers, OnTheForm

\* The answer of fetchActiveRepairs lets a customer go who is not among it, and
\* brings no job back that this browser has marked as paid.
LEMMA ApplyPosStep ==
  ASSUME IInv, NEW a \in asked, ApplyRepairs(a)
  PROVE  Ready /\ \A j \in paid \ pos.active : j \notin pos'.active
<1>1. CASE at.page = "pos"
  <2> DEFINE seen == [pos EXCEPT !.active = Merged(a),
                                 !.selected = IF @ \in Merged(a) THEN @ ELSE NoJob]
             keep == IF Guarded(seen) # seen THEN FALSE ELSE at.cart
             next == Reselect(Guarded(seen), at.job, keep)
  <2>1. pos' = Guarded(next)
    BY <1>1 DEF ApplyRepairs
  <2>2. DOMAIN pos = PosShape
    BY PosFitsNow DEF PosFits
  <2>3. DOMAIN seen = PosShape /\ seen.active = Merged(a)
        /\ seen.selected \in Merged(a) \cup {NoJob}
    BY <2>2 DEF PosShape
  <2> HIDE DEF seen, keep
  <2>6. Merged(a) \cap paid = {}
    BY DEF Merged
  <2>4. Merged(a) \subseteq Job
    BY DEF Merged, IInv, TypeOK
  <2> QED
    <3>1. PosFits(seen)
      BY <2>3, <2>4 DEF PosFits
    <3>2. PosFits(Guarded(seen)) /\ Guarded(seen).active = Merged(a)
      BY <2>3, <3>1, GuardedFits
    <3>3. PosFits(next) /\ next.active = Merged(a)
      BY <3>2 DEF Reselect, PosFits, PosShape
    <3> HIDE DEF next
    <3>4. Ready /\ pos'.active = Merged(a)
      BY <2>1, <3>3, GuardedFits DEF Ready
    <3> QED
      BY <2>6, <3>4
<1>2. CASE at.page # "pos"
  BY <1>2, PosFitsNow DEF ApplyRepairs, Ready
<1> QED
  BY <1>1, <1>2

LEMMA PosStep ==
  ASSUME IInv, [Next]_vars
  PROVE  Ready /\ \A j \in paid' \ pos.active : j \notin pos'.active
<1> DEFINE Goal == Ready /\ \A j \in paid' \ pos.active : j \notin pos'.active
<1>u. UNCHANGED pos => Goal
  BY PosFitsNow DEF Ready
<1>n. pos' = NoPos => Goal
  BY NoPosFits DEF Ready
<1>1. CASE Cashiering
  <2>1. CASE Handlers
    BY <2>1, HandlersRender, RenderStep
  <2>2. CASE OpenPos \/ Proceed \/ ReturnToPos
    BY <1>n, <2>2 DEF OpenPos, Proceed, ReturnToPos, GoPos
  <2>3. CASE ClearCart
    <3>1. pos' = [pos EXCEPT !.confirm = FALSE]
      BY <2>3 DEF ClearCart
    <3> QED
      BY <3>1, PosFitsNow DEF Ready, PosFits, PosShape
  <2>4. CASE OnTheForm
    BY <1>u, <2>4 DEF OnTheForm, ExactCash, Discount, Method, RecordPayment, OnForm
  <2> QED
    BY <1>1, CashieringCases, <2>1, <2>2, <2>3, <2>4
<1>2. CASE Invoicing
  BY <1>2, <1>u, <1>n DEF Invoicing, OpenSales, Void, FilterSales, OpenReceipt, GoTo
<1>3. CASE Answers
  <2>1. ASSUME NEW a \in asked, ApplyRepairs(a) PROVE Goal
    BY <2>1, ApplyPosStep DEF ApplyRepairs
  <2>2. CASE CatalogArrives
    <3>1. UNCHANGED pos \/ \E s : pos' = [pos EXCEPT !.shelf = s]
      BY <2>2 DEF CatalogArrives
    <3> QED
      BY <1>u, <3>1, PosFitsNow DEF Ready, PosFits, PosShape
  <2>3. ASSUME NEW x \in Pay, Commit(x) \/ Answered(x) \/ Patch(x) \/ Finish(x) PROVE UNCHANGED pos
    BY <2>3 DEF Commit, Answered, LogPayment, Patch, Finish, tab
  <2>4. CASE ServeRepairs \/ LoadSales \/ LoadReceipt
    BY <1>u, <2>4 DEF ServeRepairs, LoadSales, LoadReceipt, tab
  <2> QED
    BY <1>3, <1>u, <2>1, <2>2, <2>3, <2>4 DEF Answers, RepairsArrive
<1>4. CASE Faults
  <2>1. ASSUME NEW a \in asked, ApplyRepairs(a) PROVE Goal
    BY <2>1, ApplyPosStep DEF ApplyRepairs
  <2> QED
    BY <1>4, <1>u, <2>1 DEF Faults, Sync, RepairsLost, Reload, Unanswered, LogPayment,
                            Elsewhere, tab
<1>5. CASE UNCHANGED vars
  BY <1>5, <1>u DEF vars, tab
<1> QED
  BY <1>1, <1>2, <1>3, <1>4, <1>5 DEF Next

----------------------------------------------------------------------------
(* The carts.                                                              *)

LEMMA SavedCart ==
  ASSUME NEW sv \in [Job -> Lines], NEW j, NEW c \in Lines
  PROVE  SaveCart(sv, j, c) \in [Job -> Lines]
<1>1. CASE j \in Job
  BY <1>1 DEF SaveCart
<1>2. CASE j \notin Job
  BY <1>2 DEF SaveCart
<1> QED
  BY <1>1, <1>2

LEMMA RestoredType ==
  ASSUME IInv, NEW j \in Job
  PROVE  Restored(j) \in Lines /\ OpenedCart(j) \in Lines /\ Empty \in Lines
<1>1. saved[j] \in [Item -> 0 .. MaxQty] /\ cart \in Lines
  BY DEF IInv, TypeOK, Lines
<1>2. Restored(j) \in Lines
  BY <1>1 DEF Restored, Lines
<1> QED
  BY <1>1, <1>2 DEF OpenedCart, Lines, Empty

LEMMA CartStep ==
  ASSUME IInv, [Next]_vars
  PROVE  cart' \in Lines /\ saved' \in [Job -> Lines]
<1> DEFINE Goal == cart' \in Lines /\ saved' \in [Job -> Lines]
<1>0. cart \in Lines /\ saved \in [Job -> Lines] /\ Empty \in Lines
  BY DEF IInv, TypeOK, Empty, Lines
<1>u. UNCHANGED <<cart, saved>> => Goal
  BY <1>0
<1>a. ASSUME NEW a, ApplyRepairs(a) PROVE Goal
  <2>1. saved' = saved \/ \E j : saved' = SaveCart(saved, j, cart)
    BY <1>a DEF ApplyRepairs
  <2>2. cart' = cart
    BY <1>a DEF ApplyRepairs
  <2> QED
    BY <1>0, <2>1, <2>2, SavedCart
<1>1. CASE Cashiering
  <2>1. CASE Handlers
    <3>1. PICK p, c : Render(p, c) /\ c \in Lines
      BY <2>1, HandlersRender
    <3> QED
      BY <1>0, <3>1, SavedCart DEF Render
  <2>2. CASE OpenPos
    BY <1>u, <2>2 DEF OpenPos, disk
  <2>3. CASE Proceed
    <3>1. pos.selected \in Job
      BY <2>3 DEF Proceed, PayOffered, IInv, TypeOK
    <3> QED
      BY <1>0, <2>3, <3>1, RestoredType DEF Proceed, disk
  <2>4. CASE ReturnToPos
    BY <1>0, <2>4 DEF ReturnToPos, disk
  <2>5. CASE ClearCart
    BY <1>0, <2>5 DEF ClearCart
  <2>6. CASE OnTheForm
    BY <1>u, <2>6 DEF OnTheForm, ExactCash, Discount, Method, RecordPayment, OnForm, disk
  <2> QED
    BY <1>1, CashieringCases, <2>1, <2>2, <2>3, <2>4, <2>5, <2>6
<1>2. CASE Invoicing
  BY <1>2, <1>u DEF Invoicing, OpenSales, Void, FilterSales, OpenReceipt, GoTo, disk
<1>3. CASE Answers
  <2>1. ASSUME NEW x \in Pay, Commit(x) \/ Answered(x) \/ Patch(x) PROVE UNCHANGED <<cart, saved>>
    BY <2>1 DEF Commit, Answered, LogPayment, Patch, tab, disk
  <2>2. ASSUME NEW x \in Pay, Finish(x) PROVE Goal
    BY <1>0, <2>2 DEF Finish
  <2>3. CASE ServeRepairs \/ CatalogArrives \/ LoadSales \/ LoadReceipt
    BY <1>u, <2>3 DEF ServeRepairs, CatalogArrives, LoadSales, LoadReceipt, tab, disk
  <2> QED
    BY <1>3, <1>a, <1>u, <2>1, <2>2, <2>3 DEF Answers, RepairsArrive
<1>4. CASE Faults
  <2>1. CASE Reload
    <3>1. at.job \in Job
      BY <2>1 DEF Reload, IInv, Recorded
    <3> QED
      BY <1>0, <2>1, <3>1, RestoredType DEF Reload, disk
  <2>2. ASSUME NEW x \in Pay, Unanswered(x) PROVE UNCHANGED <<cart, saved>>
    BY <2>2 DEF Unanswered, LogPayment, tab
  <2>3. ASSUME NEW j \in Job, Elsewhere(j) PROVE UNCHANGED <<cart, saved>>
    BY <2>3 DEF Elsewhere, tab
  <2>4. CASE Sync
    BY <1>u, <2>4 DEF Sync, tab, disk
  <2> QED
    BY <1>4, <1>a, <1>u, <2>1, <2>2, <2>3, <2>4 DEF Faults, RepairsLost
<1>5. CASE UNCHANGED vars
  BY <1>5, <1>u DEF vars, tab, disk
<1> QED
  BY <1>1, <1>2, <1>3, <1>4, <1>5 DEF Next

----------------------------------------------------------------------------
(* The pages, and what the browser remembers.                              *)

AtFits(l) ==
  /\ l \in [page : {NoPage, "pos", "checkout", "sales", "receipt"},
            job : Job \cup {NoJob}, cart : BOOLEAN]
  /\ l.page = "checkout" => l.job \in Job

FormFits(f) ==
  /\ DOMAIN f = {"disc", "method", "cash", "pending", "receipt"}
  /\ f.pending \in Pay \cup {0} /\ f.receipt \in Pay \cup {0}

LEMMA PageStep ==
  ASSUME IInv, [Next]_vars
  PROVE  AtFits(at') /\ FormFits(form')
<1> DEFINE Goal == AtFits(at') /\ FormFits(form')
<1>0. AtFits(at) /\ FormFits(form) /\ FormFits(NoForm)
  BY DEF IInv, TypeOK, Recorded, Shapes, AtFits, FormFits, NoForm
<1>u. UNCHANGED <<at, form>> => Goal
  BY <1>0
<1>f. ASSUME UNCHANGED at, form' = form \/ form' = NoForm PROVE Goal
  BY <1>0, <1>f
<1>1. CASE Cashiering
  <2>1. CASE Handlers \/ ClearCart
    BY <1>u, <2>1, HandlersRender DEF Here, ClearCart
  <2>2. CASE OpenPos \/ ReturnToPos
    <3>1. PICK j \in Job \cup {NoJob}, v \in BOOLEAN : GoPos(j, v)
      BY <2>2 DEF OpenPos, ReturnToPos, IInv, TypeOK
    <3> QED
      BY <1>0, <3>1 DEF GoPos, Leave, AtFits
  <2>3. CASE Proceed
    <3>1. pos.selected \in Job
      BY <2>3 DEF Proceed, PayOffered, IInv, TypeOK
    <3> QED
      BY <1>0, <2>3, <3>1 DEF Proceed, Leave, AtFits
  <2>4. CASE OnTheForm
    <3>1. ASSUME NEW x \in Pay, RecordPayment(x) PROVE Goal
      BY <1>0, <3>1 DEF RecordPayment, FormFits
    <3> QED
      BY <1>0, <2>4, <3>1 DEF OnTheForm, ExactCash, Discount, Method, OnForm, FormFits
  <2> QED
    BY <1>1, CashieringCases, <2>1, <2>2, <2>3, <2>4
<1>2. CASE Invoicing
  <2>1. ASSUME NEW p \in {"sales", "receipt"}, GoTo(p) PROVE Goal
    BY <1>0, <2>1 DEF GoTo, Leave, Away, AtFits
  <2> QED
    BY <1>2, <1>u, <2>1 DEF Invoicing, OpenSales, Void, FilterSales, OpenReceipt
<1>3. CASE Answers
  <2>1. ASSUME NEW x \in Pay, Commit(x) \/ Answered(x) \/ Patch(x) PROVE UNCHANGED <<at, form>>
    BY <2>1 DEF Commit, Answered, LogPayment, Patch, tab
  <2>2. ASSUME NEW x \in Pay, Finish(x) PROVE Goal
    BY <1>0, <2>2 DEF Finish, FormFits
  <2>3. CASE ServeRepairs \/ RepairsArrive \/ CatalogArrives \/ LoadSales \/ LoadReceipt
    BY <1>u, <2>3 DEF ServeRepairs, RepairsArrive, ApplyRepairs, CatalogArrives, LoadSales,
                      LoadReceipt, tab
  <2> QED
    BY <1>3, <1>u, <2>1, <2>2, <2>3 DEF Answers
<1>4. CASE Faults
  BY <1>4, <1>f DEF Faults, Sync, RepairsLost, ApplyRepairs, Reload, Unanswered, LogPayment,
                    Elsewhere, tab
<1>5. CASE UNCHANGED vars
  BY <1>5, <1>u DEF vars, tab
<1> QED
  BY <1>1, <1>2, <1>3, <1>4, <1>5 DEF Next

----------------------------------------------------------------------------
(* The payments, the sales and the log.                                    *)

Sale      == [job : Job, lines : Lines, st : Status, by : Pay]
PayShape  == {"st", "job", "lines", "due", "cash", "id", "mounted"}
LogShape  == {"id", "job", "lines", "due", "st"}
PayStates == {"none", "posting", "patching", "patched", "done", "orphan"}

PayFits ==
  /\ DOMAIN pay = Pay
  /\ \A x \in Pay :
       /\ DOMAIN pay[x] = PayShape /\ pay[x].st \in PayStates
       /\ pay[x].job \in Job \cup {NoJob} /\ pay[x].lines \in Lines
       /\ pay[x].id \in Id \cup {0}
       /\ pay[x].st # "none" => pay[x].job \in Job
       /\ pay[x].id > 0 => /\ sales[pay[x].id].by = x
                          /\ sales[pay[x].id].job = pay[x].job
                          /\ sales[pay[x].id].lines = pay[x].lines

LogFits ==
  /\ log \in Seq(Range(log))
  /\ \A k \in DOMAIN log :
       /\ DOMAIN log[k] = LogShape
       /\ log[k].id \in Id /\ log[k].job \in Job
       /\ log[k].lines \in Lines /\ log[k].st \in Status
       /\ log[k].id > 0 => /\ log[k].job = sales[log[k].id].job
                          /\ log[k].lines = sales[log[k].id].lines
       /\ pay[Payer(log[k].id, sales)].id = log[k].id
       /\ pay[Payer(log[k].id, sales)].st \notin {"none", "posting"}

LogOnce == \A k, m \in DOMAIN log : log[k].id = log[m].id => k = m

\* From its entry in the log on, a payment keeps one there.
Logging == {"patching", "patched", "done"}

Traced ==
  /\ \A x \in Pay : pay[x].st \in Logging => \E k \in DOMAIN log : Logs(k, x)
  /\ \A j \in paid : j \in Job /\ \E k \in DOMAIN log : log[k].job = j

Money == sales \in Seq(Sale) /\ PayFits /\ LogFits /\ LogOnce /\ Traced

LEMMA MoneyNow ==
  ASSUME IInv
  PROVE  Money
<1>1. sales \in Seq(Sale)
  BY DEF IInv, TypeOK, Sale
<1>2. PayFits
  BY DEF IInv, TypeOK, Shapes, Recorded, NoPay, PayFits, PayShape, PayStates
<1>3. LogFits
  BY DEF IInv, TypeOK, Shapes, LogAgrees, LogFits, LogShape
<1>4. LogOnce
  BY DEF IInv, LogAgrees, LogOnce
<1>5. Traced
  BY DEF IInv, TypeOK, Recorded, Traced, Logging
<1> QED
  BY <1>1, <1>2, <1>3, <1>4, <1>5 DEF Money

\* The ids of invoices: those of the server are positive.
LEMMA IdSign ==
  ASSUME sales \in Seq(Sale), NEW id \in Id
  PROVE  /\ id \in Int /\ id # 0
         /\ id > 0 => id \in DOMAIN sales /\ id \in 1 .. Len(sales) /\ sales[id].by \in Pay
         /\ ~(id > 0) => -id \in Pay
         /\ Payer(id, sales) \in Pay
<1>1. DOMAIN sales = 1 .. Len(sales) /\ Len(sales) \in Nat
  OBVIOUS
<1>2. \A x \in Pay : x \in Int /\ x > 0
  BY DEF Pay
<1>3. id \in Int /\ id # 0
  BY <1>1, <1>2 DEF Id
<1>4. ASSUME id > 0 PROVE id \in DOMAIN sales /\ id \in 1 .. Len(sales) /\ sales[id].by \in Pay
  <2>1. id \in 1 .. Len(sales)
    BY <1>1, <1>2, <1>4 DEF Id
  <2>2. sales[id] \in Sale
    BY <2>1
  <2> QED
    BY <1>1, <2>1, <2>2 DEF Sale
<1>5. ASSUME ~(id > 0) PROVE -id \in Pay
  BY <1>1, <1>2, <1>5 DEF Id
<1> QED
  BY <1>3, <1>4, <1>5 DEF Payer

\* t is s behind one element more.
Cons(t, e, s) ==
  /\ t \in Seq(Range(t)) /\ 1 \in DOMAIN t /\ t[1] = e
  /\ \A k \in DOMAIN s : k + 1 \in DOMAIN t /\ t[k + 1] = s[k]
  /\ \A k \in DOMAIN t : k # 1 => k - 1 \in DOMAIN s /\ t[k] = s[k - 1]

LEMMA ConsIs ==
  ASSUME NEW s, s \in Seq(Range(s)), NEW e, NEW t, t = <<e>> \o s
  PROVE  Cons(t, e, s)
<1> DEFINE S == Range(s) \cup {e}
<1>1. s \in Seq(S) /\ <<e>> \in Seq(S)
  <2>1. Range(s) \subseteq S /\ e \in S
    OBVIOUS
  <2> HIDE DEF S
  <2> QED
    BY <2>1
<1> HIDE DEF S
<1>2. /\ t \in Seq(S) /\ Len(t) = Len(s) + 1
      /\ \A k \in 1 .. Len(t) : t[k] = IF k = 1 THEN e ELSE s[k - 1]
  BY <1>1
<1>3. /\ DOMAIN s = 1 .. Len(s) /\ Len(s) \in Nat
      /\ DOMAIN t = 1 .. Len(t) /\ Len(t) \in Nat /\ t \in [1 .. Len(t) -> S]
  <2>1. DOMAIN s = 1 .. Len(s) /\ Len(s) \in Nat
    BY <1>1, LenProperties
  <2>2. t \in Seq(S)
    BY <1>2
  <2> QED
    BY <2>1, <2>2, LenProperties
<1>4. t \in [1 .. Len(t) -> Range(t)]
  <2>1. \A k \in 1 .. Len(t) : t[k] \in Range(t)
    BY <1>3 DEF Range
  <2>2. t \in [1 .. Len(t) -> S]
    BY <1>3
  <2> QED
    BY <2>1, <2>2
<1>5. t \in Seq(Range(t))
  <2> DEFINE R == Range(t)
  <2>1. Len(t) \in Nat /\ t \in [1 .. Len(t) -> R]
    BY <1>3, <1>4
  <2> HIDE DEF R
  <2>2. \E n \in Nat : t \in [1 .. n -> R]
    BY <2>1
  <2>3. Seq(R) = UNION {[1 .. n -> R] : n \in Nat}
    BY SeqDef, Zenon
  <2>4. t \in Seq(R)
    BY <2>2, <2>3
  <2> QED
    BY <2>4 DEF R
<1>6. 1 \in DOMAIN t /\ t[1] = e
  BY <1>2, <1>3
<1>7. ASSUME NEW k \in DOMAIN s PROVE k + 1 \in DOMAIN t /\ t[k + 1] = s[k]
  <2>1. k \in Nat /\ k >= 1 /\ k + 1 \in 1 .. Len(t)
    BY <1>2, <1>3
  <2>2. k + 1 # 1 /\ (k + 1) - 1 = k
    BY <2>1
  <2> QED
    BY <1>2, <1>3, <2>1, <2>2
<1>8. ASSUME NEW k \in DOMAIN t, k # 1 PROVE k - 1 \in DOMAIN s /\ t[k] = s[k - 1]
  BY <1>2, <1>3, <1>8
<1> QED
  BY <1>5, <1>6, <1>7, <1>8 DEF Cons

\* Nothing is recorded: at most a page forgets that its handler is there.
Forget ==
  /\ UNCHANGED <<sales, log, paid>> /\ DOMAIN pay' = Pay
  /\ \A x \in Pay : /\ DOMAIN pay'[x] = PayShape /\ pay'[x].st = pay[x].st
                    /\ pay'[x].job = pay[x].job /\ pay'[x].lines = pay[x].lines
                    /\ pay'[x].due = pay[x].due /\ pay'[x].id = pay[x].id

LEMMA ForgetStep ==
  ASSUME Money, Forget
  PROVE  Money'
<1>0. \A k \in DOMAIN log : Payer(log[k].id, sales) \in Pay
  BY IdSign DEF Money, LogFits
<1>i. Id' = Id
  BY DEF Forget, Id
<1>1. PayFits'
  BY <1>i DEF Money, Forget, PayFits
<1>2. LogFits'
  BY <1>0, <1>i DEF Money, Forget, LogFits
<1>3. LogOnce'
  BY DEF Money, Forget, LogOnce
<1>4. Traced'
  BY DEF Money, Forget, Traced, Logs
<1> QED
  BY <1>1, <1>2, <1>3, <1>4 DEF Money, Forget

\* One payment gets another state, and keeps its job, its lines and its amount.
LEMMA AdvanceShape ==
  ASSUME Money, NEW x \in Pay, NEW st \in PayStates, NEW id,
         pay' = [pay EXCEPT ![x].st = st, ![x].id = id]
  PROVE  /\ DOMAIN pay' = Pay /\ \A y \in Pay : y # x => pay'[y] = pay[y]
         /\ DOMAIN pay'[x] = PayShape /\ pay'[x].st = st /\ pay'[x].id = id
         /\ pay'[x].job = pay[x].job /\ pay'[x].lines = pay[x].lines
         /\ pay'[x].due = pay[x].due
<1>1. DOMAIN pay = Pay /\ DOMAIN pay[x] = PayShape
  BY DEF Money, PayFits
<1> QED
  BY <1>1 DEF PayShape

\* A payment is started, with nothing recorded yet.
LEMMA StartStep ==
  ASSUME Money, NEW x \in Pay, pay[x].st = "none", NEW e,
         UNCHANGED <<sales, log, paid>>, pay' = [pay EXCEPT ![x] = e],
         DOMAIN e = PayShape, e.st = "posting", e.job \in Job, e.lines \in Lines, e.id = 0
  PROVE  Money'
<1>i. Id' = Id
  BY DEF Id
<1>0. /\ DOMAIN pay' = Pay /\ pay'[x] = e /\ \A y \in Pay : y # x => pay'[y] = pay[y]
  BY DEF Money, PayFits
<1>1. PayFits'
  BY <1>i, <1>0 DEF Money, PayFits, PayStates
<1>2. LogFits'
  <2>1. \A k \in DOMAIN log : Payer(log[k].id, sales) \in Pay /\ Payer(log[k].id, sales) # x
    BY IdSign DEF Money, LogFits
  <2> QED
    BY <1>i, <1>0, <2>1 DEF Money, LogFits
<1>3. LogOnce'
  BY DEF Money, LogOnce
<1>4. Traced'
  BY <1>0 DEF Money, Traced, Logs, Logging
<1> QED
  BY <1>1, <1>2, <1>3, <1>4 DEF Money

\* The server commits a sale: the earlier ones stay what they are.
LEMMA CommitStep ==
  ASSUME Money, NEW x \in Pay, Commit(x)
  PROVE  Money'
<1> DEFINE s == [job |-> pay[x].job, lines |-> pay[x].lines, st |-> "COMPLETED", by |-> x]
<1>0. /\ sales' = Append(sales, s)
      /\ pay' = [pay EXCEPT ![x].id = IF @ = 0 THEN Len(sales) + 1 ELSE @]
      /\ pay[x].st # "none" /\ UNCHANGED <<log, paid>>
  BY DEF Commit, disk
<1>p. DOMAIN pay = Pay /\ DOMAIN pay[x] = PayShape
  BY DEF Money, PayFits
<1>a. /\ DOMAIN pay' = Pay /\ \A y \in Pay : y # x => pay'[y] = pay[y]
      /\ DOMAIN pay'[x] = PayShape /\ pay'[x].st = pay[x].st
      /\ pay'[x].id = IF pay[x].id = 0 THEN Len(sales) + 1 ELSE pay[x].id
      /\ pay'[x].job = pay[x].job /\ pay'[x].lines = pay[x].lines
      /\ pay'[x].due = pay[x].due
  BY <1>0, <1>p DEF PayShape
<1>b. s \in Sale /\ s.by = x /\ s.job = pay[x].job /\ s.lines = pay[x].lines
  BY <1>0 DEF Money, PayFits, Sale, Status
<1> HIDE DEF s
<1>c. sales \in Seq(Sale)
  BY DEF Money
<1>d. /\ sales' \in Seq(Sale) /\ Len(sales) \in Nat
      /\ DOMAIN sales = 1 .. Len(sales) /\ DOMAIN sales' = 1 .. Len(sales) + 1
      /\ sales'[Len(sales) + 1] = s
      /\ \A n \in DOMAIN sales : sales'[n] = sales[n]
  BY <1>0, <1>b, <1>c
<1>i. Id \subseteq Id' /\ Len(sales) + 1 \in Id'
  BY <1>d DEF Id
<1>e. \A id \in Id : id > 0 => sales'[id] = sales[id]
  BY <1>c, <1>d, IdSign
<1>1. PayFits'
  <2>1. \A y \in Pay : pay[y].id > 0 => pay[y].id \in Id
    BY DEF Money, PayFits
  <2>2. ASSUME NEW y \in Pay
        PROVE  /\ DOMAIN pay'[y] = PayShape /\ pay'[y].st \in PayStates
               /\ pay'[y].job \in Job \cup {NoJob} /\ pay'[y].lines \in Lines
               /\ pay'[y].id \in Id' \cup {0}
               /\ pay'[y].st # "none" => pay'[y].job \in Job
               /\ pay'[y].id > 0 => /\ sales'[pay'[y].id].by = y
                                   /\ sales'[pay'[y].id].job = pay'[y].job
                                   /\ sales'[pay'[y].id].lines = pay'[y].lines
    <3>1. CASE y = x /\ pay[x].id = 0
      BY <1>a, <1>b, <1>d, <1>i, <3>1 DEF Money, PayFits
    <3>2. CASE y = x /\ pay[x].id # 0
      <4>1. /\ pay'[x].id = pay[x].id /\ pay[x].id \in Id
            /\ pay[x].id > 0 => sales'[pay[x].id] = sales[pay[x].id]
        BY <1>a, <1>e, <3>2 DEF Money, PayFits
      <4> QED
        BY <1>a, <1>i, <3>2, <4>1 DEF Money, PayFits
    <3>3. CASE y # x
      BY <1>a, <1>e, <1>i, <2>1, <3>3 DEF Money, PayFits
    <3> QED
      BY <3>1, <3>2, <3>3
  <2> QED
    BY <1>a, <2>2 DEF PayFits
<1>2. LogFits'
  <2>1. ASSUME NEW k \in DOMAIN log
        PROVE  /\ Payer(log[k].id, sales) \in Pay
               /\ pay'[Payer(log[k].id, sales)].id = log[k].id
               /\ pay'[Payer(log[k].id, sales)].st = pay[Payer(log[k].id, sales)].st
               /\ log[k].id > 0 => sales'[log[k].id] = sales[log[k].id]
               /\ Payer(log[k].id, sales') = Payer(log[k].id, sales)
    <3>1. log[k].id \in Id /\ log[k].id # 0 /\ pay[Payer(log[k].id, sales)].id = log[k].id
          /\ Payer(log[k].id, sales) \in Pay
      BY IdSign DEF Money, LogFits
    <3>2. /\ pay'[Payer(log[k].id, sales)].id = log[k].id
          /\ pay'[Payer(log[k].id, sales)].st = pay[Payer(log[k].id, sales)].st
      BY <1>a, <3>1
    <3>3. log[k].id > 0 => sales'[log[k].id] = sales[log[k].id]
      BY <1>e, <3>1
    <3> QED
      BY <1>0, <3>1, <3>2, <3>3 DEF Payer
  <2>2. ASSUME NEW k \in DOMAIN log
        PROVE  /\ DOMAIN log[k] = LogShape
               /\ log[k].id \in Id' /\ log[k].job \in Job
               /\ log[k].lines \in Lines /\ log[k].st \in Status
               /\ log[k].id > 0 => /\ log[k].job = sales'[log[k].id].job
                                  /\ log[k].lines = sales'[log[k].id].lines
               /\ pay'[Payer(log[k].id, sales)].id = log[k].id
               /\ pay'[Payer(log[k].id, sales)].st \notin {"none", "posting"}
    BY <1>a, <1>i, <2>1 DEF Money, LogFits
  <2>3. log' = log /\ log' \in Seq(Range(log'))
    BY <1>0 DEF Money, LogFits
  <2>4. \A k \in DOMAIN log' : Payer(log'[k].id, sales') = Payer(log[k].id, sales)
    BY <2>1, <2>3
  <2>5. ASSUME NEW k \in DOMAIN log'
        PROVE  /\ pay'[Payer(log'[k].id, sales')].id = log'[k].id
               /\ pay'[Payer(log'[k].id, sales')].st \notin {"none", "posting"}
    BY <2>2, <2>3, <2>4
  <2> QED
    BY <2>2, <2>3, <2>5 DEF LogFits
<1>3. LogOnce'
  BY <1>0 DEF Money, LogOnce
<1>4. Traced'
  <2>1. ASSUME NEW y \in Pay, pay'[y].st \in Logging
        PROVE  \E k \in DOMAIN log' : Logs(k, y)'
    <3>1. PICK k \in DOMAIN log : Logs(k, y)
      BY <1>a, <2>1 DEF Money, Traced
    <3>2. log[k].id # 0
      BY IdSign DEF Money, LogFits
    <3>3. pay'[y].id = pay[y].id /\ pay'[y].due = pay[y].due /\ pay'[y].job = pay[y].job
      BY <1>a, <3>1, <3>2 DEF Logs
    <3> QED
      BY <1>0, <3>1, <3>3 DEF Logs
  <2> QED
    BY <1>0, <2>1 DEF Money, Traced
<1> QED
  BY <1>1, <1>2, <1>3, <1>4, <1>d DEF Money

\* A payment enters the log, once, under its id.
LEMMA LogStep ==
  ASSUME Money, NEW x \in Pay, NEW id, pay[x].st = "posting", LogPayment(x, id),
         (id = pay[x].id /\ id > 0) \/ id = -x
  PROVE  Money'
<1> DEFINE e == [id |-> id, job |-> pay[x].job, lines |-> pay[x].lines,
                 due |-> pay[x].due, st |-> "COMPLETED"]
<1>0. /\ log' = <<e>> \o log /\ UNCHANGED <<sales, paid>>
      /\ pay' = [pay EXCEPT ![x].st = "patching", ![x].id = id]
  BY DEF LogPayment, server
<1>x. pay[x].job \in Job /\ pay[x].lines \in Lines /\ x \in Int /\ x > 0
      /\ (pay[x].id > 0 => pay[x].id \in Id)
  BY DEF Money, PayFits, Pay
<1>e. /\ DOMAIN e = LogShape /\ e.id = id /\ e.job = pay[x].job /\ e.lines = pay[x].lines
      /\ e.due = pay[x].due /\ e.st \in Status
  BY DEF LogShape, Status
<1> HIDE DEF e
<1>i. Id' = Id /\ id \in Id
  BY <1>0, <1>x DEF Id
<1>a. /\ DOMAIN pay' = Pay /\ \A y \in Pay : y # x => pay'[y] = pay[y]
      /\ DOMAIN pay'[x] = PayShape /\ pay'[x].st = "patching" /\ pay'[x].id = id
      /\ pay'[x].job = pay[x].job /\ pay'[x].lines = pay[x].lines
      /\ pay'[x].due = pay[x].due
  BY <1>0, AdvanceShape DEF PayStates
<1>l. /\ log' \in Seq(Range(log')) /\ 1 \in DOMAIN log' /\ log'[1] = e
      /\ \A k \in DOMAIN log : k + 1 \in DOMAIN log' /\ log'[k + 1] = log[k]
      /\ \A k \in DOMAIN log' : k # 1 => k - 1 \in DOMAIN log /\ log'[k] = log[k - 1]
  <2>1. log \in Seq(Range(log)) /\ log' = <<e>> \o log
    BY <1>0 DEF Money, LogFits
  <2>2. Cons(log', e, log)
    BY <2>1, ConsIs
  <2> QED
    BY <2>2 DEF Cons
<1>s. id > 0 => /\ sales[id].by = x /\ sales[id].job = pay[x].job
                /\ sales[id].lines = pay[x].lines
  BY <1>x DEF Money, PayFits
<1>p. Payer(id, sales) = x
  BY <1>x, <1>s DEF Payer
<1>k. ASSUME NEW k \in DOMAIN log
      PROVE  /\ Payer(log[k].id, sales) \in Pay /\ Payer(log[k].id, sales) # x /\ log[k].id # id
  <2>1. log[k].id \in Id /\ Payer(log[k].id, sales) \in Pay
    BY IdSign DEF Money, LogFits
  <2>2. Payer(log[k].id, sales) # x
    BY DEF Money, LogFits
  <2> QED
    BY <1>p, <2>1, <2>2
<1>1. PayFits'
  BY <1>0, <1>a, <1>i, <1>s, <1>x DEF Money, PayFits, PayStates
<1>2. LogFits'
  <2>1. ASSUME NEW k \in DOMAIN log'
        PROVE  /\ DOMAIN log'[k] = LogShape
               /\ log'[k].id \in Id /\ log'[k].job \in Job
               /\ log'[k].lines \in Lines /\ log'[k].st \in Status
               /\ log'[k].id > 0 => /\ log'[k].job = sales[log'[k].id].job
                                   /\ log'[k].lines = sales[log'[k].id].lines
               /\ pay'[Payer(log'[k].id, sales)].id = log'[k].id
               /\ pay'[Payer(log'[k].id, sales)].st \notin {"none", "posting"}
    <3>1. CASE k = 1
      BY <1>a, <1>e, <1>i, <1>l, <1>p, <1>s, <1>x, <3>1
    <3>2. CASE k # 1
      <4>1. k - 1 \in DOMAIN log /\ log'[k] = log[k - 1]
        BY <1>l, <3>2
      <4>2. Payer(log[k - 1].id, sales) \in Pay /\ Payer(log[k - 1].id, sales) # x
        BY <1>k, <4>1
      <4>3. pay'[Payer(log[k - 1].id, sales)] = pay[Payer(log[k - 1].id, sales)]
        BY <1>a, <4>2
      <4> QED
        BY <4>1, <4>3 DEF Money, LogFits
    <3> QED
      BY <3>1, <3>2
  <2>2. log' \in Seq(Range(log')) /\ Id' = Id /\ sales' = sales
    BY <1>0, <1>i, <1>l
  <2> QED
    BY <2>1, <2>2 DEF LogFits
<1>3. LogOnce'
  <2> SUFFICES ASSUME NEW k \in DOMAIN log', NEW m \in DOMAIN log', log'[k].id = log'[m].id
               PROVE  k = m
    BY DEF LogOnce
  <2>0. \A n \in DOMAIN log' : n \in Int
    BY <1>l, LenProperties
  <2>1. CASE k = 1 \/ m = 1
    BY <1>e, <1>k, <1>l, <2>1
  <2>2. CASE k # 1 /\ m # 1
    <3>1. /\ k - 1 \in DOMAIN log /\ log'[k] = log[k - 1]
          /\ m - 1 \in DOMAIN log /\ log'[m] = log[m - 1]
      BY <1>l, <2>2
    <3>2. k - 1 = m - 1
      BY <3>1 DEF Money, LogOnce
    <3> QED
      BY <2>0, <3>2
  <2> QED
    BY <2>1, <2>2
<1>4. Traced'
  <2>1. ASSUME NEW y \in Pay, pay'[y].st \in Logging
        PROVE  \E k \in DOMAIN log' : Logs(k, y)'
    <3>1. CASE y = x
      BY <1>a, <1>e, <1>l, <3>1 DEF Logs
    <3>2. CASE y # x
      <4>1. PICK k \in DOMAIN log : Logs(k, y)
        BY <1>a, <2>1, <3>2 DEF Money, Traced
      <4>2. k + 1 \in DOMAIN log' /\ log'[k + 1] = log[k] /\ pay'[y] = pay[y]
        BY <1>a, <1>l, <3>2
      <4> QED
        BY <4>1, <4>2 DEF Logs
    <3> QED
      BY <3>1, <3>2
  <2>2. ASSUME NEW j \in paid PROVE j \in Job /\ \E k \in DOMAIN log' : log'[k].job = j
    <3>1. PICK k \in DOMAIN log : log[k].job = j
      BY DEF Money, Traced
    <3> QED
      BY <1>l, <3>1 DEF Money, Traced
  <2> QED
    BY <1>0, <2>1, <2>2 DEF Traced
<1> QED
  BY <1>0, <1>1, <1>2, <1>3, <1>4 DEF Money

\* The PATCH writes no sale and no entry.
LEMMA PatchStep ==
  ASSUME Money, NEW x \in Pay, Patch(x)
  PROVE  Money'
<1>0. /\ pay[x].st = "patching" /\ UNCHANGED <<sales, log, paid>>
      /\ pay' = [pay EXCEPT ![x].st = "patched"]
  BY DEF Patch, disk
<1>p. DOMAIN pay = Pay /\ DOMAIN pay[x] = PayShape
  BY DEF Money, PayFits
<1>a. /\ DOMAIN pay' = Pay /\ \A y \in Pay : y # x => pay'[y] = pay[y]
      /\ DOMAIN pay'[x] = PayShape /\ pay'[x].st = "patched" /\ pay'[x].id = pay[x].id
      /\ pay'[x].job = pay[x].job /\ pay'[x].lines = pay[x].lines
      /\ pay'[x].due = pay[x].due
  BY <1>0, <1>p DEF PayShape
<1>i. Id' = Id
  BY <1>0 DEF Id
<1>1. PayFits'
  BY <1>0, <1>a, <1>i DEF Money, PayFits, PayStates
<1>2. LogFits'
  <2>1. \A k \in DOMAIN log : Payer(log[k].id, sales) \in Pay
    BY IdSign DEF Money, LogFits
  <2>2. \A y \in Pay : /\ pay'[y].id = pay[y].id
                       /\ pay[y].st \notin {"none", "posting"} =>
                            pay'[y].st \notin {"none", "posting"}
    BY <1>a
  <2> QED
    BY <1>0, <1>i, <2>1, <2>2 DEF Money, LogFits
<1>3. LogOnce'
  BY <1>0 DEF Money, LogOnce
<1>4. Traced'
  <2>1. ASSUME NEW y \in Pay, pay'[y].st \in Logging
        PROVE  \E k \in DOMAIN log : Logs(k, y) /\ Logs(k, y)'
    <3>1. PICK k \in DOMAIN log : Logs(k, y)
      BY <1>0, <1>a, <2>1 DEF Money, Traced, Logging
    <3> QED
      BY <1>0, <1>a, <3>1 DEF Logs
  <2> QED
    BY <1>0, <2>1 DEF Money, Traced
<1> QED
  BY <1>0, <1>1, <1>2, <1>3, <1>4 DEF Money

\* The rest of the handler marks the job, whose payment is in the log.
LEMMA FinishStep ==
  ASSUME Money, NEW x \in Pay, Finish(x)
  PROVE  Money'
<1>0. /\ pay[x].st \in {"patching", "patched"} /\ UNCHANGED <<sales, log>>
      /\ paid' = paid \cup {pay[x].job} /\ pay' = [pay EXCEPT ![x].st = "done"]
  BY DEF Finish, server
<1>p. DOMAIN pay = Pay /\ DOMAIN pay[x] = PayShape
  BY DEF Money, PayFits
<1>a. /\ DOMAIN pay' = Pay /\ \A y \in Pay : y # x => pay'[y] = pay[y]
      /\ DOMAIN pay'[x] = PayShape /\ pay'[x].st = "done" /\ pay'[x].id = pay[x].id
      /\ pay'[x].job = pay[x].job /\ pay'[x].lines = pay[x].lines
      /\ pay'[x].due = pay[x].due
  BY <1>0, <1>p DEF PayShape
<1>i. Id' = Id
  BY <1>0 DEF Id
<1>1. PayFits'
  BY <1>0, <1>a, <1>i DEF Money, PayFits, PayStates
<1>2. LogFits'
  <2>1. \A k \in DOMAIN log : Payer(log[k].id, sales) \in Pay
    BY IdSign DEF Money, LogFits
  <2>2. \A y \in Pay : /\ pay'[y].id = pay[y].id
                       /\ pay[y].st \notin {"none", "posting"} =>
                            pay'[y].st \notin {"none", "posting"}
    BY <1>a
  <2> QED
    BY <1>0, <1>i, <2>1, <2>2 DEF Money, LogFits
<1>3. LogOnce'
  BY <1>0 DEF Money, LogOnce
<1>4. Traced'
  <2>1. ASSUME NEW y \in Pay, pay'[y].st \in Logging
        PROVE  \E k \in DOMAIN log : Logs(k, y) /\ Logs(k, y)'
    <3>1. PICK k \in DOMAIN log : Logs(k, y)
      BY <1>0, <1>a, <2>1 DEF Money, Traced, Logging
    <3> QED
      BY <1>0, <1>a, <3>1 DEF Logs
  <2>2. pay[x].job \in Job /\ \E k \in DOMAIN log : log[k].job = pay[x].job
    BY <1>0 DEF Money, Traced, PayFits, Logs, Logging
  <2>3. \A j \in paid' : j \in Job /\ \E k \in DOMAIN log : log[k].job = j
    BY <1>0, <2>2 DEF Money, Traced
  <2> QED
    BY <1>0, <2>1, <2>3 DEF Traced
<1> QED
  BY <1>0, <1>1, <1>2, <1>3, <1>4 DEF Money

\* A reload kills the handlers; what they have recorded stays.
LEMMA ReloadStep ==
  ASSUME Money, Reload
  PROVE  Money'
<1>0. /\ UNCHANGED <<sales, log, paid>>
      /\ pay' = [x \in Pay |-> IF pay[x].st \in {"posting", "patching", "patched"}
                               THEN [pay[x] EXCEPT !.st = "orphan", !.mounted = FALSE]
                               ELSE [pay[x] EXCEPT !.mounted = FALSE]]
  BY DEF Reload, server, disk
<1>a. ASSUME NEW x \in Pay
      PROVE  /\ DOMAIN pay'[x] = PayShape /\ pay'[x].id = pay[x].id
             /\ pay'[x].st = IF pay[x].st \in {"posting", "patching", "patched"} THEN "orphan" ELSE pay[x].st
             /\ pay'[x].job = pay[x].job /\ pay'[x].lines = pay[x].lines
             /\ pay'[x].due = pay[x].due
  <2>1. DOMAIN pay[x] = PayShape
    BY DEF Money, PayFits
  <2> QED
    BY <1>0, <2>1 DEF PayShape
<1>d. DOMAIN pay' = Pay
  BY <1>0
<1>u. sales' = sales /\ log' = log /\ paid' = paid
  BY <1>0
<1>i. Id' = Id
  BY <1>u DEF Id
<1>1. PayFits'
  BY <1>u, <1>a, <1>d, <1>i DEF Money, PayFits, PayStates
<1>2. LogFits'
  <2>1. \A k \in DOMAIN log : Payer(log[k].id, sales) \in Pay
    BY IdSign DEF Money, LogFits
  <2>2. \A y \in Pay : /\ pay'[y].id = pay[y].id
                       /\ pay[y].st \notin {"none", "posting"} =>
                            pay'[y].st \notin {"none", "posting"}
    BY <1>a
  <2> QED
    BY <1>u, <1>i, <2>1, <2>2 DEF Money, LogFits
<1>3. LogOnce'
  BY <1>u DEF Money, LogOnce
<1>4. Traced'
  BY <1>u, <1>a DEF Money, Traced, Logs, Logging
<1> QED
  BY <1>u, <1>1, <1>2, <1>3, <1>4 DEF Money

\* The log says VOIDED of an invoice, and nothing else that is new.
LEMMA VoidStep ==
  ASSUME Money, Void
  PROVE  Money'
<1>0. UNCHANGED <<sales, pay, paid>> /\ log' = VoidLogged
  BY DEF Void, server
<1>a. /\ DOMAIN log' = DOMAIN log
      /\ \A k \in DOMAIN log :
           /\ DOMAIN log'[k] = LogShape /\ log'[k].id = log[k].id /\ log'[k].job = log[k].job
           /\ log'[k].lines = log[k].lines /\ log'[k].due = log[k].due /\ log'[k].st \in Status
  <2>1. \A k \in DOMAIN log : DOMAIN log[k] = LogShape /\ log[k].st \in Status
    BY DEF Money, LogFits
  <2> QED
    BY <1>0, <2>1 DEF VoidLogged, LogShape, Status
<1>l. log' \in Seq(Range(log'))
  <2>1. log \in Seq(Range(log))
    BY DEF Money, LogFits
  <2>2. DOMAIN log' = 1 .. Len(log) /\ Len(log) \in Nat
    BY <1>a, <2>1, LenProperties
  <2>3. log' = [k \in 1 .. Len(log) |-> log'[k]]
    BY <1>0, <1>a, <2>2 DEF VoidLogged
  <2>4. \A k \in 1 .. Len(log) : log'[k] \in Range(log')
    BY <2>2 DEF Range
  <2>5. log' \in [1 .. Len(log) -> Range(log')]
    BY <2>3, <2>4
  <2> QED
    BY <2>2, <2>5, SeqDef
<1>i. Id' = Id
  BY <1>0 DEF Id
<1>1. PayFits'
  BY <1>0, <1>i DEF Money, PayFits
<1>2. LogFits'
  BY <1>0, <1>a, <1>i, <1>l DEF Money, LogFits
<1>3. LogOnce'
  BY <1>a DEF Money, LogOnce
<1>4. Traced'
  BY <1>0, <1>a DEF Money, Traced, Logs
<1> QED
  BY <1>0, <1>1, <1>2, <1>3, <1>4 DEF Money

LEMMA NotMounted ==
  ASSUME Money, UNCHANGED <<sales, log, paid>>,
         pay' = pay \/ pay' = [x \in Pay |-> [pay[x] EXCEPT !.mounted = FALSE]]
  PROVE  Forget
<1>1. DOMAIN pay = Pay /\ \A x \in Pay : DOMAIN pay[x] = PayShape
  BY DEF Money, PayFits
<1> QED
  BY <1>1 DEF Forget, PayShape

LEMMA MoneyStep ==
  ASSUME IInv, [Next]_vars
  PROVE  Money'
<1>0. Money
  BY MoneyNow
<1>n. ASSUME UNCHANGED <<sales, log, paid>>,
             pay' = pay \/ pay' = [x \in Pay |-> [pay[x] EXCEPT !.mounted = FALSE]]
      PROVE  Money'
  BY <1>0, <1>n, NotMounted, ForgetStep
<1>1. CASE Cashiering
  <2>1. CASE Handlers \/ ClearCart
    <3>1. Here
      BY <2>1, HandlersRender DEF ClearCart
    <3> QED
      BY <1>n, <3>1 DEF Here, server
  <2>2. CASE OpenPos \/ ReturnToPos
    BY <1>n, <2>2 DEF OpenPos, ReturnToPos, GoPos, Leave, server, disk
  <2>3. CASE Proceed
    BY <1>n, <2>3 DEF Proceed, Leave, server, disk
  <2>4. CASE OnTheForm
    <3>1. ASSUME NEW x \in Pay, RecordPayment(x) PROVE Money'
      <4> DEFINE e == [NoPay EXCEPT !.st = "posting", !.job = at.job, !.lines = cart,
                                    !.due = Due, !.cash = Received, !.mounted = TRUE]
      <4>1. /\ DOMAIN e = PayShape /\ e.st = "posting" /\ e.job = at.job
            /\ e.lines = cart /\ e.id = 0
        BY DEF NoPay, PayShape
      <4>2. /\ UNCHANGED <<sales, log, paid>> /\ pay' = [pay EXCEPT ![x] = e]
            /\ pay[x].st = "none"
        BY <3>1 DEF RecordPayment, NoPay, server, disk
      <4>3. at.job \in Job /\ cart \in Lines
        BY <3>1 DEF RecordPayment, RecordOffered, OrderShown, IInv, Recorded, TypeOK
      <4> HIDE DEF e
      <4> QED
        BY <1>0, <4>1, <4>2, <4>3, StartStep
    <3> QED
      BY <1>n, <2>4, <3>1 DEF OnTheForm, ExactCash, Discount, Method, OnForm, server, disk
  <2> QED
    BY <1>1, CashieringCases, <2>1, <2>2, <2>3, <2>4
<1>2. CASE Invoicing
  BY <1>2, <1>0, <1>n, VoidStep DEF Invoicing, OpenSales, FilterSales, OpenReceipt, GoTo, Leave,
                                    server, disk
<1>a. ASSUME NEW a, ApplyRepairs(a) PROVE Money'
  <2>1. UNCHANGED <<sales, log, paid, pay>>
    BY <1>a DEF ApplyRepairs, server
  <2> QED
    BY <1>n, <2>1
<1>3. CASE Answers
  <2>1. ASSUME NEW x \in Pay, Answered(x) PROVE Money'
    BY <1>0, <2>1, LogStep DEF Answered
  <2>2. CASE ServeRepairs \/ CatalogArrives \/ LoadSales \/ LoadReceipt
    BY <1>n, <2>2 DEF ServeRepairs, CatalogArrives, LoadSales, LoadReceipt, server, disk
  <2> QED
    BY <1>3, <1>0, <1>a, <2>1, <2>2, CommitStep, PatchStep, FinishStep DEF Answers, RepairsArrive
<1>4. CASE Faults
  <2>1. ASSUME NEW x \in Pay, Unanswered(x) PROVE Money'
    BY <1>0, <2>1, LogStep DEF Unanswered
  <2>2. ASSUME NEW j \in Job, Elsewhere(j) PROVE Money'
    BY <1>n, <2>2 DEF Elsewhere
  <2>3. CASE Sync
    BY <1>n, <2>3 DEF Sync, server, disk
  <2> QED
    BY <1>4, <1>0, <1>a, <2>1, <2>2, <2>3, ReloadStep DEF Faults, RepairsLost
<1>5. CASE UNCHANGED vars
  BY <1>5, <1>n DEF vars, server, disk
<1> QED
  BY <1>1, <1>2, <1>3, <1>4, <1>5 DEF Next

\* The receipt on the screen is that of a payment that is done.
LEMMA ReceiptStep ==
  ASSUME IInv, [Next]_vars, form'.receipt # 0
  PROVE  pay'[form'.receipt].st = "done"
<1> DEFINE Goal == form'.receipt # 0 => pay'[form'.receipt].st = "done"
<1>0. /\ DOMAIN form = {"disc", "method", "cash", "pending", "receipt"}
      /\ form.receipt \in Pay \cup {0} /\ \A x \in Pay : x # 0
      /\ form.receipt # 0 => pay[form.receipt].st = "done"
      /\ NoForm.receipt = 0
  BY DEF IInv, TypeOK, Shapes, Recorded, NoForm, Pay
<1>m. DOMAIN pay = Pay /\ \A x \in Pay : DOMAIN pay[x] = PayShape
  BY MoneyNow DEF Money, PayFits
<1>n. form' = NoForm => Goal
  BY <1>0
<1>k. ASSUME form'.receipt = form.receipt, \A x \in Pay : pay[x].st = "done" => pay'[x].st = "done"
      PROVE  Goal
  BY <1>0, <1>k
<1>u. ASSUME UNCHANGED <<form, pay>> PROVE Goal
  BY <1>0, <1>u
<1>1. CASE Cashiering
  <2>1. CASE Handlers \/ ClearCart
    BY <1>u, <2>1, HandlersRender DEF ClearCart, Here
  <2>2. CASE OpenPos \/ ReturnToPos \/ Proceed
    BY <1>n, <2>2 DEF OpenPos, ReturnToPos, GoPos, Proceed
  <2>3. CASE OnTheForm
    <3>1. ASSUME NEW x \in Pay, RecordPayment(x) PROVE Goal
      <4>1. /\ pay[x].st = "none" /\ \A y \in Pay : y # x => pay'[y] = pay[y]
        BY <1>m, <3>1 DEF RecordPayment, NoPay
      <4>2. form'.receipt = form.receipt
        BY <1>0, <3>1 DEF RecordPayment
      <4> QED
        BY <1>k, <4>1, <4>2
    <3>2. ASSUME NEW d \in {0, 50}, Discount(d) PROVE Goal
      BY <1>0, <1>k, <3>2 DEF Discount, OnForm
    <3>3. ASSUME NEW m \in {"CASH", "CARD"}, Method(m) PROVE Goal
      BY <1>0, <1>k, <3>3 DEF Method, OnForm
    <3>4. CASE ExactCash
      BY <1>0, <1>k, <3>4 DEF ExactCash, OnForm
    <3> QED
      BY <2>3, <3>1, <3>2, <3>3, <3>4 DEF OnTheForm
  <2> QED
    BY <1>1, CashieringCases, <2>1, <2>2, <2>3
<1>2. CASE Invoicing
  <2>1. ASSUME NEW p, GoTo(p) PROVE form' = NoForm
    BY <2>1 DEF GoTo
  <2>2. Void \/ (\E f \in Status \cup {"ALL"} : FilterSales(f)) => UNCHANGED <<form, pay>>
    BY DEF Void, FilterSales
  <2> QED
    BY <1>2, <1>n, <1>u, <2>1, <2>2 DEF Invoicing, OpenSales, OpenReceipt
<1>a. ASSUME NEW a, ApplyRepairs(a) PROVE UNCHANGED <<form, pay>>
  BY <1>a DEF ApplyRepairs
<1>l. ASSUME NEW x \in Pay, NEW st, NEW id, UNCHANGED form, pay[x].st # "done",
             \A y \in Pay : y # x => pay'[y] = pay[y]
      PROVE  Goal
  BY <1>k, <1>l
<1>3. CASE Answers
  <2>0. ASSUME NEW x \in Pay, Commit(x) PROVE Goal
    <3>1. form' = form /\ pay' = [pay EXCEPT ![x].id = IF @ = 0 THEN Len(sales) + 1 ELSE @]
      BY <2>0 DEF Commit, tab
    <3>2. \A y \in Pay : pay'[y].st = pay[y].st
      BY <1>m, <3>1 DEF PayShape
    <3> QED
      BY <1>0, <3>1, <3>2
  <2>1. ASSUME NEW x \in Pay, Patch(x) \/ Answered(x) PROVE Goal
    <3>1. pay[x].st # "done" /\ form' = form
      BY <2>1 DEF Patch, Answered, LogPayment, tab
    <3>2. \A y \in Pay : y # x => pay'[y] = pay[y]
      BY <1>m, <2>1 DEF Patch, Answered, LogPayment
    <3> QED
      BY <1>l, <3>1, <3>2
  <2>2. ASSUME NEW x \in Pay, Finish(x) PROVE Goal
    <3>1. pay' = [pay EXCEPT ![x].st = "done"] /\ form' \in {form, [form EXCEPT !.receipt = x]}
      BY <2>2 DEF Finish
    <3>2. pay'[x].st = "done" /\ \A y \in Pay : y # x => pay'[y] = pay[y]
      BY <1>m, <3>1 DEF PayShape
    <3>3. form'.receipt \in {form.receipt, x}
      BY <1>0, <3>1
    <3> QED
      BY <1>0, <3>2, <3>3
  <2>3. CASE ServeRepairs \/ CatalogArrives \/ LoadSales \/ LoadReceipt
    BY <1>u, <2>3 DEF ServeRepairs, CatalogArrives, LoadSales, LoadReceipt, tab
  <2> QED
    BY <1>3, <1>a, <1>u, <2>0, <2>1, <2>2, <2>3 DEF Answers, RepairsArrive
<1>4. CASE Faults
  <2>1. ASSUME NEW x \in Pay, Unanswered(x) PROVE Goal
    <3>1. pay[x].st # "done" /\ form' = form
      BY <2>1 DEF Unanswered, LogPayment, tab
    <3>2. \A y \in Pay : y # x => pay'[y] = pay[y]
      BY <1>m, <2>1 DEF Unanswered, LogPayment
    <3> QED
      BY <1>l, <3>1, <3>2
  <2>2. Reload => form' = NoForm
    BY DEF Reload
  <2>3. ASSUME NEW j \in Job, Elsewhere(j) PROVE UNCHANGED <<form, pay>>
    BY <2>3 DEF Elsewhere, tab
  <2>4. Sync => UNCHANGED <<form, pay>>
    BY DEF Sync, tab
  <2> QED
    BY <1>4, <1>a, <1>n, <1>u, <2>1, <2>2, <2>3, <2>4 DEF Faults, RepairsLost
<1>5. CASE UNCHANGED vars
  BY <1>5, <1>u DEF vars, tab
<1> QED
  BY <1>1, <1>2, <1>3, <1>4, <1>5 DEF Next

----------------------------------------------------------------------------
(* The list of invoices.                                                   *)

LEMMA LedgerOnce ==
  ASSUME Money, NEW known, \A r, q \in known : r.id = q.id => r = q
  PROVE  \A r, q \in Ledger(known) : r.id = q.id => r = q
<1> DEFINE fresh == {l \in Range(log) : l.id \notin {s.id : s \in known}}
           added == {Entry(e.id, e.st) : e \in fresh}
<1>1. \A r \in added : \E k \in DOMAIN log :
        /\ r = Entry(log[k].id, log[k].st) /\ r.id = log[k].id
        /\ \A s \in known : s.id # r.id
  BY DEF Range, Entry
<1>2. ASSUME NEW r \in added, NEW q \in added, r.id = q.id PROVE r = q
  <2>1. PICK k \in DOMAIN log : r = Entry(log[k].id, log[k].st) /\ r.id = log[k].id
    BY <1>1
  <2>2. PICK m \in DOMAIN log : q = Entry(log[m].id, log[m].st) /\ q.id = log[m].id
    BY <1>1
  <2>3. k = m
    BY <1>2, <2>1, <2>2 DEF Money, LogOnce
  <2> QED
    BY <2>1, <2>2, <2>3
<1>3. Ledger(known) = known \cup added
  BY DEF Ledger
<1> HIDE DEF added
<1> QED
  BY <1>1, <1>2, <1>3

BookShape == {"ready", "rows", "filter", "shown", "st"}

LEMMA BookStep ==
  ASSUME IInv, [Next]_vars
  PROVE  DOMAIN book' = BookShape /\ ListedOnce'
<1> DEFINE Goal == DOMAIN book' = BookShape /\ ListedOnce'
<1>0. DOMAIN book = BookShape /\ ListedOnce
  BY DEF IInv, Shapes, NoBook, BookShape
<1>u. book' = book => Goal
  BY <1>0 DEF ListedOnce
<1>n. book' = NoBook => Goal
  BY DEF ListedOnce, NoBook, BookShape
<1>k. ASSUME DOMAIN book' = BookShape, book'.rows = book.rows PROVE Goal
  BY <1>0, <1>k DEF ListedOnce
<1>1. CASE Cashiering
  <2>1. CASE Handlers \/ ClearCart \/ Proceed
    BY <1>u, <2>1, HandlersRender DEF ClearCart, Here, Proceed
  <2>2. CASE OpenPos \/ ReturnToPos
    BY <1>n, <2>2 DEF OpenPos, ReturnToPos, GoPos
  <2>3. CASE OnTheForm
    BY <1>u, <2>3 DEF OnTheForm, ExactCash, Discount, Method, RecordPayment, OnForm
  <2> QED
    BY <1>1, CashieringCases, <2>1, <2>2, <2>3
<1>2. CASE Invoicing
  <2>1. CASE OpenSales
    BY <1>n, <2>1 DEF OpenSales
  <2>2. CASE Void
    <3>1. book' = [book EXCEPT !.st = "VOIDED"]
      BY <2>2 DEF Void
    <3> QED
      BY <1>0, <1>k, <3>1 DEF BookShape
  <2>3. ASSUME NEW f, FilterSales(f) PROVE Goal
    <3>1. book' = [book EXCEPT !.filter = f]
      BY <2>3 DEF FilterSales
    <3> QED
      BY <1>0, <1>k, <3>1 DEF BookShape
  <2>4. ASSUME NEW r, OpenReceipt(r) PROVE Goal
    <3>1. book' = [NoBook EXCEPT !.shown = r.id]
      BY <2>4 DEF OpenReceipt
    <3>2. DOMAIN book' = BookShape /\ book'.rows = {}
      BY <3>1 DEF NoBook, BookShape
    <3> QED
      BY <3>2 DEF ListedOnce
  <2> QED
    BY <1>2, <2>1, <2>2, <2>3, <2>4 DEF Invoicing
<1>a. ASSUME NEW a, ApplyRepairs(a) PROVE book' = book
  BY <1>a DEF ApplyRepairs
<1>3. CASE Answers
  <2>1. CASE LoadSales
    <3>1. PICK known \in {OnServer, {}} :
            book' = [book EXCEPT !.ready = TRUE, !.rows = Ledger(known)]
      BY <2>1 DEF LoadSales
    <3>2. \A r, q \in known : r.id = q.id => r = q
      BY <3>1 DEF OnServer, Entry
    <3>3. DOMAIN book' = BookShape /\ book'.rows = Ledger(known)
      BY <1>0, <3>1 DEF BookShape
    <3>4. \A r, q \in Ledger(known) : r.id = q.id => r = q
      BY <3>2, MoneyNow, LedgerOnce
    <3> QED
      BY <3>3, <3>4 DEF ListedOnce
  <2>2. CASE LoadReceipt
    <3>1. \E st : book' = [book EXCEPT !.ready = TRUE, !.st = st]
      BY <2>2 DEF LoadReceipt
    <3> QED
      BY <1>0, <1>k, <3>1 DEF BookShape
  <2>3. ASSUME NEW x \in Pay, Commit(x) \/ Answered(x) \/ Patch(x) \/ Finish(x) PROVE book' = book
    BY <2>3 DEF Commit, Answered, LogPayment, Patch, Finish, tab
  <2>4. ServeRepairs \/ CatalogArrives => book' = book
    BY DEF ServeRepairs, CatalogArrives, tab
  <2> QED
    BY <1>3, <1>a, <1>u, <2>1, <2>2, <2>3, <2>4 DEF Answers, RepairsArrive
<1>4. CASE Faults
  BY <1>4, <1>a, <1>u DEF Faults, Sync, RepairsLost, Reload, Unanswered, LogPayment,
                          Elsewhere, tab
<1>5. CASE UNCHANGED vars
  BY <1>5, <1>u DEF vars, tab
<1> QED
  BY <1>1, <1>2, <1>3, <1>4, <1>5 DEF Next

----------------------------------------------------------------------------
(* The rest of the types.                                                  *)

\* What the server and the browser keep of the jobs, and the bound on the faults.
Keeps ==
  /\ jobs' \in [Job -> {"open", "paid", "gone"}]
  /\ deleted' \subseteq Job /\ listed' \subseteq Job /\ budget' \in 0 .. Budget

LEMMA KeepsStep ==
  ASSUME IInv, [Next]_vars
  PROVE  Keeps
<1>0. /\ jobs \in [Job -> {"open", "paid", "gone"}]
      /\ deleted \subseteq Job /\ listed \subseteq Job /\ budget \in 0 .. Budget
  BY DEF IInv, TypeOK
<1>b. Spend \/ Quiet => budget' \in 0 .. Budget
  <2>1. budget \in Int /\ Budget \in Int /\ 0 <= budget /\ budget <= Budget
    BY <1>0
  <2> QED
    BY <2>1 DEF Spend, Quiet
<1>u. UNCHANGED <<jobs, deleted, listed>> /\ (Spend \/ Quiet) => Keeps
  BY <1>0, <1>b DEF Keeps
<1>1. CASE Cashiering
  <2>1. CASE Handlers \/ ClearCart
    <3>1. Quiet
      BY <2>1 DEF Handlers, ClearCart, ChangeCustomer, CancelChange, AskClear, KeepCart,
                  Select, Add, More, Less, Remove, View, SetFilter
    <3>2. Here
      BY <2>1, HandlersRender DEF ClearCart
    <3> QED
      BY <1>u, <3>1, <3>2 DEF Here, server
  <2>2. CASE OpenPos \/ ReturnToPos \/ Proceed
    BY <1>u, <2>2 DEF OpenPos, ReturnToPos, Proceed, server, disk
  <2>3. CASE OnTheForm
    BY <1>u, <2>3 DEF OnTheForm, ExactCash, Discount, Method, RecordPayment, OnForm, server, disk
  <2> QED
    BY <1>1, CashieringCases, <2>1, <2>2, <2>3
<1>2. CASE Invoicing
  BY <1>2, <1>u DEF Invoicing, OpenSales, Void, FilterSales, OpenReceipt, GoTo, server, disk
<1>3. CASE Answers
  <2>1. ASSUME NEW x \in Pay, Commit(x) \/ Patch(x) PROVE Keeps
    <3>1. /\ jobs' = [jobs EXCEPT ![pay[x].job] = IF @ = "open" THEN "paid" ELSE @]
          /\ Quiet /\ UNCHANGED <<deleted, listed>>
      BY <2>1 DEF Commit, Patch, disk
    <3> QED
      BY <1>0, <1>b, <3>1 DEF Keeps
  <2>2. ASSUME NEW x \in Pay, Finish(x) PROVE Keeps
    <3>1. jobs' = jobs /\ (Spend \/ Quiet) /\ deleted' = deleted /\ listed' \subseteq listed
      BY <2>2 DEF Finish, server
    <3> QED
      BY <1>0, <1>b, <3>1 DEF Keeps
  <2>3. ASSUME NEW x \in Pay, Answered(x) PROVE Keeps
    BY <1>u, <2>3 DEF Answered, LogPayment, server
  <2>4. CASE LoadReceipt
    <3>1. UNCHANGED <<jobs, deleted, listed>> /\ budget' \in {budget, budget - 1}
          /\ (budget' = budget \/ budget > 0)
      BY <2>4 DEF LoadReceipt, Spend, Quiet, server, disk
    <3> QED
      BY <1>0, <3>1 DEF Keeps
  <2>5. CASE CatalogArrives \/ LoadSales
    BY <1>u, <2>5 DEF CatalogArrives, LoadSales, server, disk
  <2>6. CASE ServeRepairs
    BY <1>u, <2>6 DEF ServeRepairs, server, disk
  <2>7. CASE RepairsArrive
    BY <1>u, <2>7 DEF RepairsArrive, ApplyRepairs, server
  <2> QED
    BY <1>3, <2>1, <2>2, <2>3, <2>4, <2>5, <2>6, <2>7 DEF Answers
<1>4. CASE Faults
  <2>1. ASSUME NEW j \in Job, Elsewhere(j) PROVE Keeps
    <3>1. /\ \E r \in {"paid", "gone"} : jobs' = [jobs EXCEPT ![j] = r]
          /\ Spend /\ listed' = listed /\ deleted' \subseteq deleted \cup {j}
      BY <2>1 DEF Elsewhere
    <3>2. jobs' \in [Job -> {"open", "paid", "gone"}]
      BY <1>0, <3>1
    <3> QED
      BY <1>0, <1>b, <3>1, <3>2 DEF Keeps
  <2>2. ASSUME NEW x \in Pay, Unanswered(x) PROVE Keeps
    BY <1>u, <2>2 DEF Unanswered, LogPayment, server
  <2>3. CASE Sync \/ Reload
    BY <1>u, <2>3 DEF Sync, Reload, server, disk
  <2>4. CASE RepairsLost
    BY <1>u, <2>4 DEF RepairsLost, ApplyRepairs, server
  <2> QED
    BY <1>4, <2>1, <2>2, <2>3, <2>4 DEF Faults
<1>5. CASE UNCHANGED vars
  BY <1>5, <1>u DEF vars, server, disk, Quiet
<1> QED
  BY <1>1, <1>2, <1>3, <1>4, <1>5 DEF Next

\* The levels in the cache are those of parts, and a sale takes none below zero.
StockFits(s) == DOMAIN s \subseteq Part /\ \A i \in DOMAIN s : s[i] \in Nat

LEMMA DeductedFits ==
  ASSUME StockFits(cached), NEW c \in Lines
  PROVE  StockFits(Deducted(c))
<1>1. ASSUME NEW i \in DOMAIN cached \cup {k \in Part : c[k] > 0}
      PROVE  i \in Part /\ Deducted(c)[i] \in Nat
  <2> DEFINE now == IF i \in DOMAIN cached THEN cached[i] ELSE Default
  <2>1. i \in Part /\ now \in Nat
    BY DEF StockFits
  <2>2. c[i] \in Nat
    BY <2>1 DEF Lines, Item
  <2>3. Deducted(c)[i] = IF c[i] > now THEN 0 ELSE now - c[i]
    BY <2>1 DEF Deducted
  <2> HIDE DEF now
  <2> QED
    BY <2>1, <2>2, <2>3
<1>2. DOMAIN Deducted(c) = DOMAIN cached \cup {k \in Part : c[k] > 0}
  BY DEF Deducted
<1> QED
  BY <1>1, <1>2 DEF StockFits

LEMMA StockStep ==
  ASSUME IInv, [Next]_vars
  PROVE  StockFits(cached')
<1>0. StockFits(cached)
  BY DEF IInv, TypeOK, StockFits
<1>u. cached' = cached => StockFits(cached')
  BY <1>0
<1>p. ASSUME NEW x \in Pay, NEW id, LogPayment(x, id) PROVE StockFits(cached')
  <2>1. pay[x].lines \in Lines /\ cached' = Deducted(pay[x].lines)
    BY <1>p DEF LogPayment, IInv, TypeOK
  <2> QED
    BY <1>0, <2>1, DeductedFits
<1>1. CASE Cashiering
  <2>1. CASE Handlers \/ ClearCart
    BY <1>u, <2>1, HandlersRender DEF ClearCart, Here
  <2>2. CASE OpenPos \/ ReturnToPos \/ Proceed \/ OnTheForm
    BY <1>u, <2>2 DEF OpenPos, ReturnToPos, Proceed, OnTheForm, ExactCash, Discount, Method,
                      RecordPayment, OnForm, disk
  <2> QED
    BY <1>1, CashieringCases, <2>1, <2>2
<1>2. CASE Invoicing
  BY <1>2, <1>u DEF Invoicing, OpenSales, Void, FilterSales, OpenReceipt, GoTo, disk
<1>3. CASE Answers
  <2>1. ASSUME NEW x \in Pay, Commit(x) \/ Patch(x) \/ Finish(x)
        PROVE  cached' = cached
    BY <2>1 DEF Commit, Patch, Finish, disk
  <2>2. CASE ServeRepairs \/ RepairsArrive \/ CatalogArrives \/ LoadSales \/ LoadReceipt
    BY <1>u, <2>2 DEF ServeRepairs, RepairsArrive, ApplyRepairs, CatalogArrives, LoadSales,
                      LoadReceipt, disk
  <2> QED
    BY <1>3, <1>p, <1>u, <2>1, <2>2 DEF Answers, Answered
<1>4. CASE Faults
  BY <1>4, <1>p, <1>u DEF Faults, Sync, RepairsLost, ApplyRepairs, Reload, Unanswered,
                          Elsewhere, disk
<1>5. CASE UNCHANGED vars
  BY <1>5, <1>u DEF vars, disk
<1> QED
  BY <1>1, <1>2, <1>3, <1>4, <1>5 DEF Next

\* The lists of jobs on their way name jobs.
AskFits(a) ==
  /\ DOMAIN a = {"deleted", "got", "rows"}
  /\ a.deleted \subseteq Job /\ DOMAIN a.rows \subseteq Job

LEMMA AskedStep ==
  ASSUME IInv, [Next]_vars
  PROVE  \A a \in asked' : AskFits(a)
<1> DEFINE Goal == \A a \in asked' : AskFits(a)
<1>0. \A a \in asked : AskFits(a)
  BY DEF IInv, TypeOK, Shapes, AskFits
<1>k. asked' \subseteq asked => Goal
  BY <1>0
<1>a. asked' = Ask => Goal
  <2>1. AskFits([deleted |-> deleted, got |-> FALSE, rows |-> NoRows])
    BY DEF AskFits, NoRows, IInv, TypeOK
  <2> QED
    BY <1>0, <2>1 DEF Ask
<1>1. CASE Cashiering
  <2>1. CASE Handlers \/ ClearCart
    BY <1>k, <2>1, HandlersRender DEF ClearCart, Here
  <2>2. CASE OpenPos \/ ReturnToPos
    BY <1>a, <2>2 DEF OpenPos, ReturnToPos, GoPos
  <2>3. CASE Proceed \/ OnTheForm
    BY <1>k, <2>3 DEF Proceed, OnTheForm, ExactCash, Discount, Method, RecordPayment, OnForm
  <2> QED
    BY <1>1, CashieringCases, <2>1, <2>2, <2>3
<1>2. CASE Invoicing
  BY <1>2, <1>k DEF Invoicing, OpenSales, Void, FilterSales, OpenReceipt, GoTo
<1>3. CASE Answers
  <2>1. CASE ServeRepairs
    <3>1. PICK a \in asked :
            asked' = (asked \ {a}) \cup
                     {[a EXCEPT !.got = TRUE, !.rows = [j \in {k \in Job : jobs[k] # "gone"} |-> jobs[j]]]}
      BY <2>1 DEF ServeRepairs
    <3>2. AskFits([a EXCEPT !.got = TRUE, !.rows = [j \in {k \in Job : jobs[k] # "gone"} |-> jobs[j]]])
      BY <1>0 DEF AskFits
    <3> QED
      BY <1>0, <3>1, <3>2
  <2>2. ASSUME NEW x \in Pay, Commit(x) \/ Answered(x) \/ Patch(x) \/ Finish(x) PROVE asked' = asked
    BY <2>2 DEF Commit, Answered, LogPayment, Patch, Finish
  <2>3. RepairsArrive \/ CatalogArrives \/ LoadSales \/ LoadReceipt => asked' \subseteq asked
    BY DEF RepairsArrive, ApplyRepairs, CatalogArrives, LoadSales, LoadReceipt
  <2> QED
    BY <1>3, <1>k, <2>1, <2>2, <2>3 DEF Answers
<1>4. CASE Faults
  BY <1>4, <1>a, <1>k DEF Faults, Sync, RepairsLost, ApplyRepairs, Reload, Unanswered, LogPayment,
                          Elsewhere
<1>5. CASE UNCHANGED vars
  BY <1>5, <1>k DEF vars
<1> QED
  BY <1>1, <1>2, <1>3, <1>4, <1>5 DEF Next

----------------------------------------------------------------------------
(* The invariant, and what follows from it.                                *)

LEMMA InitIInv == Init => IInv
<1> SUFFICES ASSUME Init PROVE IInv
  OBVIOUS
<1>0. /\ jobs = [j \in Job |-> "open"] /\ sales = <<>> /\ log = <<>>
      /\ saved = [j \in Job |-> Empty] /\ paid = {} /\ deleted = {} /\ listed = Job
      /\ cached = [i \in {} |-> 0] /\ asked = {} /\ budget = Budget
      /\ cart = Empty /\ at = Away /\ pos = NoPos /\ form = NoForm /\ book = NoBook
      /\ pay = [x \in Pay |-> NoPay]
  BY DEF Init
<1>1. Empty \in Lines
  BY DEF Empty, Lines
<1>2. /\ DOMAIN NoPay = PayShape
      /\ NoPay.st = "none" /\ NoPay.job = NoJob /\ NoPay.id = 0 /\ NoPay.lines = Empty
  BY DEF NoPay, PayShape
<1>3. TypeOK
  <2>1. at \in [page : {NoPage, "pos", "checkout", "sales", "receipt"},
                job : Job \cup {NoJob}, cart : BOOLEAN]
    BY <1>0 DEF Away
  <2>2. /\ pos.selected \in Job \cup {NoJob} /\ pos.active \subseteq Job
        /\ form.pending \in Pay \cup {0} /\ form.receipt \in Pay \cup {0}
    BY <1>0 DEF NoPos, NoForm
  <2>3. sales \in Seq([job : Job, lines : Lines, st : Status, by : Pay]) /\ log \in Seq(Range(log))
        /\ DOMAIN log = {}
    BY <1>0
  <2>4. \A x \in Pay : /\ pay[x].st \in {"none", "posting", "patching", "patched", "done",
                                       "orphan"}
                       /\ pay[x].job \in Job \cup {NoJob} /\ pay[x].lines \in Lines
                       /\ pay[x].id \in Id \cup {0}
    BY <1>0, <1>1, <1>2
  <2> QED
    BY <1>0, <1>1, <2>1, <2>2, <2>3, <2>4 DEF TypeOK
<1>4. Shapes
  BY <1>0, <1>2 DEF Shapes
<1>5. CustomerKept
  BY <1>0 DEF CustomerKept, NoPos
<1>6. Recorded
  BY <1>0, <1>2 DEF Recorded, Away, NoForm
<1>7. LogAgrees
  BY <1>0 DEF LogAgrees
<1>8. ListedOnce
  BY <1>0 DEF ListedOnce, NoBook
<1> QED
  BY <1>3, <1>4, <1>5, <1>6, <1>7, <1>8 DEF IInv

LEMMA StepIInv == IInv /\ [Next]_vars => IInv'
<1> SUFFICES ASSUME IInv, [Next]_vars PROVE IInv'
  OBVIOUS
<1>1. Ready
  BY PosStep
<1>2. Money'
  BY MoneyStep
<1>3. TypeOK'
  <2>1. sales' \in Seq([job : Job, lines : Lines, st : Status, by : Pay])
    BY <1>2 DEF Money, Sale
  <2>2. log' \in Seq(Range(log'))
        /\ \A k \in DOMAIN log' : /\ log'[k].id \in Id' /\ log'[k].job \in Job
                                  /\ log'[k].lines \in Lines /\ log'[k].st \in Status
    BY <1>2 DEF Money, LogFits
  <2>3. \A x \in Pay : /\ pay'[x].st \in {"none", "posting", "patching", "patched", "done",
                                        "orphan"}
                       /\ pay'[x].job \in Job \cup {NoJob} /\ pay'[x].lines \in Lines
                       /\ pay'[x].id \in Id' \cup {0}
    BY <1>2 DEF Money, PayFits, PayStates
  <2>4. paid' \subseteq Job
    BY <1>2 DEF Money, Traced
  <2>5. /\ pos'.selected \in Job \cup {NoJob} /\ pos'.active \subseteq Job
        /\ form'.pending \in Pay \cup {0} /\ form'.receipt \in Pay \cup {0}
    BY <1>1, PageStep DEF Ready, PosFits, FormFits
  <2>6. /\ at' \in [page : {NoPage, "pos", "checkout", "sales", "receipt"},
                    job : Job \cup {NoJob}, cart : BOOLEAN]
        /\ saved' \in [Job -> Lines] /\ cart' \in Lines
    BY PageStep, CartStep DEF AtFits
  <2>7. /\ DOMAIN cached' \subseteq Part /\ \A i \in DOMAIN cached' : cached'[i] \in Nat
        /\ \A a \in asked' : a.deleted \subseteq Job /\ DOMAIN a.rows \subseteq Job
    BY StockStep, AskedStep DEF StockFits, AskFits
  <2>8. /\ jobs' \in [Job -> {"open", "paid", "gone"}]
        /\ deleted' \subseteq Job /\ listed' \subseteq Job /\ budget' \in 0 .. Budget
    BY KeepsStep DEF Keeps
  <2> QED
    BY <2>1, <2>2, <2>3, <2>4, <2>5, <2>6, <2>7, <2>8 DEF TypeOK
<1>4. Shapes'
  <2>1. DOMAIN pos' = DOMAIN NoPos /\ DOMAIN form' = DOMAIN NoForm /\ DOMAIN book' = DOMAIN NoBook
    BY <1>1, PageStep, BookStep DEF Ready, PosFits, PosShape, FormFits, BookShape, NoPos, NoForm,
                                    NoBook
  <2>2. DOMAIN pay' = Pay /\ \A x \in Pay : DOMAIN pay'[x] = DOMAIN NoPay
    BY <1>2 DEF Money, PayFits, PayShape, NoPay
  <2>3. /\ \A k \in DOMAIN log' : DOMAIN log'[k] = {"id", "job", "lines", "due", "st"}
        /\ \A a \in asked' : DOMAIN a = {"deleted", "got", "rows"}
    BY <1>2, AskedStep DEF Money, LogFits, LogShape, AskFits
  <2> QED
    BY <2>1, <2>2, <2>3 DEF Shapes
<1>5. CustomerKept'
  BY <1>1 DEF Ready, PosFits, CustomerKept
<1>6. Recorded'
  <2>1. at'.page = "checkout" => at'.job \in Job
    BY PageStep DEF AtFits
  <2>2. ASSUME NEW x \in Pay
        PROVE  /\ pay'[x].st # "none" => pay'[x].job \in Job
               /\ pay'[x].id > 0 =>
                    LET s == sales'[pay'[x].id]
                    IN  <<s.by, s.job, s.lines>> = <<x, pay'[x].job, pay'[x].lines>>
               /\ pay'[x].st \in {"patching", "patched", "done"} =>
                    \E k \in DOMAIN log' : Logs(k, x)'
    BY <1>2 DEF Money, PayFits, Traced, Logging
  <2>3. form'.receipt # 0 => pay'[form'.receipt].st = "done"
    BY ReceiptStep
  <2>4. \A j \in paid' : \E k \in DOMAIN log' : log'[k].job = j
    BY <1>2 DEF Money, Traced
  <2> QED
    BY <2>1, <2>2, <2>3, <2>4 DEF Recorded
<1>7. LogAgrees'
  BY <1>2 DEF Money, LogFits, LogOnce, LogAgrees
<1>8. ListedOnce'
  BY BookStep
<1> QED
  BY <1>3, <1>4, <1>5, <1>6, <1>7, <1>8 DEF IInv

LEMMA Safety == Spec => []IInv
<1>1. Init => IInv
  BY InitIInv
<1>2. IInv /\ [Next]_vars => IInv'
  BY StepIInv
<1> QED
  BY <1>1, <1>2, PTL DEF Spec

\* The carts, the pages, the payments, the log and the lists on their way keep
\* their shapes: in particular the stock levels the browser keeps are those of
\* parts and never negative, and an entry of the log has an id that the server
\* gave or a payment made up.
THEOREM TillTypeCorrect == Spec => []TypeOK
<1>1. IInv => TypeOK
  BY DEF IInv
<1> QED
  BY <1>1, Safety, PTL

\* No cart is in view without a customer, and the customer is one the page
\* offers, whatever the list of jobs that arrives says of the one selected.
THEOREM CartAlwaysHasCustomer == Spec => []CartHasCustomer
<1>1. IInv => CartHasCustomer
  BY DEF IInv, CustomerKept, CartHasCustomer, CartOffered, OnPos
<1> QED
  BY <1>1, Safety, PTL

\* An entry of the sales log with an invoice number of the server has the job and
\* the lines of that sale, the receipt on the screen is in the log with the same
\* amount, and every job marked as paid has an entry.
THEOREM LogAgreesWithServer == Spec => []LogIsTrue
<1>1. IInv => LogIsTrue
  <2> SUFFICES ASSUME IInv PROVE LogIsTrue
    OBVIOUS
  <2>1. ASSUME NEW k \in DOMAIN log, log[k].id > 0
        PROVE  /\ log[k].id \in DOMAIN sales
               /\ <<log[k].job, log[k].lines>> = <<sales[log[k].id].job, sales[log[k].id].lines>>
    <3>1. log[k].id \in Id
      BY DEF IInv, TypeOK
    <3> QED
      BY <2>1, <3>1, IdSign, MoneyNow DEF Id, IInv, LogAgrees, Money
  <2>2. ASSUME form.receipt # 0
        PROVE  \E k \in DOMAIN log : /\ log[k].id = pay[form.receipt].id
                                     /\ log[k].due = pay[form.receipt].due
    <3>1. form.receipt \in Pay /\ pay[form.receipt].st = "done"
      BY <2>2 DEF IInv, TypeOK, Recorded
    <3> QED
      BY <3>1 DEF IInv, Recorded, Logs
  <2> QED
    BY <2>1, <2>2 DEF LogIsTrue, IInv, Recorded
<1> QED
  BY <1>1, Safety, PTL

\* The sales page shows no invoice twice, although the server's list and the log
\* hold it both and a voided one may have another status in each.
THEOREM InvoiceListedOnce == Spec => []ListedOnce
<1>1. IInv => ListedOnce
  BY DEF IInv
<1> QED
  BY <1>1, Safety, PTL

\* A list of jobs that was on its way while a job was paid for does not bring it
\* back among the customers of the counter.
THEOREM PaidStaysAway == Spec => PaidNotOffered
<1>1. IInv /\ [Next]_vars => [\A j \in paid' \ pos.active : j \notin pos'.active]_vars
  BY PosStep
<1> QED
  BY <1>1, Safety, PTL DEF Spec, PaidNotOffered
=============================================================================
