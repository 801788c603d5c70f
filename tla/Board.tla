------------------------------- MODULE Board -------------------------------
(***************************************************************************)
(* The repair board, /repairs/board, in one browser tab: the cards of the  *)
(* page, the caches it shares with the counter through localStorage, and   *)
(* its handlers.  A move is shown before the server has agreed to it; a    *)
(* handler that awaits the server goes on with the list of cards of the    *)
(* moment it was called, and writes that whole list back.                  *)
(*                                                                         *)
(* A list of cards is a function from the ids of its jobs to their cards.  *)
(* Notes, mechanics and charges are left out: JobCard is about those.      *)
(***************************************************************************)
EXTENDS Integers, FiniteSets

CONSTANTS Job,       \* ids of the server's job orders
          Existing,  \* those there are at the start
          Local,     \* ids "jo-..." of orders the server never answered for
          Target,    \* stages that cards are moved to
          NoJob,
          Cashier,   \* user_role is "cashier"
          MaxFetch,  \* bound on the lists on their way
          MaxCall,   \* bound on the handlers that wait
          Budget     \* bound on lost calls, departures, steps of others

Stage == {"PENDING", "ONGOING", "COMPLETED", "RELEASED"}

ASSUME BoardConstants ==
  /\ Existing \subseteq Job /\ Job \cap Local = {} /\ NoJob \notin Job \cup Local
  /\ Target \subseteq Stage /\ Cashier \in BOOLEAN
  /\ MaxFetch \in Nat /\ MaxCall \in Nat /\ Budget \in Nat

VARIABLES
  rows,    \* rows[j]: repairs.job_orders
  stored,  \* motoshop_jobs
  active,  \* motoshop_active_repairs, what the counter may bill
  marks,   \* jobs with motoshop_job_paid_<job>
  deleted, \* motoshop_deleted_job_ids
  past,    \* jobs released in motoshop_customer_histories
  made,    \* the ids of Local given out
  page,    \* "away", "loading" or "ready"
  cards,   \* the list of the page
  dialog,  \* the modal on the page
  asked,   \* fetchJobs calls that wait for their answer
  calls,   \* the other handlers that wait
  budget

disk == <<stored, active, marks, deleted, past>>
tab  == <<page, cards, dialog>>
vars == <<rows, disk, made, tab, asked, calls, budget>>

New == [st |-> "PENDING", paid |-> FALSE]

Id   == Job \cup Local
Card == [st : Stage, paid : BOOLEAN]
Row  == [st : Stage \cup {"NONE", "GONE"}, paid : BOOLEAN]

Empty  == [i \in {} |-> New]
Lists  == UNION {[S -> Card] : S \in SUBSET Id}
Closed == [kind |-> "none"]
Alive  == {j \in Job : rows[j].st \in Stage}

Spend == budget > 0 /\ budget' = budget - 1
Quiet == UNCHANGED budget

Init ==
  /\ rows = [j \in Job |-> IF j \in Existing THEN New ELSE [New EXCEPT !.st = "NONE"]]
  /\ stored = Empty /\ active = {} /\ marks = {} /\ deleted = {} /\ past = {}
  /\ made = {} /\ page = "away" /\ cards = Empty /\ dialog = Closed
  /\ asked = {} /\ calls = {} /\ budget = Budget

----------------------------------------------------------------------------
(* The list of jobs.                                                       *)

\* Mutant of Billable: a paid order stays on the counter's list.
BillablePaid(l) == {i \in DOMAIN l : l[i].st # "RELEASED"}

Billable(l) == {i \in DOMAIN l : l[i].st # "RELEASED" /\ ~l[i].paid}

\* syncJobsState; setJobs of a page that is gone does nothing.
SyncJobsState(l, here) ==
  /\ stored' = l /\ active' = Billable(l)
  /\ cards' = IF here THEN l ELSE cards

Without(l, S) == [i \in DOMAIN l \ S |-> l[i]]

\* The paid flag of a card, or the mark that the counter left in this browser.
IsPaid(i, c) == c.paid \/ i \in marks

Ask == IF Cardinality(asked) < MaxFetch
       THEN asked \cup {[deleted |-> deleted, got |-> FALSE, rows |-> Empty, here |-> TRUE]}
       ELSE asked

\* The mount; "Resume Repair" of the history pages opens the create modal.
OpenBoard ==
  /\ page = "away" /\ page' = "loading" /\ asked' = Ask
  /\ dialog' \in {Closed, [kind |-> "create"]}
  /\ Quiet /\ UNCHANGED <<rows, disk, made, cards, calls>>

\* A focus or a storage event.
Sync ==
  /\ page # "away" /\ asked' = Ask
  /\ Quiet /\ UNCHANGED <<rows, disk, made, tab, calls>>

Leave ==
  /\ page # "away" /\ Spend
  /\ page' = "away" /\ cards' = Empty /\ dialog' = Closed
  /\ asked' = {[a EXCEPT !.here = FALSE] : a \in asked}
  /\ calls' = {[c EXCEPT !.here = FALSE] : c \in calls}
  /\ UNCHANGED <<rows, disk, made>>

ServeJobs ==
  \E a \in asked :
    /\ ~a.got
    /\ asked' = (asked \ {a}) \cup {[a EXCEPT !.got = TRUE, !.rows = [j \in Alive |-> rows[j]]]}
    /\ Quiet /\ UNCHANGED <<rows, disk, made, tab, calls>>

\* Mutant of Fetched: the deleted ids are not taken out.
FetchedAll(a) == [j \in DOMAIN a.rows |-> [a.rows[j] EXCEPT !.paid = IsPaid(j, a.rows[j])]]

\* The deleted ids are those of before the request, the paid marks those of now.
Fetched(a) == [j \in DOMAIN a.rows \ a.deleted |->
                 [a.rows[j] EXCEPT !.paid = IsPaid(j, a.rows[j])]]

\* The offline orders of the cache and what was fetched.
Combined(a) ==
  [i \in DOMAIN Fetched(a) \cup ((DOMAIN stored \cap Local) \ a.deleted) |->
     IF i \in DOMAIN Fetched(a) THEN Fetched(a)[i] ELSE stored[i]]

\* With an empty answer or none, the page shows the cache and leaves it alone.
ApplyJobs(a) ==
  /\ asked' = asked \ {a}
  /\ page' = IF a.here THEN "ready" ELSE page
  /\ IF DOMAIN Fetched(a) # {}
     THEN SyncJobsState(Combined(a), a.here)
     ELSE /\ cards' = IF a.here THEN Without(stored, a.deleted) ELSE cards
          /\ UNCHANGED <<stored, active>>
  /\ UNCHANGED <<rows, marks, deleted, past, made, dialog, calls>>

JobsArrive == \E a \in asked : a.got /\ ApplyJobs(a) /\ Quiet
JobsLost   == \E a \in asked : ~a.got /\ ApplyJobs(a) /\ Spend

----------------------------------------------------------------------------
(* What the page offers.                                                   *)

Free   == page = "ready" /\ dialog = Closed

\* Search, tabs and filters can bring any card into view, but for released ones
\* past the retention period of the settings, which are left out.
Listed == DOMAIN cards

\* On a phone a card has a menu and an action bar, elsewhere it can be dragged.
MobileCard(i)  == Free /\ i \in Listed
DesktopCard(i) == Free /\ i \in Listed

\* The stages the status picker and the action bar of a card offer.
Picker(st) == Stage \ {st}
Bar(st) == CASE st = "PENDING"   -> {"ONGOING"}
             [] st = "ONGOING"   -> {"PENDING", "COMPLETED"}
             [] st = "COMPLETED" -> {"ONGOING", "RELEASED"}
             [] st = "RELEASED"  -> {"COMPLETED"}

Deletable(i) == ~IsPaid(i, cards[i]) /\ ~Cashier
MenuDelete(i) == MobileCard(i) /\ Deletable(i)
TrashDrop(i)  == DesktopCard(i) /\ Deletable(i)

Shows(kind) == page = "ready" /\ dialog.kind = kind
CreateForm  == Shows("create")
EditForm    == Shows("edit")
DeleteModal == Shows("delete")
MoveModal   == Shows("move")

Call(c) == Cardinality(calls) < MaxCall /\ calls' = calls \cup {c}
Waits(kind, i, s) == [kind |-> kind, id |-> i, to |-> s, list |-> cards,
                      card |-> IF i \in DOMAIN cards THEN cards[i] ELSE New,
                      st |-> "sent", here |-> TRUE]

\* Mutant of CanMove: nobody asks whether the order was paid.
CanMoveAny(i, s) == i \in DOMAIN cards /\ cards[i].st # s

CanMove(i, s) ==
  /\ i \in DOMAIN cards /\ cards[i].st # s
  /\ s = "RELEASED" => IsPaid(i, cards[i])

\* executeMoveJob up to its await.
ExecuteMoveJob(i, s) ==
  IF CanMove(i, s)
  THEN /\ SyncJobsState([cards EXCEPT ![i] = [st |-> s, paid |-> IsPaid(i, @)]], TRUE)
       /\ past' = IF s = "RELEASED" THEN past \cup {i} ELSE past
       /\ IF i \in Local THEN UNCHANGED calls ELSE Call(Waits("move", i, s))
  ELSE UNCHANGED <<stored, active, cards, past, calls>>

\* A card is dropped on a column, with the mouse or with a finger.
Drop(i, s) ==
  /\ DesktopCard(i) /\ ExecuteMoveJob(i, s)
  /\ Quiet /\ UNCHANGED <<rows, marks, deleted, made, page, dialog, asked>>

\* The action bar of a card and the status picker ask first.
AskMove(i, s) ==
  /\ MobileCard(i) /\ s \in Picker(cards[i].st) \cup Bar(cards[i].st)
  /\ dialog' = [kind |-> "move", id |-> i, to |-> s]
  /\ Quiet /\ UNCHANGED <<rows, disk, made, page, cards, asked, calls>>

ConfirmMove ==
  /\ MoveModal /\ ExecuteMoveJob(dialog.id, dialog.to) /\ dialog' = Closed
  /\ Quiet /\ UNCHANGED <<rows, marks, deleted, made, page, asked>>

Close ==
  /\ page = "ready" /\ dialog # Closed /\ dialog' = Closed
  /\ Quiet /\ UNCHANGED <<rows, disk, made, page, cards, asked, calls>>

\* The menu of a card or the trash zone.
AskDelete(i) ==
  /\ MenuDelete(i) \/ TrashDrop(i)
  /\ dialog' = [kind |-> "delete", id |-> i, card |-> cards[i]]
  /\ Quiet /\ UNCHANGED <<rows, disk, made, page, cards, asked, calls>>

\* handleConfirmRemoveJob up to its await: a paid order is refused here.
ConfirmRemoveJob ==
  /\ DeleteModal
  /\ IF IsPaid(dialog.id, dialog.card)
     THEN dialog' = Closed /\ UNCHANGED calls
     ELSE Call([Waits("delete", dialog.id, "NONE") EXCEPT !.card = dialog.card])
          /\ UNCHANGED dialog
  /\ Quiet /\ UNCHANGED <<rows, disk, made, page, cards, asked>>

OpenEditModal(i) ==
  /\ MobileCard(i) /\ dialog' = [kind |-> "edit", id |-> i]
  /\ Quiet /\ UNCHANGED <<rows, disk, made, page, cards, asked, calls>>

SaveJobDetails ==
  /\ EditForm
  /\ Call(Waits("edit", dialog.id, "NONE"))
  /\ Quiet /\ UNCHANGED <<rows, disk, made, tab, asked>>

OpenCreateModal ==
  /\ Free /\ dialog' = [kind |-> "create"]
  /\ Quiet /\ UNCHANGED <<rows, disk, made, page, cards, asked, calls>>

IsSubmitting == \E c \in calls : c.kind = "create" /\ c.here

\* handleCreateJob up to its await, while there is an id left for the order.
CreateJob ==
  /\ CreateForm /\ ~IsSubmitting
  /\ Local # made /\ \E n \in Job : rows[n].st = "NONE"
  /\ Call(Waits("create", NoJob, "NONE"))
  /\ Quiet /\ UNCHANGED <<rows, disk, made, tab, asked>>

----------------------------------------------------------------------------
(* The server, and the rest of the handlers.                               *)

Answer(c, d) == calls' = (calls \ {c}) \cup {d}

ServeMove(c) ==
  /\ c.kind = "move"
  /\ IF c.id \notin Alive \/ Cashier \/ (c.to = "RELEASED" /\ ~rows[c.id].paid)
     THEN Answer(c, [c EXCEPT !.st = "refused"]) /\ UNCHANGED rows
     ELSE Answer(c, [c EXCEPT !.st = "ok"]) /\ rows' = [rows EXCEPT ![c.id].st = c.to]

\* The handler asks whether the order is paid without locking it.  An order that
\* is not there is a 404, which the page takes for a success.
CheckDelete(c) ==
  /\ c.kind = "delete" /\ UNCHANGED rows
  /\ Answer(c, [c EXCEPT !.st = IF Cashier THEN "refused"
                                ELSE IF c.id \notin Alive THEN "ok"
                                ELSE IF rows[c.id].paid THEN "refused" ELSE "cleared"])

\* It is deleted although it may have been paid for since.
CommitDelete(c) ==
  /\ c.st = "cleared"
  /\ rows' = IF c.id \in Alive THEN [rows EXCEPT ![c.id].st = "GONE"] ELSE rows
  /\ Answer(c, [c EXCEPT !.st = "ok"])

ServeEdit(c) == c.kind = "edit" /\ Answer(c, [c EXCEPT !.st = "ok"]) /\ UNCHANGED rows

ServeCreate(c) ==
  /\ c.kind = "create"
  /\ \E n \in Job : /\ rows[n].st = "NONE" /\ rows' = [rows EXCEPT ![n] = New]
                    /\ Answer(c, [c EXCEPT !.st = "ok", !.id = n])

Serve ==
  /\ \E c \in calls :
       \/ /\ c.st = "sent"
          /\ ServeMove(c) \/ CheckDelete(c) \/ ServeEdit(c) \/ ServeCreate(c)
       \/ CommitDelete(c)
  /\ Quiet /\ UNCHANGED <<disk, made, tab, asked>>

\* The request, or the answer to it, is lost, or the server fails: a 500 and the
\* like are to these handlers what no answer is.
Lose ==
  /\ \E c \in calls : c.st \in {"sent", "cleared", "ok"} /\ Answer(c, [c EXCEPT !.st = "lost"])
  /\ Spend /\ UNCHANGED <<rows, disk, made, tab, asked>>

CloseOf(c, kind) == dialog' = IF c.here /\ dialog.kind = kind THEN Closed ELSE dialog

\* The rollback of a move restores the list from before it.
FinishMove(c) ==
  /\ c.kind = "move"
  /\ IF c.st = "ok" THEN UNCHANGED <<stored, active, cards>>
                    ELSE SyncJobsState(c.list, c.here)
  /\ UNCHANGED <<marks, deleted, past, made, dialog>>

FinishEdit(c) ==
  /\ c.kind = "edit" /\ SyncJobsState(c.list, c.here) /\ CloseOf(c, "edit")
  /\ UNCHANGED <<marks, deleted, past, made>>

FinishDelete(c) ==
  /\ c.kind = "delete" /\ CloseOf(c, "delete")
  /\ IF c.st = "refused"
     THEN UNCHANGED <<disk, cards>>
     ELSE /\ SyncJobsState(Without(c.list, {c.id}), c.here)
          /\ deleted' = deleted \cup {c.id} /\ marks' = marks \ {c.id}
          /\ past' = IF c.card.st = "RELEASED" THEN past \ {c.id} ELSE past
  /\ UNCHANGED made

\* With no answer the page makes up an order of its own.
FinishCreate(c) ==
  /\ c.kind = "create" /\ CloseOf(c, "create")
  /\ \E i \in IF c.st = "ok" THEN {c.id} ELSE Local \ made :
       /\ SyncJobsState([k \in DOMAIN c.list \cup {i} |-> IF k = i THEN New ELSE c.list[k]],
                        c.here)
       /\ made' = made \cup ({i} \cap Local)
  /\ UNCHANGED <<marks, deleted, past>>

Finish ==
  /\ \E c \in calls :
       /\ c.st \in {"ok", "refused", "lost"} /\ calls' = calls \ {c}
       /\ FinishMove(c) \/ FinishEdit(c) \/ FinishDelete(c) \/ FinishCreate(c)
  /\ Quiet /\ UNCHANGED <<rows, page, asked>>

----------------------------------------------------------------------------
(* Other tabs of this browser, and other users.                            *)

\* update_job_payment_status: an order that is paid for is COMPLETED, a released
\* one too.
Settle(j) == rows' = [rows EXCEPT ![j] = [st |-> "COMPLETED", paid |-> TRUE]]

\* The counter records a payment in another tab.  It offers the server's open
\* orders and those of both caches, as they were when its list was made, and
\* marks the order whether or not the server heard of the payment.
PaidAtTheCounter(i) ==
  /\ Spend /\ i \in active \cup DOMAIN stored \cup Alive
  /\ UNCHANGED rows \/ (i \in Alive /\ Settle(i))
  /\ marks' = marks \cup {i} /\ active' = active \ {i}
  /\ stored' = IF i \in DOMAIN stored THEN [stored EXCEPT ![i].paid = TRUE] ELSE stored
  /\ UNCHANGED <<deleted, past, made, tab, asked, calls>>

\* The job page deletes an order in another tab, and forgets the counter's list.
\* That the order is unpaid was asked when the deletion began; without an answer
\* the page deletes it in this browser alone.
DeletedOnItsPage(i) ==
  /\ Spend /\ ~Cashier /\ i \in DOMAIN stored \cup Alive
  /\ UNCHANGED rows \/ (i \in Alive /\ rows' = [rows EXCEPT ![i].st = "GONE"])
  /\ deleted' = deleted \cup {i} /\ stored' = Without(stored, {i}) /\ marks' = marks \ {i}
  /\ UNCHANGED <<active, past, made, tab, asked, calls>>

\* Another machine pays for an order, moves it or deletes it; that it is unpaid
\* was asked before the deletion.
Elsewhere(j) ==
  /\ Spend /\ j \in Alive
  /\ \/ Settle(j)
     \/ \E s \in Target : /\ s = "RELEASED" => rows[j].paid
                          /\ rows' = [rows EXCEPT ![j].st = s]
     \/ rows' = [rows EXCEPT ![j].st = "GONE"]
  /\ UNCHANGED <<disk, made, tab, asked, calls>>

----------------------------------------------------------------------------
Working ==
  \/ OpenBoard \/ Leave \/ Close \/ ConfirmMove \/ ConfirmRemoveJob
  \/ SaveJobDetails \/ OpenCreateModal \/ CreateJob
  \/ \E i \in Id : AskDelete(i) \/ OpenEditModal(i)
  \/ \E i \in Id, s \in Target : Drop(i, s) \/ AskMove(i, s)

Answers == Sync \/ ServeJobs \/ JobsArrive \/ JobsLost \/ Serve \/ Lose \/ Finish

Others == \E i \in Id : PaidAtTheCounter(i) \/ DeletedOnItsPage(i) \/ (i \in Job /\ Elsewhere(i))

Next == Working \/ Answers \/ Others

Spec == Init /\ [][Next]_vars

----------------------------------------------------------------------------
TypeOK ==
  /\ rows \in [Job -> Row] /\ stored \in Lists /\ cards \in Lists
  /\ active \subseteq Id /\ marks \subseteq Id /\ deleted \subseteq Id
  /\ past \subseteq Id /\ made \subseteq Local
  /\ page \in {"away", "loading", "ready"}
  /\ \A a \in asked : a.deleted \subseteq Id /\ a.rows \in Lists
  /\ \A c \in calls : c.id \in Id \cup {NoJob} /\ c.list \in Lists
  /\ budget \in 0 .. Budget

\* A motorcycle leaves the shop only paid: no card of the page or of the cache
\* is RELEASED and unpaid, no row of the server is, and the customer history
\* lists no release that neither the server nor this browser has a payment for.
\* The lists come from writers that do not wait for each other.
PaidBeforeRelease ==
  /\ \A l \in {stored, cards} : \A i \in DOMAIN l : l[i].st = "RELEASED" => l[i].paid
  /\ \A j \in Job : rows[j].st = "RELEASED" => rows[j].paid
  /\ \A i \in past : i \in marks \cup deleted \/ (i \in Job /\ rows[i].paid)

\* The list the counter bills from is the cache of the board without the paid
\* and the released, but for orders that were deleted in this browser.
CashierListAgrees ==
  active \ deleted =
    {i \in DOMAIN stored : stored[i].st # "RELEASED" /\ ~stored[i].paid} \ deleted

\* fetchJobs keeps deleted orders out: one comes back into the cache only with a
\* list that was read, or asked for, before the deletion.
GhostsAreStale ==
  [][\A i \in deleted : i \in DOMAIN stored' \ DOMAIN stored =>
       \/ \E a \in asked \ asked' : i \notin a.deleted
       \/ \E c \in calls \ calls' : i \in DOMAIN c.list \cup {c.id}
       \/ i \in DOMAIN cards]_vars

\* An order made up offline exists nowhere else: the cache keeps it until the
\* user deletes it.
OfflineJobKept == made \ deleted \subseteq DOMAIN stored

----------------------------------------------------------------------------
(* The inductive invariant behind PaidBeforeRelease and CashierListAgrees,   *)
(* and behind GhostsAreStale.                                               *)

Fetch   == [deleted : SUBSET Id, got : BOOLEAN, rows : Lists, here : BOOLEAN]
Handler == [kind : {"move", "delete", "edit", "create"}, id : Id \cup {NoJob},
            to : Stage \cup {"NONE"}, list : Lists, card : Card,
            st : {"sent", "cleared", "ok", "refused", "lost"}, here : BOOLEAN]

\* The ids that can be met, and the orders somebody has a payment for.
Known   == Job \cup made
WhyPaid == marks \cup deleted \cup {j \in Job : rows[j].paid}

\* A list of cards of these ids that releases and pays none without a reason.
Sound(l, ids, why) ==
  /\ l \in Lists /\ DOMAIN l \subseteq ids
  /\ \A i \in DOMAIN l : /\ l[i].st = "RELEASED" => l[i].paid
                         /\ l[i].paid => i \in why

\* Also the lists of the handlers that wait, for they will be written back.
ListsSound ==
  /\ Sound(stored, Known, WhyPaid) /\ Sound(cards, Known, WhyPaid)
  /\ \A a \in asked : Sound(a.rows, Job, WhyPaid)
  /\ \A c \in calls : Sound(c.list, Known, WhyPaid)

RowsSound ==
  \A j \in Job : /\ rows[j].st = "RELEASED" => rows[j].paid
                 /\ rows[j].st = "NONE" => ~rows[j].paid

HandlersTyped ==
  /\ asked \subseteq Fetch /\ calls \subseteq Handler
  /\ \A c \in calls : /\ c.kind # "create" => c.id \in Known
                      /\ c.kind = "create" /\ c.st = "ok" => c.id \in Job
                      /\ c.kind = "move" => c.to \in Stage
                      /\ c.st = "cleared" => c.kind = "delete"
  /\ dialog.kind \in {"none", "create", "move", "delete", "edit"}
  /\ dialog.kind \in {"move", "delete", "edit"} => dialog.id \in Known
  /\ dialog.kind = "move" => dialog.to \in Stage
  /\ dialog.kind = "delete" => dialog.card \in Card

IInv ==
  /\ TypeOK /\ HandlersTyped /\ RowsSound /\ ListsSound
  /\ deleted \subseteq Known /\ past \subseteq WhyPaid
  /\ CashierListAgrees
=============================================================================
