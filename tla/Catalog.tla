------------------------------ MODULE Catalog ------------------------------
(***************************************************************************)
(* The two catalogs of the shop in one browser tab: the parts of           *)
(* /inventory with the page of one item, and the motorcycle models of      *)
(* /motorcycles.  Only one page is mounted at a time, but a handler that   *)
(* awaits the server outlives its page.                                    *)
(*                                                                         *)
(* The item pages carry on when the server refuses or does not answer:     *)
(* they keep their own items and a list of deleted ones in localStorage.   *)
(* The motorcycle page does neither.  Stock and prices are left out:       *)
(* PointOfSale has the stock and its edit form.                            *)
(***************************************************************************)
EXTENDS Integers, FiniteSets, Sequences, SequencesExt

CONSTANTS Item,     \* ids of the server's items
          Mock,     \* ids "mock-..." of items the server never answered for
          Sku,
          Bike,     \* ids of the server's motorcycle models
          Role,     \* user_role
          MaxCall,  \* bound on the handlers that wait
          Budget    \* bound on lost calls and departures

ASSUME CatalogConstants ==
  /\ Item \cap Mock = {} /\ (Item \cup Mock) \cap Sku = {}
  /\ Role \in {"admin", "manager", "cashier", "mechanic"}
  /\ MaxCall \in Nat /\ Budget \in Nat

VARIABLES
  shelf,   \* shelf[i]: inventory.items
  bikes,   \* repairs.motorcycle_models
  own,     \* motoshop_custom_inventory
  gone,    \* motoshop_deleted_inventory_ids: ids and SKUs
  made,    \* the ids of Mock given out
  page,    \* "away", "list", "item" or "bikes"
  read,    \* the request of the mount
  view,    \* the list of the page, or the item of its page
  dialog,  \* the modal on the page
  calls,   \* the handlers that wait
  budget

server == <<shelf, bikes>>
disk   == <<own, gone, made>>
tab    == <<page, read, view, dialog>>
vars   == <<server, disk, tab, calls, budget>>

NoSku  == "none"
Id     == Item \cup Mock
Copy   == [id : Id, sku : Sku]
Row    == [st : {"none", "on", "off"}, sku : Sku \cup {NoSku}]
Closed == [kind |-> "none"]
Still  == [st |-> "none", rows |-> {}]
Asking(id) == [st |-> "sent", rows |-> {}, id |-> id]

CopyOf(i) == [id |-> i, sku |-> shelf[i].sku]
Held(st)  == {i \in Item : shelf[i].st \in st}
Taken     == {shelf[i].sku : i \in Held({"on", "off"})}

Spend == budget > 0 /\ budget' = budget - 1
Quiet == UNCHANGED budget

Init ==
  /\ shelf = [i \in Item |-> [st |-> "none", sku |-> NoSku]] /\ bikes = {}
  /\ own = {} /\ gone = {} /\ made = {}
  /\ page = "away" /\ read = Still /\ view = <<>> /\ dialog = Closed
  /\ calls = {} /\ budget = Budget

----------------------------------------------------------------------------
(* Mounting a page and what it shows.                                      *)

Loading == read.st # "none"

\* The handlers of the page that is left go on without it.
Mount(p, id) ==
  /\ page' = p /\ view' = <<>> /\ dialog' = Closed
  /\ read' = IF p = "away" THEN Still ELSE Asking(id)
  /\ calls' = {[c EXCEPT !.here = FALSE] : c \in calls}

OpenInventory ==
  /\ page \in {"away", "item"} /\ Mount("list", "all")
  /\ Quiet /\ UNCHANGED <<server, disk>>

OpenMotorcycles ==
  /\ page \in {"away", "list"} /\ Mount("bikes", "all")
  /\ Quiet /\ UNCHANGED <<server, disk>>

Leave ==
  /\ page # "away" /\ Mount("away", "all") /\ Spend /\ UNCHANGED <<server, disk>>

\* The rows of the list, on a phone and elsewhere.
ItemRow(k)   == page = "list" /\ ~Loading /\ dialog = Closed /\ k \in DOMAIN view
MobileRow(k) == page = "bikes" /\ ~Loading /\ dialog = Closed /\ k \in DOMAIN view
TableRow(k)  == page = "bikes" /\ ~Loading /\ dialog = Closed /\ k \in DOMAIN view

\* A row is clicked.
OpenItem(k) ==
  /\ ItemRow(k) /\ Mount("item", view[k].id) /\ Quiet /\ UNCHANGED <<server, disk>>

\* The list leaves the inactive out, the item asked for by its id is found anyway.
Answered ==
  CASE page = "list"  -> {CopyOf(i) : i \in Held({"on"})}
    [] page = "item"  -> {CopyOf(i) : i \in Held({"on", "off"}) \cap {read.id}}
    [] page = "bikes" -> bikes

ServeRead ==
  /\ read.st = "sent" /\ read' = [st |-> "got", rows |-> Answered, id |-> read.id]
  /\ Quiet /\ UNCHANGED <<server, disk, page, view, dialog, calls>>

\* The page of an item then looks for it in the list of the server.
LoseRead ==
  /\ read.st = "sent"
  /\ \E found \in {{}, IF page = "item"
                       THEN {CopyOf(i) : i \in Held({"on"}) \cap {read.id}} ELSE {}} :
       read' = [st |-> IF page = "bikes" THEN "none" ELSE "got",
                rows |-> found, id |-> read.id]
  /\ Spend /\ UNCHANGED <<server, disk, page, view, dialog, calls>>

\* Mutant of Added: items the server lists as well are added once more.
AddedAgain(rows) == own

Added(rows) == {o \in own : o.id \notin {r.id : r \in rows}}

\* Mutant of Shown: the own items of this browser are added after the filter.
ShownUnfiltered(rows) ==
  SetToSeq(Added(rows)) \o SetToSeq({r \in rows : {r.id, r.sku} \cap gone = {}})

\* The own items and those of the server, without the ones deleted by now.
Shown(rows) ==
  SelectSeq(SetToSeq(Added(rows)) \o SetToSeq(rows),
            LAMBDA it : {it.id, it.sku} \cap gone = {})

\* The item the server has, or this browser's own one of that id; else none.
Found(rows) ==
  SetToSeq(IF rows # {} THEN rows ELSE {o \in own : o.id = read.id})

Arrive ==
  /\ read.st = "got" /\ read' = Still
  /\ view' = CASE page = "list"  -> Shown(read.rows)
               [] page = "item"  -> Found(read.rows)
               [] page = "bikes" -> SetToSeq(read.rows)
  /\ Quiet /\ UNCHANGED <<server, disk, page, dialog, calls>>

----------------------------------------------------------------------------
(* What the pages offer.                                                   *)

CanManage == Role \in {"admin", "manager"}
IsAdmin   == Role = "admin"

\* The profile of an item has its buttons in the header and in a sheet.
HeaderButtons == page = "item" /\ ~Loading /\ view # <<>> /\ dialog = Closed /\ CanManage
ActionsSheet  == HeaderButtons

Show(d) ==
  /\ dialog' = d /\ Quiet /\ UNCHANGED <<server, disk, page, read, view, calls>>

\* The button of the header and the one of the phone.
HandleOpenModal ==
  /\ page = "list" /\ CanManage /\ dialog = Closed /\ Show([kind |-> "create"])

OpenEditModal == (HeaderButtons \/ ActionsSheet) /\ Show([kind |-> "edit"])

AskDelete == (HeaderButtons \/ ActionsSheet) /\ Show([kind |-> "delete"])

OpenRegister == page = "bikes" /\ dialog = Closed /\ Show([kind |-> "register"])

\* A row opens the form of its profile, whatever the role.
OpenProfile(k) ==
  (MobileRow(k) \/ TableRow(k)) /\ Show([kind |-> "profile", id |-> view[k]])

\* The form of a profile offers its end to an admin.
AskArchive ==
  /\ dialog.kind = "profile" /\ IsAdmin /\ Show([dialog EXCEPT !.kind = "archive"])

\* The form of a new item can be left while its answer is on the way.
Close == dialog # Closed /\ Show(Closed)

Waiting(kinds) == \E c \in calls : c.here /\ c.kind \in kinds

Call(kind, id, sku) ==
  /\ Cardinality(calls) < MaxCall
  /\ calls' = calls \cup {[kind |-> kind, id |-> id, sku |-> sku, st |-> "sent", here |-> TRUE]}
  /\ Quiet /\ UNCHANGED <<server, disk, tab>>

CreateForm  == page = "list" /\ dialog.kind = "create"
EditForm    == page = "item" /\ dialog.kind = "edit"
DeleteModal == page = "item" /\ dialog.kind = "delete"

Pending(kind) == {c \in calls : c.kind = kind}

\* handleCreateItemSubmit: the SKU is made up or typed.  There is an id left for it.
CreateItemSubmit(s) ==
  /\ CreateForm /\ ~Waiting({"create"})
  /\ Pending("create") = {} /\ Mock # made /\ Held({"none"}) # {}
  /\ Call("create", "new", s)

SaveEdit == EditForm /\ ~Waiting({"edit"}) /\ Call("edit", view[1].id, view[1].sku)

DeleteItem == DeleteModal /\ ~Waiting({"delete"}) /\ Call("delete", view[1].id, view[1].sku)

\* One flag for the three forms of the motorcycle page.
IsSubmitting == Waiting({"register", "profile", "archive"})

RegisterForm == dialog.kind = "register" /\ ~IsSubmitting
ProfileForm  == dialog.kind = "profile" /\ ~IsSubmitting
ArchiveModal == dialog.kind = "archive" /\ ~IsSubmitting

Register ==
  /\ RegisterForm /\ Pending("register") = {} /\ bikes # Bike
  /\ Call("register", "new", NoSku)

SaveProfile == ProfileForm /\ Call("profile", dialog.id, NoSku)

Archive == ArchiveModal /\ Call("archive", dialog.id, NoSku)

----------------------------------------------------------------------------
(* The server.                                                             *)

Becomes(c, d) == calls' = (calls \ {c}) \cup {d}
Refuse(c) == Becomes(c, [c EXCEPT !.st = "refused"])
Grant(c)  == Becomes(c, [c EXCEPT !.st = "ok"])

\* The SKU is unique among the active and the inactive.
ServeCreate(c) ==
  IF c.sku \in Taken \/ ~CanManage
  THEN Refuse(c) /\ UNCHANGED shelf
  ELSE \E i \in Held({"none"}) :
         /\ shelf' = [shelf EXCEPT ![i] = [st |-> "on", sku |-> c.sku]]
         /\ Becomes(c, [c EXCEPT !.st = "ok", !.id = i])

\* An inactive item can be edited and stays inactive.
ServeEdit(c) ==
  /\ IF c.id \in Held({"on", "off"}) /\ CanManage THEN Grant(c) ELSE Refuse(c)
  /\ UNCHANGED shelf

ServeDelete(c) ==
  IF c.id \in Held({"on", "off"}) /\ CanManage
  THEN Grant(c) /\ shelf' = [shelf EXCEPT ![c.id].st = "off"]
  ELSE Refuse(c) /\ UNCHANGED shelf

ServeRegister(c) ==
  IF Role = "cashier"
  THEN Refuse(c) /\ UNCHANGED bikes
  ELSE \E b \in Bike \ bikes : /\ bikes' = bikes \cup {b}
                               /\ Becomes(c, [c EXCEPT !.st = "ok", !.id = b])

\* The motorcycle models have no route to change or to remove one.
ServeProfile(c) == Refuse(c) /\ UNCHANGED bikes

Serve ==
  /\ \E c \in calls :
       /\ c.st = "sent"
       /\ \/ /\ UNCHANGED bikes
             /\ \/ c.kind = "create" /\ ServeCreate(c)
                \/ c.kind = "edit" /\ ServeEdit(c)
                \/ c.kind = "delete" /\ ServeDelete(c)
          \/ /\ UNCHANGED shelf
             /\ \/ c.kind = "register" /\ ServeRegister(c)
                \/ c.kind \in {"profile", "archive"} /\ ServeProfile(c)
  /\ Quiet /\ UNCHANGED <<disk, tab>>

\* The request, or the answer to it, is lost.
Lose ==
  /\ \E c \in calls : c.st \in {"sent", "ok"} /\ Becomes(c, [c EXCEPT !.st = "lost"])
  /\ Spend /\ UNCHANGED <<server, disk, tab>>

----------------------------------------------------------------------------
(* The rest of the handlers.                                               *)

CloseOf(c, kind) == dialog' = IF c.here /\ dialog.kind = kind THEN Closed ELSE dialog

\* Without an answer that it likes the page makes up an item of its own.
FinishCreate(c) ==
  /\ \E i \in IF c.st = "ok" THEN {c.id} ELSE Mock \ made :
       LET it == [id |-> i, sku |-> c.sku] IN
       /\ own' = own \cup {it} /\ made' = made \cup ({i} \cap Mock)
       /\ view' = IF c.here THEN <<it>> \o view ELSE view
  /\ CloseOf(c, "create") /\ UNCHANGED <<gone, page, read>>

\* Mutant of Rewritten: the edited item is put into the own list if it is not there.
RewrittenOrAdded(c) == own \cup {[id |-> c.id, sku |-> c.sku]}

\* The own items with the edited one in its place; names and prices are left out.
Rewritten(c) == {IF o.id = c.id THEN [id |-> c.id, sku |-> c.sku] ELSE o : o \in own}

\* Nobody looks at the answer.
FinishEdit(c) ==
  /\ own' = Rewritten(c)
  /\ CloseOf(c, "edit") /\ UNCHANGED <<gone, made, page, read, view>>

\* Nor here.  The browser then goes to the list, wherever it is by now; a list
\* that is open already is not asked for again.
FinishDelete(c) ==
  /\ gone' = gone \cup {c.id, c.sku}
  /\ own' = {o \in own : o.id # c.id /\ o.sku # c.sku}
  /\ UNCHANGED made

Listing(c) ==
  IF page = "list"
  THEN calls' = calls \ {c} /\ UNCHANGED tab
  ELSE /\ page' = "list" /\ view' = <<>> /\ dialog' = Closed /\ read' = Asking("all")
       /\ calls' = {[d EXCEPT !.here = FALSE] : d \in calls \ {c}}

\* The new profile heads the list; with an error the form stays.
FinishRegister(c) ==
  /\ IF c.st = "ok"
     THEN /\ view' = IF c.here THEN <<c.id>> \o view ELSE view
          /\ CloseOf(c, "register")
     ELSE UNCHANGED <<view, dialog>>
  /\ UNCHANGED <<disk, page, read>>

\* Mutant of FinishProfile: an archived profile leaves the list, as an item would.
FinishProfileAnyway(c) ==
  /\ view' = IF c.here THEN SelectSeq(view, LAMBDA b : b # c.id) ELSE view
  /\ CloseOf(c, "archive") /\ UNCHANGED <<disk, page, read>>

\* The only answers there are are errors: the form stays, with a message.
FinishProfile(c) == UNCHANGED <<disk, tab>>

Finish ==
  /\ \E c \in calls :
       /\ c.st # "sent"
       /\ \/ /\ calls' = calls \ {c}
             /\ \/ c.kind = "create" /\ FinishCreate(c)
                \/ c.kind = "edit" /\ FinishEdit(c)
                \/ c.kind = "register" /\ FinishRegister(c)
                \/ c.kind \in {"profile", "archive"} /\ FinishProfile(c)
          \/ c.kind = "delete" /\ FinishDelete(c) /\ Listing(c)
  /\ Quiet /\ UNCHANGED server

----------------------------------------------------------------------------
Browse == OpenInventory \/ OpenMotorcycles \/ Leave \/ \E k \in DOMAIN view : OpenItem(k)

Reads == ServeRead \/ LoseRead \/ Arrive

Items == HandleOpenModal \/ OpenEditModal \/ AskDelete \/ SaveEdit \/ DeleteItem
         \/ \E s \in Sku : CreateItemSubmit(s)

Motorcycles == OpenRegister \/ AskArchive \/ Register \/ SaveProfile \/ Archive
               \/ \E k \in DOMAIN view : OpenProfile(k)

Next == Browse \/ Reads \/ Items \/ Motorcycles \/ Close \/ Serve \/ Lose \/ Finish

Spec == Init /\ [][Next]_vars

----------------------------------------------------------------------------
Ids(s) == {s[k].id : k \in DOMAIN s}
Models(s) == {s[k] : k \in DOMAIN s}

TypeOK ==
  /\ shelf \in [Item -> Row] /\ bikes \subseteq Bike
  /\ own \subseteq Copy /\ gone \subseteq Id \cup Sku /\ made \subseteq Mock
  /\ page \in {"away", "list", "item", "bikes"}
  /\ \A k \in DOMAIN view : view[k] \in IF page = "bikes" THEN Bike ELSE Copy
  /\ \A c \in calls : c.kind \in {"create", "register"} \/ c.id \in Id \cup Bike
  /\ budget \in 0 .. Budget

\* An item that was deleted in this browser gets into no list of its inventory
\* page again, whatever is still on its way: the answer to its creation, an edit,
\* a list that the server made before the deletion.
GoneNotListed ==
  [][page' = "list" =>
       (Ids(view') \ IF page = "list" THEN Ids(view) ELSE {}) \cap gone = {}]_vars

\* The own list of the browser takes a deleted item back only with the late answer
\* to its creation, never with an edit that was under way when it was deleted.
OwnNotRevived ==
  [][\A o \in own' \ own : o.id \in gone =>
       \E c \in calls \ calls' : c.kind = "create" /\ c.id = o.id]_vars

\* A list that arrives has every item once, although the browser keeps copies of
\* items that the server lists as well.
FreshListOnce ==
  [][page = "list" /\ read.st = "got" /\ read' = Still => Len(view') = Cardinality(Ids(view'))]_vars

\* The motorcycle page shows no profile that the server does not hold, and one
\* leaves its list only with a list of the server, not with a refused request.
RegistryAgrees ==
  [][page = "bikes" /\ page' = "bikes" =>
       /\ Models(view') \subseteq bikes'
       /\ read' = read => Models(view) \subseteq Models(view')]_vars
=============================================================================
