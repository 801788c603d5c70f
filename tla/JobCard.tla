------------------------------ MODULE JobCard ------------------------------
(***************************************************************************)
(* The page of one job order, /repairs/jobs/[id], in one browser tab: its  *)
(* diagnosis log, the mechanic, and the deletion of the order.  The log is *)
(* kept in this browser alone; the server gets the text of its last entry, *)
(* with whatever mechanic is selected, in PUTs that nobody waits for and   *)
(* that may overtake each other.  The board edits the same note and the    *)
(* same mechanic, here and on other machines.                              *)
(*                                                                         *)
(* Texts are numbered in the order they were typed in; 0 is no text.       *)
(***************************************************************************)
EXTENDS Integers, Sequences, SequencesExt

CONSTANTS Person,   \* who signs in at this browser
          Shop,     \* the author "Mechanic" of a migrated note
          Mechanic, Nobody,
          MaxText,  \* bound on the texts typed in
          MaxPut,   \* bound on the PUTs on their way
          Budget    \* bound on losses and on steps of others

ASSUME JobCardConstants ==
  /\ Shop \notin Person /\ Nobody \notin Mechanic
  /\ MaxText \in Nat /\ MaxPut \in Nat /\ Budget \in Nat

VARIABLES
  row,     \* the order on the server
  log,     \* motoshop_job_diagnosis_<id>
  note,    \* motoshop_job_notes_<id>
  cache,   \* the order in motoshop_jobs
  mark,    \* motoshop_job_paid_<id>
  hidden,  \* the id is in motoshop_deleted_job_ids
  page,    \* "away", "loading", "missing" or "ready"
  card,    \* the state of the page
  puts,    \* PUTs on their way
  del,     \* handleConfirmDelete
  texts,   \* texts typed in so far
  budget

disk == <<log, note, cache, mark, hidden>>
vars == <<row, disk, page, card, puts, del, texts, budget>>

Text   == 0 .. MaxText
Author == Person \cup {Shop}
Entry  == [by : Author, text : Text]
Slot   == 1 .. MaxPut

Blank == [log |-> <<>>, mech |-> Nobody, paid |-> FALSE,
          who |-> Shop, edit |-> 0, drop |-> 0, saving |-> 0, asks |-> FALSE]
NoPut == [st |-> "free", note |-> 0, mech |-> Nobody, save |-> FALSE, here |-> FALSE]
NoDel == [st |-> "none", here |-> FALSE, paid |-> FALSE]

Spend == budget > 0 /\ budget' = budget - 1
Quiet == UNCHANGED budget

\* An order the board has just created, and loaded.
Init ==
  /\ \E m \in Mechanic : /\ row = [live |-> TRUE, paid |-> FALSE, note |-> 0, mech |-> m]
                         /\ cache = [held |-> TRUE, note |-> 0, mech |-> m]
  /\ log = <<>> /\ note = 0 /\ mark = FALSE /\ hidden = FALSE
  /\ page = "away" /\ card = Blank /\ puts = [p \in Slot |-> NoPut] /\ del = NoDel
  /\ texts = 0 /\ budget = Budget

----------------------------------------------------------------------------
(* Loading.                                                                *)

OpenCard ==
  /\ page = "away" /\ page' = "loading"
  /\ \E u \in Person : card' = [Blank EXCEPT !.who = u]
  /\ Quiet /\ UNCHANGED <<row, disk, puts, del, texts>>

\* The log of this browser; without one, the old note or the server's, migrated.
Loaded(n) ==
  LET legacy == IF note # 0 THEN note ELSE n
  IN  IF log # <<>> THEN log
      ELSE IF legacy # 0 THEN <<[by |-> Shop, text |-> legacy]>> ELSE <<>>

Show(n, m, paid) ==
  /\ page' = "ready"
  /\ card' = [card EXCEPT !.log = Loaded(n), !.mech = m,
                          !.paid = paid \/ mark]
  /\ log' = IF Loaded(n) = <<>> THEN log ELSE Loaded(n)
  /\ UNCHANGED <<row, note, cache, mark, hidden, puts, del, texts>>

\* A deleted order that the server still lists is loaded like any other.
LoadFromServer ==
  /\ page = "loading" /\ row.live
  /\ Show(row.note, row.mech, row.paid) /\ Quiet

\* The server does not list the order, or does not answer.
LoadFromCache ==
  /\ page = "loading"
  /\ IF row.live THEN Spend ELSE Quiet
  /\ IF cache.held
     THEN Show(cache.note, cache.mech, FALSE)
     ELSE page' = "missing" /\ UNCHANGED <<row, disk, card, puts, del, texts>>

\* The PUTs and the deletion outlive the page.
Leave ==
  /\ page \in {"missing", "ready"} /\ page' = "away" /\ card' = Blank
  /\ puts' = [p \in Slot |-> [puts[p] EXCEPT !.here = FALSE]]
  /\ del' = [del EXCEPT !.here = FALSE]
  /\ Quiet /\ UNCHANGED <<row, disk, texts>>

----------------------------------------------------------------------------
(* The diagnosis log.                                                      *)

Ready == page = "ready" /\ card.drop = 0 /\ ~card.asks
LastText(l) == IF l = <<>> THEN 0 ELSE Last(l).text

FreeSlot(p) == puts[p].st = "free" /\ \A q \in Slot : q < p => puts[q].st # "free"

Put(n, m, save) ==
  \E p \in Slot :
    /\ FreeSlot(p)
    /\ puts' = [puts EXCEPT ![p] = [st |-> "sent", note |-> n, mech |-> m,
                                    save |-> save, here |-> TRUE]]

\* persistDiagnosisLog: the log, the preview of the board, and the server.
Persist(l) ==
  /\ log' = l /\ note' = LastText(l)
  /\ cache' = IF cache.held THEN [cache EXCEPT !.note = LastText(l)] ELSE cache
  /\ Put(LastText(l), card.mech, FALSE)
  /\ UNCHANGED <<row, mark, hidden, page, del>>

\* Mutant of Own: any entry can be edited and deleted.
OwnOrNot(k) == k \in DOMAIN card.log

\* The buttons of an entry are its author's.
Own(k) == k \in DOMAIN card.log /\ card.log[k].by = card.who

AddDiagnosis ==
  /\ Ready /\ texts < MaxText /\ texts' = texts + 1
  /\ LET l == Append(card.log, [by |-> card.who, text |-> texts + 1])
     IN Persist(l) /\ card' = [card EXCEPT !.log = l]
  /\ Quiet

StartEdit(k) ==
  /\ Ready /\ card.edit = 0 /\ Own(k) /\ card' = [card EXCEPT !.edit = k]
  /\ Quiet /\ UNCHANGED <<row, disk, page, puts, del, texts>>

CancelEdit ==
  /\ Ready /\ card.edit # 0 /\ card' = [card EXCEPT !.edit = 0]
  /\ Quiet /\ UNCHANGED <<row, disk, page, puts, del, texts>>

EditDiagnosis ==
  /\ Ready /\ card.edit # 0 /\ texts < MaxText /\ texts' = texts + 1
  /\ LET l == [card.log EXCEPT ![card.edit].text = texts + 1]
     IN Persist(l) /\ card' = [card EXCEPT !.log = l, !.edit = 0]
  /\ Quiet

\* The buttons of the entry that is being edited are hidden.
AskDeleteDiagnosis(k) ==
  /\ Ready /\ Own(k) /\ k # card.edit /\ card' = [card EXCEPT !.drop = k]
  /\ Quiet /\ UNCHANGED <<row, disk, page, puts, del, texts>>

\* An entry is found by its id: the one being edited keeps its place.
DeleteDiagnosis ==
  /\ page = "ready" /\ card.drop # 0
  /\ LET l == RemoveAt(card.log, card.drop)
     IN /\ Persist(l)
        /\ card' = [card EXCEPT !.log = l, !.drop = 0,
                                !.edit = IF @ > card.drop THEN @ - 1 ELSE @]
  /\ Quiet /\ UNCHANGED texts

KeepDiagnosis ==
  /\ page = "ready" /\ card.drop # 0 /\ card' = [card EXCEPT !.drop = 0]
  /\ Quiet /\ UNCHANGED <<row, disk, page, puts, del, texts>>

----------------------------------------------------------------------------
(* The mechanic.                                                           *)

SelectMechanic(m) ==
  /\ Ready /\ card.mech # m /\ card' = [card EXCEPT !.mech = m]
  /\ Quiet /\ UNCHANGED <<row, disk, page, puts, del, texts>>

\* handleSaveMechanic up to its await; the button is disabled while it saves.
SaveMechanic ==
  /\ Ready /\ card.saving = 0
  /\ Put(LastText(card.log), card.mech, TRUE)
  /\ \E p \in Slot : FreeSlot(p) /\ card' = [card EXCEPT !.saving = p]
  /\ Quiet /\ UNCHANGED <<row, disk, page, del, texts>>

\* update_job_details sets what the PUT names; an empty note is a note.
ServePut(p) ==
  /\ puts[p].st = "sent" /\ puts' = [puts EXCEPT ![p].st = "served"]
  /\ row' = IF row.live THEN [row EXCEPT !.note = puts[p].note, !.mech = puts[p].mech] ELSE row
  /\ Quiet /\ UNCHANGED <<disk, page, card, del, texts>>

LosePut(p) ==
  /\ puts[p].st = "sent" /\ Spend /\ puts' = [puts EXCEPT ![p].st = "served"]
  /\ UNCHANGED <<row, disk, page, card, del, texts>>

\* The rest of handleSaveMechanic, whether or not the server was reached: the page
\* shows the order anew, and looks for the counter's mark as it does.
FinishPut(p) ==
  /\ puts[p].st = "served" /\ puts' = [puts EXCEPT ![p] = NoPut]
  /\ cache' = IF puts[p].save /\ cache.held THEN [cache EXCEPT !.mech = puts[p].mech] ELSE cache
  /\ card' = IF puts[p].save /\ puts[p].here
             THEN [card EXCEPT !.saving = 0, !.paid = @ \/ mark] ELSE card
  /\ Quiet /\ UNCHANGED <<row, log, note, mark, hidden, page, del, texts>>

----------------------------------------------------------------------------
(* Deleting the order.                                                     *)

DeleteOffered == Ready /\ ~card.paid

AskDelete ==
  /\ DeleteOffered /\ card' = [card EXCEPT !.asks = TRUE]
  /\ Quiet /\ UNCHANGED <<row, disk, page, puts, del, texts>>

KeepOrder ==
  /\ page = "ready" /\ card.asks /\ card' = [card EXCEPT !.asks = FALSE]
  /\ Quiet /\ UNCHANGED <<row, disk, page, puts, del, texts>>

\* del.paid is history: whether the order was paid by then, which the page, as old
\* as its load, may not know.
ConfirmDelete ==
  /\ page = "ready" /\ card.asks /\ ~card.paid /\ del.st = "none"
  /\ del' = [st |-> "sent", here |-> TRUE, paid |-> row.paid]
  /\ Quiet /\ UNCHANGED <<row, disk, page, card, puts, texts>>

\* Mutant of Refused: delete_job_order does not look at is_paid.
NotRefused == FALSE

Refused == row.live /\ row.paid

\* delete_job_order up to its first DELETE: the order is read without a lock.
CheckDelete ==
  /\ del.st = "sent"
  /\ del' = [del EXCEPT !.st = IF Refused THEN "refused"
                               ELSE IF row.live THEN "cleared" ELSE "failed"]
  /\ Quiet /\ UNCHANGED <<row, disk, page, card, puts, texts>>

\* A payment since the check does not stop it.
CommitDelete ==
  /\ del.st = "cleared" /\ del' = [del EXCEPT !.st = "ok"]
  /\ row' = [row EXCEPT !.live = FALSE]
  /\ Quiet /\ UNCHANGED <<disk, page, card, puts, texts>>

\* An answer other than 200, 400 or 403: a commission inserted in between, an error
\* of the server, a session that ended.
FailDelete ==
  /\ del.st \in {"sent", "cleared"} /\ Spend /\ del' = [del EXCEPT !.st = "failed"]
  /\ UNCHANGED <<row, disk, page, card, puts, texts>>

LoseDelete ==
  /\ del.st \in {"sent", "cleared", "ok"} /\ Spend /\ del' = [del EXCEPT !.st = "lost"]
  /\ UNCHANGED <<row, disk, page, card, puts, texts>>

\* Only a refusal keeps the order; after any other answer, or none, the traces it
\* has in this browser are purged.
FinishDelete ==
  /\ del.st \in {"ok", "refused", "failed", "lost"} /\ del' = NoDel
  /\ IF del.st = "refused"
     THEN UNCHANGED <<disk, page, card, puts>>
     ELSE /\ log' = <<>> /\ note' = 0 /\ mark' = FALSE /\ hidden' = TRUE
          /\ cache' = [cache EXCEPT !.held = FALSE]
          /\ page' = IF del.here THEN "away" ELSE page
          /\ card' = IF del.here THEN Blank ELSE card
          /\ puts' = IF del.here THEN [p \in Slot |-> [puts[p] EXCEPT !.here = FALSE]] ELSE puts
  /\ Quiet /\ UNCHANGED <<row, texts>>

----------------------------------------------------------------------------
(* The board, the counter, and other users.                                *)

\* The board of another tab saves a note and a mechanic: PUT, preview and cache.
EditOnTheBoard ==
  /\ Spend /\ texts < MaxText /\ texts' = texts + 1
  /\ \E m \in Mechanic :
       /\ row' = IF row.live THEN [row EXCEPT !.note = texts + 1, !.mech = m] ELSE row
       /\ cache' = IF cache.held THEN [cache EXCEPT !.note = texts + 1, !.mech = m] ELSE cache
  /\ note' = texts + 1
  /\ UNCHANGED <<log, mark, hidden, page, card, puts, del>>

\* The same on another machine.
EditElsewhere ==
  /\ Spend /\ row.live /\ texts < MaxText /\ texts' = texts + 1
  /\ \E m \in Mechanic : row' = [row EXCEPT !.note = texts + 1, !.mech = m]
  /\ UNCHANGED <<disk, page, card, puts, del>>

\* A payment at this browser's counter leaves a mark, one elsewhere does not.
Pay ==
  /\ Spend /\ row.live /\ ~row.paid /\ row' = [row EXCEPT !.paid = TRUE]
  /\ mark' \in {mark, TRUE}
  /\ UNCHANGED <<log, note, cache, hidden, page, card, puts, del, texts>>

----------------------------------------------------------------------------
Working ==
  \/ OpenCard \/ Leave \/ AddDiagnosis \/ CancelEdit \/ EditDiagnosis
  \/ DeleteDiagnosis \/ KeepDiagnosis \/ SaveMechanic
  \/ AskDelete \/ KeepOrder \/ ConfirmDelete
  \/ \E k \in DOMAIN card.log : StartEdit(k) \/ AskDeleteDiagnosis(k)
  \/ \E m \in Mechanic : SelectMechanic(m)

Answers ==
  \/ LoadFromServer \/ LoadFromCache
  \/ CheckDelete \/ CommitDelete \/ FailDelete \/ LoseDelete \/ FinishDelete
  \/ \E p \in Slot : ServePut(p) \/ LosePut(p) \/ FinishPut(p)

Next == Working \/ Answers \/ EditOnTheBoard \/ EditElsewhere \/ Pay

Spec == Init /\ [][Next]_vars

----------------------------------------------------------------------------
TypeOK ==
  /\ row \in [live : BOOLEAN, paid : BOOLEAN, note : Text, mech : Mechanic]
  /\ log \in Seq(Entry) /\ note \in Text /\ mark \in BOOLEAN /\ hidden \in BOOLEAN
  /\ cache \in [held : BOOLEAN, note : Text, mech : Mechanic]
  /\ page \in {"away", "loading", "missing", "ready"}
  /\ card \in [log : Seq(Entry), mech : Mechanic \cup {Nobody}, paid : BOOLEAN, who : Author,
               edit : Nat, drop : Nat, saving : 0 .. MaxPut, asks : BOOLEAN]
  /\ puts \in [Slot -> [st : {"free", "sent", "served"}, note : Text,
                        mech : Mechanic \cup {Nobody}, save : BOOLEAN, here : BOOLEAN]]
  /\ del \in [st : {"none", "sent", "cleared", "ok", "refused", "failed", "lost"},
             here : BOOLEAN, paid : BOOLEAN]
  /\ texts \in Text /\ budget \in 0 .. Budget

EntriesNotBy(l, who) == {l[k] : k \in {i \in DOMAIN l : l[i].by # who}}
OthersEntries(l) == EntriesNotBy(l, card.who)

\* What somebody else wrote in the log stays as it is, whoever signs in at this
\* browser, until the order is deleted: an edit that is open while another entry
\* is deleted still hits the entry it was opened on.
OthersNotesKept ==
  [][page = "ready" /\ page' = "ready" /\ ~hidden'
       => OthersEntries(log') = OthersEntries(log)]_vars

\* An order that was paid when its deletion was confirmed keeps its traces in this
\* browser, unless the answer was lost or an error: the page goes by a paid flag of
\* when it was loaded, and the server has the last word.
PaidNotPurged ==
  [][hidden' /\ ~hidden /\ del.paid => del.st \in {"failed", "lost"}]_vars

\* Too strong, although delete_job_order's message, "Cannot delete paid Job Order
\* ... because it is already synchronized with sales management", promises it: an
\* order that is paid between the check and the commit is deleted and purged.
PaidTracesKept ==
  [][hidden' /\ ~hidden /\ row.paid => del.st \in {"failed", "lost"}]_vars

\* Too strong even where nothing is lost and nobody else edits (Budget = 0, two PUTs):
\* once no PUT is on its way, the server has the last note of the log.  The PUTs of
\* two edits may be served in the other order.
NoteSettles ==
  row.live /\ log # <<>> /\ (\A p \in Slot : puts[p].st = "free")
    => row.note = LastText(log)

----------------------------------------------------------------------------
(* The inductive invariant behind OthersNotesKept and PaidNotPurged.       *)

\* Until the order is deleted, the page shows the log that the browser keeps.
LogShown == page = "ready" /\ ~hidden => card.log = log

\* An entry of the reader's own, and not the one that is being edited.
Opened ==
  /\ page # "ready" => card.edit = 0 /\ card.drop = 0
  /\ card.edit # 0 => Own(card.edit)
  /\ card.drop # 0 => Own(card.drop) /\ card.drop # card.edit

\* A paid order stays paid, and the server lets no deletion of one pass its check.
PaidStopped == /\ del.paid => row.paid
               /\ del.st \in {"cleared", "ok"} => ~del.paid

\* What the page and the PUTs name as the mechanic.
Chosen == /\ page = "ready" => card.mech \in Mechanic
          /\ \A p \in Slot : puts[p].st # "free" => puts[p].mech \in Mechanic

IInv == TypeOK /\ LogShown /\ Opened /\ PaidStopped /\ Chosen
=============================================================================
