---------------------------- MODULE Board_proofs ----------------------------
(***************************************************************************)
(* Proofs about Board: that a motorcycle leaves only paid, that the list   *)
(* of the counter agrees with the cache, and that a deleted order comes    *)
(* back only out of a list that is older than its deletion.                *)
(*                                                                         *)
(* Several handlers hold a list of cards over an await and write it back   *)
(* whole.  That is safe for the payments because the reasons to show a     *)
(* card as paid (WhyPaid) and the ids that exist (Known) only ever grow:   *)
(* a list that was sound when it was taken is sound when it is written.    *)
(***************************************************************************)
EXTENDS Board, TLAPS

USE BoardConstants

----------------------------------------------------------------------------
(* Lists of cards.                                                         *)

LEMMA ListIs ==
  ASSUME NEW l
  PROVE  l \in Lists <=> DOMAIN l \subseteq Id /\ l \in [DOMAIN l -> Card]
<1>1. ASSUME l \in Lists PROVE DOMAIN l \subseteq Id /\ l \in [DOMAIN l -> Card]
  <2>1. PICK S \in SUBSET Id : l \in [S -> Card]
    BY <1>1 DEF Lists
  <2> QED
    BY <2>1
<1>2. ASSUME DOMAIN l \subseteq Id, l \in [DOMAIN l -> Card] PROVE l \in Lists
  BY <1>2 DEF Lists
<1> QED
  BY <1>1, <1>2

\* What a list that is taken now may be used for later.
LEMMA SoundGrows ==
  ASSUME NEW l, NEW ids, NEW more, NEW why, NEW whys,
         Sound(l, ids, why), ids \subseteq more, why \subseteq whys
  PROVE  Sound(l, more, whys)
BY DEF Sound

LEMMA SoundCard ==
  ASSUME NEW l, NEW ids, NEW why, Sound(l, ids, why), NEW i \in DOMAIN l
  PROVE  /\ i \in Id /\ i \in ids /\ l[i] \in Card
         /\ l[i].st = "RELEASED" => l[i].paid
         /\ l[i].paid => i \in why
BY ListIs DEF Sound

LEMMA SoundBuilt ==
  ASSUME NEW ids, NEW why, NEW l, ids \subseteq Id, l = [i \in DOMAIN l |-> l[i]],
         DOMAIN l \subseteq ids,
         \A i \in DOMAIN l : /\ l[i] \in Card
                             /\ l[i].st = "RELEASED" => l[i].paid
                             /\ l[i].paid => i \in why
  PROVE  Sound(l, ids, why)
<1>1. l \in [DOMAIN l -> Card]
  OBVIOUS
<1> QED
  BY <1>1, ListIs DEF Sound

LEMMA EmptySound ==
  ASSUME NEW ids, NEW why
  PROVE  Sound(Empty, ids, why)
<1>1. DOMAIN Empty = {} /\ Empty \in [DOMAIN Empty -> Card]
  BY DEF Empty
<1> QED
  BY <1>1, ListIs DEF Sound

LEMMA WithoutSound ==
  ASSUME NEW l, NEW ids, NEW why, NEW S, Sound(l, ids, why), ids \subseteq Id
  PROVE  Sound(Without(l, S), ids, why)
<1> DEFINE w == Without(l, S)
<1>1. DOMAIN w = DOMAIN l \ S /\ w = [i \in DOMAIN w |-> w[i]]
      /\ \A i \in DOMAIN w : w[i] = l[i]
  BY DEF Without
<1>2. DOMAIN l \subseteq ids
  BY DEF Sound
<1> HIDE DEF w
<1>3. Sound(w, ids, why)
  BY <1>1, <1>2, SoundCard, SoundBuilt
<1> QED
  BY <1>3 DEF w

\* One card of a list is changed, or put into it.
LEMMA PutSound ==
  ASSUME NEW l, NEW ids, NEW why, Sound(l, ids, why), ids \subseteq Id,
         NEW i \in ids, NEW c \in Card,
         c.st = "RELEASED" => c.paid, c.paid => i \in why
  PROVE  Sound([k \in DOMAIN l \cup {i} |-> IF k = i THEN c ELSE l[k]], ids, why)
<1> DEFINE w == [k \in DOMAIN l \cup {i} |-> IF k = i THEN c ELSE l[k]]
<1>1. DOMAIN w = DOMAIN l \cup {i} /\ w = [k \in DOMAIN w |-> w[k]]
      /\ \A k \in DOMAIN w : w[k] = IF k = i THEN c ELSE l[k]
  OBVIOUS
<1>2. DOMAIN l \subseteq ids
  BY DEF Sound
<1> HIDE DEF w
<1>3. Sound(w, ids, why)
  BY <1>1, <1>2, SoundCard, SoundBuilt
<1> QED
  BY <1>3 DEF w

\* SyncJobsState writes the caches of one list: they agree with each other.
LEMMA SyncAgrees ==
  ASSUME NEW l, NEW here, NEW ids, NEW why, SyncJobsState(l, here),
         Sound(l, ids, why), Sound(cards, ids, why)
  PROVE  /\ Sound(stored', ids, why) /\ Sound(cards', ids, why)
         /\ active' \subseteq Id /\ CashierListAgrees'
<1>1. stored' = l /\ active' = Billable(l) /\ (cards' = l \/ cards' = cards)
  BY DEF SyncJobsState
<1>2. DOMAIN l \subseteq Id
  BY ListIs DEF Sound
<1> QED
  BY <1>1, <1>2 DEF Billable, CashierListAgrees

----------------------------------------------------------------------------
(* What only grows: the payments of the server, the ids, the reasons.      *)

\* Only these steps write the table of job orders.
LEMMA RowWriters ==
  ASSUME [Next]_vars
  PROVE  \/ UNCHANGED rows
         \/ \E c \in calls : ServeMove(c) \/ CommitDelete(c) \/ ServeCreate(c)
         \/ \E i \in Id : PaidAtTheCounter(i) \/ DeletedOnItsPage(i)
         \/ \E j \in Job : Elsewhere(j)
<1>1. CASE Working
  <2> ASSUME NEW i \in Id, NEW s \in Target, Drop(i, s) \/ AskMove(i, s) PROVE UNCHANGED rows
    BY DEF Drop, AskMove
  <2> ASSUME NEW i \in Id, AskDelete(i) \/ OpenEditModal(i) PROVE UNCHANGED rows
    BY DEF AskDelete, OpenEditModal
  <2> QED
    BY <1>1 DEF Working, OpenBoard, Leave, Close, ConfirmMove, ConfirmRemoveJob,
                SaveJobDetails, OpenCreateModal, CreateJob
<1>2. CASE Answers
  BY <1>2 DEF Answers, Sync, ServeJobs, JobsArrive, JobsLost, ApplyJobs, Serve, ServeEdit,
              CheckDelete, Lose, Finish
<1>3. CASE Others
  BY <1>3 DEF Others
<1>4. CASE UNCHANGED vars
  BY <1>4 DEF vars
<1> QED
  BY <1>1, <1>2, <1>3, <1>4 DEF Next

\* A row keeps its payment for good, and is released only with one.
LEMMA RowsStep ==
  ASSUME rows \in [Job -> Row], RowsSound, HandlersTyped, [Next]_vars
  PROVE  /\ rows' \in [Job -> Row] /\ RowsSound'
         /\ \A j \in Job : rows[j].paid => rows'[j].paid
<1> DEFINE Kept == /\ rows' \in [Job -> Row] /\ RowsSound'
                   /\ \A j \in Job : rows[j].paid => rows'[j].paid
<1>1. CASE UNCHANGED rows
  BY <1>1 DEF RowsSound
<1>a. ASSUME NEW j \in Job, NEW s \in Stage \cup {"GONE"},
             s = "RELEASED" => rows[j].paid, rows' = [rows EXCEPT ![j].st = s]
      PROVE  Kept
  <2>1. \A k \in Job : /\ rows'[k].paid = rows[k].paid
                       /\ rows'[k].st = IF k = j THEN s ELSE rows[k].st
                       /\ rows'[k] \in Row
    BY <1>a DEF Row
  <2>2. rows' \in [Job -> Row]
    BY <1>a, <2>1
  <2> QED
    BY <1>a, <2>1, <2>2 DEF RowsSound, Stage
<1>b. ASSUME NEW j \in Alive, Settle(j) PROVE Kept
  <2>0. j \in Job /\ [st |-> "COMPLETED", paid |-> TRUE] \in Row
    BY DEF Alive, Row, Stage
  <2>1. \A k \in Job : /\ rows'[k].st = IF k = j THEN "COMPLETED" ELSE rows[k].st
                       /\ rows'[k].paid = IF k = j THEN TRUE ELSE rows[k].paid
                       /\ rows'[k] \in Row
    BY <1>b, <2>0 DEF Settle
  <2>2. rows' \in [Job -> Row]
    BY <1>b, <2>0, <2>1 DEF Settle
  <2> QED
    BY <2>0, <2>1, <2>2 DEF RowsSound, Stage
<1>2. ASSUME NEW c \in calls, ServeMove(c) PROVE Kept
  <2>1. CASE UNCHANGED rows
    BY <1>1, <2>1
  <2>2. CASE c.id \in Alive /\ (c.to = "RELEASED" => rows[c.id].paid)
             /\ rows' = [rows EXCEPT ![c.id].st = c.to]
    BY <1>2, <1>a, <2>2 DEF Alive, HandlersTyped, ServeMove
  <2> QED
    BY <1>2, <2>1, <2>2 DEF ServeMove
<1>3. ASSUME NEW c \in calls, CommitDelete(c) PROVE Kept
  <2>1. CASE UNCHANGED rows
    BY <1>1, <2>1
  <2>2. CASE c.id \in Alive /\ rows' = [rows EXCEPT ![c.id].st = "GONE"]
    BY <1>a, <2>2 DEF Alive
  <2> QED
    BY <1>3, <2>1, <2>2 DEF CommitDelete
<1>4. ASSUME NEW c \in calls, ServeCreate(c) PROVE Kept
  <2>1. PICK n \in Job : rows[n].st = "NONE" /\ rows' = [rows EXCEPT ![n] = New]
    BY <1>4 DEF ServeCreate
  <2>2. ~rows[n].paid
    BY <2>1 DEF RowsSound
  <2>3. New \in Row /\ New.st = "PENDING" /\ New.paid = FALSE
    BY DEF New, Row, Stage
  <2> QED
    BY <2>1, <2>2, <2>3 DEF RowsSound
<1>5. ASSUME NEW i \in Id, PaidAtTheCounter(i) PROVE Kept
  BY <1>5, <1>1, <1>b DEF PaidAtTheCounter
<1>6. ASSUME NEW i \in Id, DeletedOnItsPage(i) PROVE Kept
  <2>1. CASE UNCHANGED rows
    BY <1>1, <2>1
  <2>2. CASE i \in Alive /\ rows' = [rows EXCEPT ![i].st = "GONE"]
    BY <1>a, <2>2 DEF Alive
  <2> QED
    BY <1>6, <2>1, <2>2 DEF DeletedOnItsPage
<1>7. ASSUME NEW j \in Job, Elsewhere(j) PROVE Kept
  <2>1. CASE Settle(j)
    BY <1>7, <1>b, <2>1 DEF Elsewhere
  <2>2. CASE rows' = [rows EXCEPT ![j].st = "GONE"]
    BY <1>a, <2>2
  <2>3. CASE \E s \in Target : (s = "RELEASED" => rows[j].paid)
                               /\ rows' = [rows EXCEPT ![j].st = s]
    BY <1>a, <2>3
  <2> QED
    BY <1>7, <2>1, <2>2, <2>3 DEF Elsewhere
<1> QED
  BY RowWriters, <1>1, <1>2, <1>3, <1>4, <1>5, <1>6, <1>7

\* Only these steps write what the browser remembers of deletions and payments.
LEMMA MarkWriters ==
  ASSUME [Next]_vars
  PROVE  \/ UNCHANGED <<marks, deleted, made>>
         \/ UNCHANGED <<marks, deleted>> /\ \E c \in calls : FinishCreate(c)
         \/ UNCHANGED made /\ \E c \in calls : FinishDelete(c)
         \/ \E i \in Id : PaidAtTheCounter(i) \/ DeletedOnItsPage(i)
<1>1. CASE Working
  <2>1. ASSUME NEW i \in Id, NEW s \in Target, Drop(i, s) \/ AskMove(i, s)
        PROVE  UNCHANGED <<marks, deleted, made>>
    BY <2>1 DEF Drop, AskMove, disk
  <2>2. ASSUME NEW i \in Id, AskDelete(i) \/ OpenEditModal(i)
        PROVE  UNCHANGED <<marks, deleted, made>>
    BY <2>2 DEF AskDelete, OpenEditModal, disk
  <2> QED
    BY <1>1, <2>1, <2>2 DEF Working, OpenBoard, Leave, Close, ConfirmMove, ConfirmRemoveJob,
                SaveJobDetails, OpenCreateModal, CreateJob, disk
<1>2. CASE Answers
  BY <1>2 DEF Answers, Sync, ServeJobs, JobsArrive, JobsLost, ApplyJobs, Serve, Lose,
              Finish, FinishMove, FinishEdit, FinishDelete, FinishCreate, disk
<1>3. CASE Others
  BY <1>3 DEF Others, Elsewhere, disk
<1>4. CASE UNCHANGED vars
  BY <1>4 DEF vars, disk
<1> QED
  BY <1>1, <1>2, <1>3, <1>4 DEF Next

Grows == Known \subseteq Known' /\ WhyPaid \subseteq WhyPaid'

\* A mark is taken away only from an order that is then listed as deleted.
LEMMA GrowsStep ==
  ASSUME IInv, [Next]_vars
  PROVE  Grows /\ marks' \subseteq Id /\ made' \subseteq Local /\ deleted' \subseteq Known'
<1>1. /\ \A j \in Job : rows[j].paid => rows'[j].paid
      /\ marks \subseteq Id /\ made \subseteq Local /\ deleted \subseteq Known
  BY RowsStep DEF IInv, TypeOK
<1>2. CASE UNCHANGED <<marks, deleted, made>>
  BY <1>1, <1>2 DEF Grows, Known, WhyPaid
<1>3. ASSUME UNCHANGED <<marks, deleted>>, NEW c \in calls, FinishCreate(c)
      PROVE  Grows /\ marks' \subseteq Id /\ made' \subseteq Local /\ deleted' \subseteq Known'
  <2>1. PICK i : made' = made \cup ({i} \cap Local)
    BY <1>3 DEF FinishCreate
  <2> QED
    BY <1>1, <1>3, <2>1 DEF Grows, Known, WhyPaid
<1>4. ASSUME UNCHANGED made, NEW c \in calls, FinishDelete(c)
      PROVE  Grows /\ marks' \subseteq Id /\ made' \subseteq Local /\ deleted' \subseteq Known'
  <2>1. CASE UNCHANGED disk
    BY <1>1, <1>4, <2>1 DEF Grows, Known, WhyPaid, disk
  <2>2. CASE deleted' = deleted \cup {c.id} /\ marks' = marks \ {c.id}
    <3>1. c.id \in Known
      BY <1>4 DEF FinishDelete, IInv, HandlersTyped
    <3> QED
      BY <1>1, <1>4, <2>2, <3>1 DEF Grows, Known, WhyPaid
  <2> QED
    BY <1>4, <2>1, <2>2 DEF FinishDelete
<1>5. ASSUME NEW i \in Id, PaidAtTheCounter(i)
      PROVE  Grows /\ marks' \subseteq Id /\ made' \subseteq Local /\ deleted' \subseteq Known'
  <2>1. marks' = marks \cup {i} /\ UNCHANGED <<deleted, made>>
    BY <1>5 DEF PaidAtTheCounter
  <2> QED
    BY <1>1, <2>1 DEF Grows, Known, WhyPaid
<1>6. ASSUME NEW i \in Id, DeletedOnItsPage(i)
      PROVE  Grows /\ marks' \subseteq Id /\ made' \subseteq Local /\ deleted' \subseteq Known'
  <2>1. /\ i \in DOMAIN stored \cup Alive /\ deleted' = deleted \cup {i}
        /\ marks' = marks \ {i} /\ made' = made
    BY <1>6 DEF DeletedOnItsPage
  <2>2. i \in Known
    BY <2>1 DEF IInv, ListsSound, Sound, Alive, Known
  <2> QED
    BY <1>1, <2>1, <2>2 DEF Grows, Known, WhyPaid
<1> QED
  BY MarkWriters, <1>2, <1>3, <1>4, <1>5, <1>6

----------------------------------------------------------------------------
(* The caches and the page.                                                *)

Agree == /\ Sound(stored, Known, WhyPaid) /\ Sound(cards, Known, WhyPaid)
         /\ active \subseteq Id /\ CashierListAgrees

LEMMA KnownIds ==
  ASSUME made' \subseteq Local
  PROVE  Known' \subseteq Id
BY DEF Known, Id

\* A sound list is written to the caches, and perhaps to the page.
LEMMA SyncStep ==
  ASSUME IInv, Grows, NEW l, NEW here, SyncJobsState(l, here), Sound(l, Known, WhyPaid)
  PROVE  Agree'
<1>1. Sound(cards, Known, WhyPaid)
  BY DEF IInv, ListsSound
<1>2. Sound(l, Known', WhyPaid') /\ Sound(cards, Known', WhyPaid')
  BY <1>1, SoundGrows DEF Grows
<1> QED
  BY <1>2, SyncAgrees DEF Agree

\* The caches are left alone, and the page shows a sound list.
LEMMA ShowStep ==
  ASSUME IInv, Grows, UNCHANGED <<stored, active, deleted>>, Sound(cards', Known, WhyPaid)
  PROVE  Agree'
<1>1. Sound(stored', Known, WhyPaid) /\ active' \subseteq Id /\ CashierListAgrees'
  BY DEF IInv, ListsSound, TypeOK, CashierListAgrees
<1> QED
  BY <1>1, SoundGrows DEF Grows, Agree

LEMMA FetchSound ==
  ASSUME IInv, NEW a \in asked
  PROVE  /\ Sound(Fetched(a), Known, WhyPaid)
         /\ Sound(Combined(a), Known, WhyPaid)
         /\ Sound(Without(stored, a.deleted), Known, WhyPaid)
<1>0. Known \subseteq Id /\ Job \subseteq Known
  BY DEF Known, Id, IInv, TypeOK
<1>s. Sound(stored, Known, WhyPaid)
  BY DEF IInv, ListsSound
<1>r. Sound(a.rows, Job, WhyPaid)
  BY DEF IInv, ListsSound
<1>d. DOMAIN a.rows \subseteq Job
  BY <1>r DEF Sound
<1> DEFINE f == Fetched(a)
           w == Combined(a)
<1>1. /\ DOMAIN f = DOMAIN a.rows \ a.deleted /\ f = [i \in DOMAIN f |-> f[i]]
      /\ \A i \in DOMAIN f : f[i] = [a.rows[i] EXCEPT !.paid = IsPaid(i, a.rows[i])]
  BY DEF Fetched
<1>2. /\ DOMAIN w = DOMAIN f \cup ((DOMAIN stored \cap Local) \ a.deleted)
      /\ w = [i \in DOMAIN w |-> w[i]]
      /\ \A i \in DOMAIN w : w[i] = IF i \in DOMAIN f THEN f[i] ELSE stored[i]
  BY DEF Combined
<1> HIDE DEF f, w
<1>3. ASSUME NEW i \in DOMAIN f
      PROVE  /\ f[i] \in Card /\ (f[i].st = "RELEASED" => f[i].paid)
             /\ f[i].paid => i \in WhyPaid
  <2>1. i \in DOMAIN a.rows
    BY <1>1
  <2>2. /\ a.rows[i] \in Card /\ (a.rows[i].st = "RELEASED" => a.rows[i].paid)
        /\ a.rows[i].paid => i \in WhyPaid
    BY <2>1, <1>r, SoundCard
  <2>3. IsPaid(i, a.rows[i]) \in BOOLEAN /\ (IsPaid(i, a.rows[i]) => i \in WhyPaid)
        /\ (a.rows[i].paid => IsPaid(i, a.rows[i]))
    BY <2>2 DEF IsPaid, WhyPaid, Card
  <2>4. f[i] = [a.rows[i] EXCEPT !.paid = IsPaid(i, a.rows[i])]
    BY <1>1
  <2> QED
    BY <2>2, <2>3, <2>4 DEF Card
<1>4. Sound(f, Known, WhyPaid)
  BY <1>0, <1>d, <1>1, <1>3, SoundBuilt
<1>5. Sound(w, Known, WhyPaid)
  <2>1. DOMAIN w \subseteq Known
    BY <1>0, <1>d, <1>1, <1>2, <1>s DEF Sound
  <2>2. ASSUME NEW i \in DOMAIN w
        PROVE  /\ w[i] \in Card /\ (w[i].st = "RELEASED" => w[i].paid)
               /\ w[i].paid => i \in WhyPaid
    BY <1>2, <1>3, <1>s, SoundCard
  <2> QED
    BY <1>0, <1>2, <2>1, <2>2, SoundBuilt
<1>6. Sound(Without(stored, a.deleted), Known, WhyPaid)
  BY <1>0, <1>s, WithoutSound
<1> QED
  BY <1>4, <1>5, <1>6 DEF f, w

\* A move that is allowed has the order's payment behind it.
LEMMA MoveStep ==
  ASSUME IInv, Grows, NEW i, NEW s \in Stage, ExecuteMoveJob(i, s), UNCHANGED deleted
  PROVE  Agree' /\ past' \subseteq WhyPaid'
<1>s. Sound(cards, Known, WhyPaid)
  BY DEF IInv, ListsSound
<1>p. past \subseteq WhyPaid /\ Known \subseteq Id
  BY DEF IInv, Known, Id, TypeOK
<1>1. CASE ~CanMove(i, s)
  BY <1>1, <1>s, <1>p, ShowStep DEF ExecuteMoveJob, Grows
<1>2. CASE CanMove(i, s)
  <2> DEFINE w == [cards EXCEPT ![i] = [st |-> s, paid |-> IsPaid(i, @)]]
             c == [st |-> s, paid |-> IsPaid(i, cards[i])]
  <2>1. i \in DOMAIN cards /\ (s = "RELEASED" => IsPaid(i, cards[i]))
    BY <1>2 DEF CanMove
  <2>2. cards[i] \in Card /\ i \in Known /\ (IsPaid(i, cards[i]) => i \in WhyPaid)
        /\ IsPaid(i, cards[i]) \in BOOLEAN
    BY <1>s, <2>1, SoundCard DEF IsPaid, WhyPaid, Card
  <2>3. c \in Card /\ (c.st = "RELEASED" => c.paid) /\ (c.paid => i \in WhyPaid)
    BY <2>1, <2>2 DEF Card
  <2>4. w = [k \in DOMAIN cards \cup {i} |-> IF k = i THEN c ELSE cards[k]]
    <3>1. cards = [k \in DOMAIN cards |-> cards[k]]
      BY <1>s, ListIs DEF Sound
    <3> QED
      BY <2>1, <3>1
  <2> HIDE DEF c
  <2>5. Sound(w, Known, WhyPaid)
    BY <1>s, <1>p, <2>2, <2>3, <2>4, PutSound
  <2>6. SyncJobsState(w, TRUE)
        /\ past' = IF s = "RELEASED" THEN past \cup {i} ELSE past
    BY <1>2 DEF ExecuteMoveJob
  <2> HIDE DEF w
  <2>7. Agree'
    BY <2>5, <2>6, SyncStep
  <2> QED
    BY <1>p, <2>1, <2>2, <2>6, <2>7 DEF Grows
<1> QED
  BY <1>1, <1>2

LEMMA ApplyStep ==
  ASSUME IInv, Grows, NEW a \in asked, ApplyJobs(a)
  PROVE  Agree'
<1>1. CASE DOMAIN Fetched(a) # {}
  BY <1>1, FetchSound, SyncStep DEF ApplyJobs
<1>2. CASE DOMAIN Fetched(a) = {}
  <2>1. Sound(cards, Known, WhyPaid) /\ Sound(Without(stored, a.deleted), Known, WhyPaid)
    BY FetchSound DEF IInv, ListsSound
  <2>2. Sound(cards', Known, WhyPaid) /\ UNCHANGED <<stored, active, deleted>>
    BY <1>2, <2>1 DEF ApplyJobs
  <2> QED
    BY <2>2, ShowStep
<1> QED
  BY <1>1, <1>2

\* A handler goes on with the list of the moment it was called.
LEMMA FinishStep ==
  ASSUME IInv, [Next]_vars, NEW c \in calls,
         FinishMove(c) \/ FinishEdit(c) \/ FinishDelete(c) \/ FinishCreate(c)
  PROVE  Agree' /\ past' \subseteq WhyPaid'
<1>g. Grows
  BY GrowsStep
<1>s. Sound(cards, Known, WhyPaid) /\ Sound(c.list, Known, WhyPaid)
  BY DEF IInv, ListsSound
<1>p. past \subseteq WhyPaid /\ Known \subseteq Id
  BY DEF IInv, Known, Id, TypeOK
<1>1. CASE FinishMove(c)
  <2>1. CASE UNCHANGED <<stored, active, cards>>
    BY <1>1, <1>g, <1>s, <1>p, <2>1, ShowStep DEF FinishMove, Grows
  <2>2. CASE SyncJobsState(c.list, c.here)
    BY <1>1, <1>g, <1>s, <1>p, <2>2, SyncStep DEF FinishMove, Grows
  <2> QED
    BY <1>1, <2>1, <2>2 DEF FinishMove
<1>2. CASE FinishEdit(c)
  BY <1>2, <1>g, <1>s, <1>p, SyncStep DEF FinishEdit, Grows
<1>3. CASE FinishDelete(c)
  <2>1. CASE UNCHANGED <<disk, cards>>
    BY <1>g, <1>s, <1>p, <2>1, ShowStep DEF Grows, disk
  <2>2. CASE /\ SyncJobsState(Without(c.list, {c.id}), c.here)
             /\ past' = IF c.card.st = "RELEASED" THEN past \ {c.id} ELSE past
    <3>1. Sound(Without(c.list, {c.id}), Known, WhyPaid)
      BY <1>s, <1>p, WithoutSound
    <3>2. Agree'
      BY <1>g, <2>2, <3>1, SyncStep
    <3> QED
      BY <1>g, <1>p, <2>2, <3>2 DEF Grows
  <2> QED
    BY <1>3, <2>1, <2>2 DEF FinishDelete
<1>4. CASE FinishCreate(c)
  <2>1. PICK i \in IF c.st = "ok" THEN {c.id} ELSE Local \ made :
          /\ SyncJobsState([k \in DOMAIN c.list \cup {i} |-> IF k = i THEN New ELSE c.list[k]],
                           c.here)
          /\ made' = made \cup ({i} \cap Local)
    BY <1>4 DEF FinishCreate
  <2>2. c.kind = "create" /\ past' = past
    BY <1>4 DEF FinishCreate
  <2>3. i \in Known'
    <3>1. CASE c.st = "ok"
      BY <2>1, <2>2, <3>1 DEF IInv, HandlersTyped, Known
    <3>2. CASE c.st # "ok"
      BY <2>1, <3>2 DEF Known
    <3> QED
      BY <3>1, <3>2
  <2>4. Sound(cards, Known', WhyPaid') /\ Sound(c.list, Known', WhyPaid')
    BY <1>g, <1>s, SoundGrows DEF Grows
  <2>5. New \in Card /\ New.st # "RELEASED" /\ ~New.paid
    BY DEF New, Card, Stage
  <2>6. Known' \subseteq Id
    BY GrowsStep, KnownIds
  <2>7. Sound([k \in DOMAIN c.list \cup {i} |-> IF k = i THEN New ELSE c.list[k]],
              Known', WhyPaid')
    BY <2>3, <2>4, <2>5, <2>6, PutSound
  <2>8. Agree'
    BY <2>1, <2>4, <2>7, SyncAgrees DEF Agree
  <2> QED
    BY <1>g, <1>p, <2>2, <2>8 DEF Grows
<1> QED
  BY <1>1, <1>2, <1>3, <1>4

LEMMA CounterStep ==
  ASSUME IInv, [Next]_vars, NEW i \in Id, PaidAtTheCounter(i)
  PROVE  Agree' /\ past' \subseteq WhyPaid'
<1>g. Grows
  BY GrowsStep
<1>0. /\ UNCHANGED <<deleted, past, cards>> /\ active' = active \ {i} /\ marks' = marks \cup {i}
      /\ stored' = IF i \in DOMAIN stored THEN [stored EXCEPT ![i].paid = TRUE] ELSE stored
  BY DEF PaidAtTheCounter, tab
<1>s. Sound(cards, Known, WhyPaid) /\ Sound(stored, Known, WhyPaid)
  BY DEF IInv, ListsSound
<1>p. past \subseteq WhyPaid /\ active \subseteq Id /\ CashierListAgrees
  BY DEF IInv, TypeOK
<1>1. Sound(cards', Known', WhyPaid') /\ past' \subseteq WhyPaid' /\ active' \subseteq Id
  BY <1>0, <1>g, <1>s, <1>p, SoundGrows DEF Grows
<1>2. Sound(stored, Known', WhyPaid') /\ i \in WhyPaid' /\ Known' \subseteq Id
  BY <1>0, <1>g, <1>s, SoundGrows, GrowsStep, KnownIds DEF Grows, WhyPaid
<1>3. CASE i \in DOMAIN stored
  <2> DEFINE w == [stored EXCEPT ![i].paid = TRUE]
             c == [stored[i] EXCEPT !.paid = TRUE]
  <2>1. stored[i] \in Card /\ i \in Known'
    BY <1>2, <1>3, SoundCard
  <2>2. c \in Card /\ (c.st = "RELEASED" => c.paid) /\ (c.paid => i \in WhyPaid')
        /\ c.paid
    BY <1>2, <2>1 DEF Card
  <2>3. stored = [k \in DOMAIN stored |-> stored[k]]
    BY <1>s, ListIs DEF Sound
  <2>4. w = [k \in DOMAIN stored \cup {i} |-> IF k = i THEN c ELSE stored[k]]
    BY <1>3, <2>3
  <2>5. DOMAIN w = DOMAIN stored /\ w[i].paid /\ \A k \in DOMAIN w : k # i => w[k] = stored[k]
    BY <1>3, <2>2, <2>4
  <2> HIDE DEF c
  <2>6. Sound(w, Known', WhyPaid')
    BY <1>2, <2>1, <2>2, <2>4, PutSound
  <2>7. stored' = w
    BY <1>0, <1>3
  <2> HIDE DEF w
  <2>8. CashierListAgrees'
    BY <1>0, <1>p, <2>5, <2>7 DEF CashierListAgrees
  <2> QED
    BY <1>1, <2>6, <2>7, <2>8 DEF Agree
<1>4. CASE i \notin DOMAIN stored
  <2>1. CashierListAgrees'
    BY <1>0, <1>p, <1>4 DEF CashierListAgrees
  <2> QED
    BY <1>0, <1>1, <1>2, <1>4, <2>1 DEF Agree
<1> QED
  BY <1>3, <1>4

LEMMA JobPageStep ==
  ASSUME IInv, [Next]_vars, NEW i \in Id, DeletedOnItsPage(i)
  PROVE  Agree' /\ past' \subseteq WhyPaid'
<1>g. Grows
  BY GrowsStep
<1>0. UNCHANGED <<active, past, cards>> /\ deleted' = deleted \cup {i}
      /\ stored' = Without(stored, {i})
  BY DEF DeletedOnItsPage, tab
<1>s. Sound(cards, Known, WhyPaid) /\ Sound(stored, Known, WhyPaid)
  BY DEF IInv, ListsSound
<1>p. past \subseteq WhyPaid /\ active \subseteq Id /\ CashierListAgrees
  BY DEF IInv, TypeOK
<1>1. Sound(cards', Known', WhyPaid') /\ past' \subseteq WhyPaid' /\ active' \subseteq Id
  BY <1>0, <1>g, <1>s, <1>p, SoundGrows DEF Grows
<1>2. Sound(stored', Known', WhyPaid')
  <2>1. Sound(stored, Known', WhyPaid') /\ Known' \subseteq Id
    BY <1>g, <1>s, SoundGrows, GrowsStep, KnownIds DEF Grows
  <2> QED
    BY <1>0, <2>1, WithoutSound
<1>3. DOMAIN stored' = DOMAIN stored \ {i} /\ \A k \in DOMAIN stored' : stored'[k] = stored[k]
  BY <1>0 DEF Without
<1>4. CashierListAgrees'
  BY <1>0, <1>p, <1>3 DEF CashierListAgrees
<1> QED
  BY <1>1, <1>2, <1>4 DEF Agree

\* The lists that are shown and cached stay sound, and agree.
LEMMA AgreeStep ==
  ASSUME IInv, [Next]_vars
  PROVE  Agree' /\ past' \subseteq WhyPaid'
<1>g. Grows
  BY GrowsStep
<1>s. Sound(cards, Known, WhyPaid) /\ Sound(Empty, Known, WhyPaid)
  BY EmptySound DEF IInv, ListsSound
<1>p. past \subseteq WhyPaid
  BY DEF IInv
<1>0. ASSUME UNCHANGED disk, cards' = cards \/ cards' = Empty
      PROVE  Agree' /\ past' \subseteq WhyPaid'
  BY <1>0, <1>g, <1>s, <1>p, ShowStep DEF disk, Grows
<1>1. CASE Working
  <2>1. ASSUME NEW i \in Id, NEW s \in Target, Drop(i, s)
        PROVE  Agree' /\ past' \subseteq WhyPaid'
    BY <2>1, <1>g, MoveStep DEF Drop
  <2>2. ASSUME ConfirmMove PROVE Agree' /\ past' \subseteq WhyPaid'
    <3>1. dialog.to \in Stage
      BY <2>2 DEF ConfirmMove, MoveModal, Shows, IInv, HandlersTyped
    <3> QED
      BY <1>g, <2>2, <3>1, MoveStep DEF ConfirmMove
  <2>3. ASSUME NEW i \in Id, NEW s \in Target, AskMove(i, s) PROVE UNCHANGED <<disk, cards>>
    BY <2>3 DEF AskMove
  <2>4. ASSUME NEW i \in Id, AskDelete(i) \/ OpenEditModal(i) PROVE UNCHANGED <<disk, cards>>
    BY <2>4 DEF AskDelete, OpenEditModal
  <2>5. ASSUME OpenBoard \/ Leave \/ Close \/ ConfirmRemoveJob \/ SaveJobDetails
               \/ OpenCreateModal \/ CreateJob
        PROVE  UNCHANGED disk /\ (cards' = cards \/ cards' = Empty)
    BY <2>5 DEF OpenBoard, Leave, Close, ConfirmRemoveJob, SaveJobDetails, OpenCreateModal,
                CreateJob, tab
  <2> QED
    BY <1>1, <1>0, <2>1, <2>2, <2>3, <2>4, <2>5 DEF Working
<1>2. CASE Answers
  <2>1. ASSUME NEW a \in asked, ApplyJobs(a) PROVE Agree' /\ past' \subseteq WhyPaid'
    <3>1. past' = past
      BY <2>1 DEF ApplyJobs
    <3> QED
      BY <1>g, <1>p, <2>1, <3>1, ApplyStep DEF Grows
  <2>2. ASSUME Finish PROVE Agree' /\ past' \subseteq WhyPaid'
    BY <2>2, FinishStep DEF Finish
  <2>3. ASSUME Sync \/ ServeJobs \/ Serve \/ Lose PROVE UNCHANGED <<disk, cards>>
    BY <2>3 DEF Sync, ServeJobs, Serve, Lose, tab
  <2> QED
    BY <1>2, <1>0, <2>1, <2>2, <2>3 DEF Answers, JobsArrive, JobsLost
<1>3. CASE Others
  <2>1. ASSUME NEW j \in Job, Elsewhere(j) PROVE UNCHANGED <<disk, cards>>
    BY <2>1 DEF Elsewhere, tab
  <2> QED
    BY <1>3, <1>0, <2>1, CounterStep, JobPageStep DEF Others
<1>4. CASE UNCHANGED vars
  BY <1>4, <1>0 DEF vars, tab
<1> QED
  BY <1>1, <1>2, <1>3, <1>4 DEF Next

----------------------------------------------------------------------------
(* The requests that wait, and the dialog.                                 *)

LEMMA AskedStep ==
  ASSUME IInv, [Next]_vars
  PROVE  asked' \subseteq Fetch /\ \A a \in asked' : Sound(a.rows, Job, WhyPaid)
<1>0. asked \subseteq Fetch /\ \A a \in asked : Sound(a.rows, Job, WhyPaid)
  BY DEF IInv, HandlersTyped, ListsSound
<1>k. UNCHANGED asked => asked' \subseteq Fetch /\ \A a \in asked' : Sound(a.rows, Job, WhyPaid)
  BY <1>0
<1>1. ASSUME asked' = Ask
      PROVE  asked' \subseteq Fetch /\ \A a \in asked' : Sound(a.rows, Job, WhyPaid)
  <2> DEFINE n == [deleted |-> deleted, got |-> FALSE, rows |-> Empty, here |-> TRUE]
  <2>1. Sound(Empty, Job, WhyPaid) /\ Empty \in Lists
    BY EmptySound DEF Sound
  <2>2. deleted \subseteq Id
    BY DEF IInv, TypeOK
  <2>3. n \in Fetch /\ n.rows = Empty
    BY <2>1, <2>2 DEF Fetch
  <2>4. asked' \subseteq asked \cup {n}
    BY <1>1 DEF Ask
  <2> HIDE DEF n
  <2> QED
    BY <1>0, <2>1, <2>3, <2>4
<1>2. CASE Leave
  <2>1. asked' = {[a EXCEPT !.here = FALSE] : a \in asked}
    BY <1>2 DEF Leave
  <2>2. \A a \in asked : [a EXCEPT !.here = FALSE] \in Fetch
                         /\ [a EXCEPT !.here = FALSE].rows = a.rows
    BY <1>0 DEF Fetch
  <2> QED
    BY <1>0, <2>1, <2>2
<1>3. CASE ServeJobs
  <2> DEFINE l == [j \in Alive |-> rows[j]]
  <2>1. PICK a \in asked : asked' = (asked \ {a}) \cup {[a EXCEPT !.got = TRUE, !.rows = l]}
    BY <1>3 DEF ServeJobs
  <2>2. /\ DOMAIN l = Alive /\ l = [j \in DOMAIN l |-> l[j]]
        /\ \A j \in DOMAIN l : l[j] = rows[j]
    OBVIOUS
  <2>3. rows \in [Job -> Row] /\ RowsSound
    BY DEF IInv, TypeOK
  <2>4. \A j \in Alive : /\ j \in Job /\ rows[j] \in Card
                         /\ rows[j].st = "RELEASED" => rows[j].paid
                         /\ rows[j].paid => j \in WhyPaid
    <3> TAKE j \in Alive
    <3>1. j \in Job /\ rows[j].st \in Stage
      BY DEF Alive
    <3>2. rows[j] \in Row
      BY <2>3, <3>1
    <3>3. rows[j] \in Card
      BY <3>1, <3>2 DEF Row, Card
    <3> QED
      BY <2>3, <3>1, <3>3 DEF RowsSound, WhyPaid
  <2> HIDE DEF l
  <2>5. Job \subseteq Id
    BY DEF Id
  <2>6. Sound(l, Job, WhyPaid)
    BY <2>2, <2>4, <2>5, SoundBuilt
  <2>7. l \in Lists
    BY <2>6 DEF Sound
  <2>8. [a EXCEPT !.got = TRUE, !.rows = l] \in Fetch
        /\ [a EXCEPT !.got = TRUE, !.rows = l].rows = l
    BY <1>0, <2>7 DEF Fetch
  <2> QED
    BY <1>0, <2>1, <2>6, <2>8
<1>4. ASSUME NEW a \in asked, ApplyJobs(a) PROVE asked' \subseteq asked
  BY <1>4 DEF ApplyJobs
<1>5. CASE Working
  <2>1. ASSUME NEW i \in Id, NEW s \in Target, Drop(i, s) \/ AskMove(i, s) PROVE UNCHANGED asked
    BY <2>1 DEF Drop, AskMove
  <2>2. ASSUME NEW i \in Id, AskDelete(i) \/ OpenEditModal(i) PROVE UNCHANGED asked
    BY <2>2 DEF AskDelete, OpenEditModal
  <2>3. ASSUME Close \/ ConfirmMove \/ ConfirmRemoveJob \/ SaveJobDetails
               \/ OpenCreateModal \/ CreateJob
        PROVE  UNCHANGED asked
    BY <2>3 DEF Close, ConfirmMove, ConfirmRemoveJob, SaveJobDetails, OpenCreateModal, CreateJob
  <2>4. OpenBoard => asked' = Ask
    BY DEF OpenBoard
  <2> QED
    BY <1>5, <1>k, <1>1, <1>2, <2>1, <2>2, <2>3, <2>4 DEF Working
<1>6. CASE Answers
  <2>1. ASSUME Serve \/ Lose \/ Finish PROVE UNCHANGED asked
    BY <2>1 DEF Serve, Lose, Finish
  <2>2. Sync => asked' = Ask
    BY DEF Sync
  <2>3. JobsArrive \/ JobsLost => asked' \subseteq asked
    BY <1>4 DEF JobsArrive, JobsLost
  <2> QED
    BY <1>6, <1>0, <1>k, <1>1, <1>3, <2>1, <2>2, <2>3 DEF Answers
<1>7. CASE Others
  BY <1>7, <1>k DEF Others, PaidAtTheCounter, DeletedOnItsPage, Elsewhere
<1>8. CASE UNCHANGED vars
  BY <1>8, <1>k DEF vars
<1> QED
  BY <1>5, <1>6, <1>7, <1>8 DEF Next

\* A handler that waits for the server.
Fits(c, ids, why) ==
  /\ c \in Handler /\ Sound(c.list, ids, why)
  /\ c.kind # "create" => c.id \in ids
  /\ c.kind = "create" /\ c.st = "ok" => c.id \in Job
  /\ c.kind = "move" => c.to \in Stage
  /\ c.st = "cleared" => c.kind = "delete"

LEMMA FitsGrows ==
  ASSUME NEW c, NEW ids, NEW more, NEW why, NEW whys, Fits(c, ids, why),
         ids \subseteq more, why \subseteq whys
  PROVE  Fits(c, more, whys)
BY SoundGrows DEF Fits

\* What is sent begins with the list of the page.
LEMMA WaitsFits ==
  ASSUME IInv, NEW kind \in {"move", "edit", "delete", "create"},
         NEW i \in Known \cup {NoJob}, NEW s \in Stage \cup {"NONE"},
         kind # "create" => i \in Known, kind = "move" => s \in Stage
  PROVE  Fits(Waits(kind, i, s), Known, WhyPaid)
<1>1. Sound(cards, Known, WhyPaid) /\ cards \in Lists /\ Known \subseteq Id
  BY DEF IInv, ListsSound, Sound, TypeOK, Known, Id
<1>2. New \in Card
  BY DEF New, Card, Stage
<1>3. (IF i \in DOMAIN cards THEN cards[i] ELSE New) \in Card
  BY <1>1, <1>2, SoundCard
<1> DEFINE c == Waits(kind, i, s)
<1>4. /\ c.list = cards /\ c.kind = kind /\ c.id = i /\ c.to = s /\ c.st = "sent"
      /\ c \in Handler
  BY <1>1, <1>3 DEF Waits, Handler
<1> HIDE DEF c
<1>5. Fits(c, Known, WhyPaid)
  BY <1>1, <1>4 DEF Fits
<1> QED
  BY <1>5 DEF c

LEMMA CallsStep ==
  ASSUME IInv, [Next]_vars
  PROVE  \A c \in calls' : Fits(c, Known, WhyPaid)
<1>0. \A c \in calls : Fits(c, Known, WhyPaid)
  BY DEF IInv, HandlersTyped, ListsSound, Fits
<1>n. ASSUME NEW c, Call(c), Fits(c, Known, WhyPaid) PROVE \A d \in calls' : Fits(d, Known, WhyPaid)
  BY <1>0, <1>n DEF Call
<1>d. DOMAIN cards \subseteq Known
  BY DEF IInv, ListsSound, Sound
<1>m. ASSUME NEW i, NEW s \in Stage, ExecuteMoveJob(i, s)
      PROVE  \A c \in calls' : Fits(c, Known, WhyPaid)
  <2>1. CASE UNCHANGED calls
    BY <1>0, <2>1
  <2>2. CASE CanMove(i, s) /\ Call(Waits("move", i, s))
    <3>1. i \in Known
      BY <1>d, <2>2 DEF CanMove
    <3> QED
      BY <1>n, <2>2, <3>1, WaitsFits
  <2> QED
    BY <1>m, <2>1, <2>2 DEF ExecuteMoveJob
<1>1. CASE Working
  <2>1. ASSUME NEW i \in Id, NEW s \in Target, Drop(i, s)
        PROVE  \A c \in calls' : Fits(c, Known, WhyPaid)
    BY <1>m, <2>1 DEF Drop
  <2>2. ASSUME ConfirmMove PROVE \A c \in calls' : Fits(c, Known, WhyPaid)
    <3>1. dialog.to \in Stage
      BY <2>2 DEF ConfirmMove, MoveModal, Shows, IInv, HandlersTyped
    <3> QED
      BY <1>m, <2>2, <3>1 DEF ConfirmMove
  <2>3. ASSUME ConfirmRemoveJob PROVE \A c \in calls' : Fits(c, Known, WhyPaid)
    <3>1. dialog.id \in Known /\ dialog.card \in Card
      BY <2>3 DEF ConfirmRemoveJob, DeleteModal, Shows, IInv, HandlersTyped
    <3> DEFINE w == Waits("delete", dialog.id, "NONE")
               c == [w EXCEPT !.card = dialog.card]
    <3>2. Fits(w, Known, WhyPaid)
      BY <3>1, WaitsFits
    <3> HIDE DEF w
    <3>3. /\ c.kind = w.kind /\ c.id = w.id /\ c.st = w.st /\ c.to = w.to /\ c.list = w.list
          /\ c \in Handler
      BY <3>1, <3>2 DEF Fits, Handler
    <3> HIDE DEF c
    <3>4. Fits(c, Known, WhyPaid)
      BY <3>2, <3>3 DEF Fits
    <3>5. UNCHANGED calls \/ Call(c)
      BY <2>3 DEF ConfirmRemoveJob, c, w
    <3> QED
      BY <1>0, <1>n, <3>4, <3>5
  <2>4. ASSUME SaveJobDetails PROVE \A c \in calls' : Fits(c, Known, WhyPaid)
    <3>1. dialog.id \in Known /\ Call(Waits("edit", dialog.id, "NONE"))
      BY <2>4 DEF SaveJobDetails, EditForm, Shows, IInv, HandlersTyped
    <3> QED
      BY <1>n, <3>1, WaitsFits
  <2>5. ASSUME CreateJob PROVE \A c \in calls' : Fits(c, Known, WhyPaid)
    BY <1>n, <2>5, WaitsFits DEF CreateJob
  <2>6. ASSUME Leave PROVE \A c \in calls' : Fits(c, Known, WhyPaid)
    <3>1. calls' = {[c EXCEPT !.here = FALSE] : c \in calls}
      BY <2>6 DEF Leave
    <3>2. ASSUME NEW c \in calls PROVE Fits([c EXCEPT !.here = FALSE], Known, WhyPaid)
      <4> DEFINE d == [c EXCEPT !.here = FALSE]
      <4>1. /\ d.kind = c.kind /\ d.id = c.id /\ d.st = c.st /\ d.to = c.to /\ d.list = c.list
            /\ d \in Handler
        BY <1>0 DEF Fits, Handler
      <4> HIDE DEF d
      <4>2. Fits(d, Known, WhyPaid)
        BY <1>0, <4>1 DEF Fits
      <4> QED
        BY <4>2 DEF d
    <3> QED
      BY <3>1, <3>2
  <2>7. ASSUME NEW i \in Id, NEW s \in Target, AskMove(i, s) PROVE UNCHANGED calls
    BY <2>7 DEF AskMove
  <2>8. ASSUME NEW i \in Id, AskDelete(i) \/ OpenEditModal(i) PROVE UNCHANGED calls
    BY <2>8 DEF AskDelete, OpenEditModal
  <2>9. ASSUME OpenBoard \/ Close \/ OpenCreateModal PROVE UNCHANGED calls
    BY <2>9 DEF OpenBoard, Close, OpenCreateModal
  <2> QED
    BY <1>0, <1>1, <2>1, <2>2, <2>3, <2>4, <2>5, <2>6, <2>7, <2>8, <2>9 DEF Working
<1>a. ASSUME NEW c \in calls, NEW d, Answer(c, d), Fits(d, Known, WhyPaid)
      PROVE  \A e \in calls' : Fits(e, Known, WhyPaid)
  BY <1>0, <1>a DEF Answer
<1>b. ASSUME NEW c \in calls, NEW x \in {"cleared", "ok", "refused", "lost"},
             c.kind = "create" => x # "ok", x = "cleared" => c.kind = "delete"
      PROVE  Fits([c EXCEPT !.st = x], Known, WhyPaid)
  <2> DEFINE d == [c EXCEPT !.st = x]
  <2>1. /\ d.kind = c.kind /\ d.id = c.id /\ d.st = x /\ d.to = c.to /\ d.list = c.list
        /\ d \in Handler
    BY <1>0 DEF Fits, Handler
  <2> HIDE DEF d
  <2>2. Fits(d, Known, WhyPaid)
    BY <1>0, <1>b, <2>1 DEF Fits
  <2> QED
    BY <2>2 DEF d
<1>2. CASE Answers
  <2>1. ASSUME NEW c \in calls,
               ServeMove(c) \/ CheckDelete(c) \/ CommitDelete(c) \/ ServeEdit(c)
        PROVE  \A d \in calls' : Fits(d, Known, WhyPaid)
    <3>1. c.kind # "create"
      BY <1>0, <2>1 DEF ServeMove, CheckDelete, CommitDelete, ServeEdit, Fits
    <3>2. \/ Answer(c, [c EXCEPT !.st = "ok"]) \/ Answer(c, [c EXCEPT !.st = "refused"])
          \/ Answer(c, [c EXCEPT !.st = "cleared"]) /\ c.kind = "delete"
      BY <2>1 DEF ServeMove, CheckDelete, CommitDelete, ServeEdit
    <3> QED
      BY <1>a, <1>b, <3>1, <3>2
  <2>2. ASSUME NEW c \in calls, ServeCreate(c) PROVE \A d \in calls' : Fits(d, Known, WhyPaid)
    <3>1. PICK n \in Job : Answer(c, [c EXCEPT !.st = "ok", !.id = n])
      BY <2>2 DEF ServeCreate
    <3> DEFINE d == [c EXCEPT !.st = "ok", !.id = n]
    <3>2. /\ d.kind = c.kind /\ d.id = n /\ d.st = "ok" /\ d.to = c.to /\ d.list = c.list
          /\ d \in Handler
      BY <1>0 DEF Fits, Handler, Id
    <3> HIDE DEF d
    <3>3. Fits(d, Known, WhyPaid)
      BY <1>0, <3>2 DEF Fits, Known
    <3> QED
      BY <1>a, <3>1, <3>3 DEF d
  <2>3. ASSUME Lose PROVE \A d \in calls' : Fits(d, Known, WhyPaid)
    <3>1. PICK c \in calls : Answer(c, [c EXCEPT !.st = "lost"])
      BY <2>3 DEF Lose
    <3> QED
      BY <1>a, <1>b, <3>1
  <2>4. ASSUME Sync \/ ServeJobs \/ JobsArrive \/ JobsLost PROVE UNCHANGED calls
    BY <2>4 DEF Sync, ServeJobs, JobsArrive, JobsLost, ApplyJobs
  <2>5. ASSUME Finish PROVE calls' \subseteq calls
    BY <2>5 DEF Finish
  <2> QED
    BY <1>0, <1>2, <2>1, <2>2, <2>3, <2>4, <2>5 DEF Answers, Serve
<1>3. CASE Others
  BY <1>0, <1>3 DEF Others, PaidAtTheCounter, DeletedOnItsPage, Elsewhere
<1>4. CASE UNCHANGED vars
  BY <1>0, <1>4 DEF vars
<1> QED
  BY <1>1, <1>2, <1>3, <1>4 DEF Next

\* The dialogs that are open, for these ids.
DialogFits(d, ids) ==
  /\ d.kind \in {"none", "create", "move", "delete", "edit"}
  /\ d.kind \in {"move", "delete", "edit"} => d.id \in ids
  /\ d.kind = "move" => d.to \in Stage
  /\ d.kind = "delete" => d.card \in Card

LEMMA DialogStep ==
  ASSUME IInv, [Next]_vars
  PROVE  DialogFits(dialog', Known)
<1>0. DialogFits(dialog, Known) /\ DialogFits(Closed, Known)
  BY DEF IInv, HandlersTyped, DialogFits, Closed
<1>c. \A i \in DOMAIN cards : i \in Known /\ cards[i] \in Card
  BY SoundCard DEF IInv, ListsSound
<1>1. CASE Working
  <2>1. ASSUME NEW i \in Id, NEW s \in Target, AskMove(i, s) PROVE DialogFits(dialog', Known)
    <3>1. dialog' = [kind |-> "move", id |-> i, to |-> s] /\ i \in Known
      BY <1>c, <2>1 DEF AskMove, MobileCard, Listed
    <3> QED
      BY <3>1 DEF DialogFits
  <2>2. ASSUME NEW i \in Id, AskDelete(i) PROVE DialogFits(dialog', Known)
    <3>1. dialog' = [kind |-> "delete", id |-> i, card |-> cards[i]] /\ i \in DOMAIN cards
      BY <2>2 DEF AskDelete, MenuDelete, TrashDrop, MobileCard, DesktopCard, Listed
    <3> QED
      BY <1>c, <3>1 DEF DialogFits
  <2>3. ASSUME NEW i \in Id, OpenEditModal(i) PROVE DialogFits(dialog', Known)
    <3>1. dialog' = [kind |-> "edit", id |-> i] /\ i \in Known
      BY <1>c, <2>3 DEF OpenEditModal, MobileCard, Listed
    <3> QED
      BY <3>1 DEF DialogFits
  <2>4. DialogFits([kind |-> "create"], Known)
    BY DEF DialogFits
  <2>5. ASSUME NEW i \in Id, NEW s \in Target, Drop(i, s) PROVE UNCHANGED dialog
    BY <2>5 DEF Drop
  <2>6. ASSUME OpenBoard \/ Leave \/ Close \/ ConfirmMove \/ ConfirmRemoveJob \/ SaveJobDetails
               \/ OpenCreateModal \/ CreateJob
        PROVE  dialog' \in {dialog, Closed, [kind |-> "create"]}
    BY <2>6 DEF OpenBoard, Leave, Close, ConfirmMove, ConfirmRemoveJob, SaveJobDetails,
                OpenCreateModal, CreateJob, tab
  <2> QED
    BY <1>0, <1>1, <2>1, <2>2, <2>3, <2>4, <2>5, <2>6 DEF Working
<1>2. CASE Answers
  <2>1. ASSUME NEW c \in calls, FinishMove(c) \/ FinishEdit(c) \/ FinishDelete(c) \/ FinishCreate(c)
        PROVE  dialog' \in {dialog, Closed}
    BY <2>1 DEF FinishMove, FinishEdit, FinishDelete, FinishCreate, CloseOf
  <2>2. Finish => dialog' \in {dialog, Closed}
    BY <2>1 DEF Finish
  <2>3. ASSUME Sync \/ ServeJobs \/ JobsArrive \/ JobsLost \/ Serve \/ Lose PROVE UNCHANGED dialog
    BY <2>3 DEF Sync, ServeJobs, JobsArrive, JobsLost, ApplyJobs, Serve, Lose, tab
  <2> QED
    BY <1>0, <1>2, <2>2, <2>3 DEF Answers
<1>3. CASE Others
  BY <1>0, <1>3 DEF Others, PaidAtTheCounter, DeletedOnItsPage, Elsewhere, tab
<1>4. CASE UNCHANGED vars
  BY <1>0, <1>4 DEF vars, tab
<1> QED
  BY <1>1, <1>2, <1>3, <1>4 DEF Next

LEMMA PageStep ==
  ASSUME IInv, [Next]_vars
  PROVE  page' \in {"away", "loading", "ready"} /\ budget' \in 0 .. Budget
<1>0. page \in {"away", "loading", "ready"} /\ budget \in 0 .. Budget
  BY DEF IInv, TypeOK
<1>1. CASE Working
  <2>1. ASSUME NEW i \in Id, NEW s \in Target, Drop(i, s) \/ AskMove(i, s)
        PROVE  UNCHANGED <<page, budget>>
    BY <2>1 DEF Drop, AskMove, Quiet
  <2>2. ASSUME NEW i \in Id, AskDelete(i) \/ OpenEditModal(i) PROVE UNCHANGED <<page, budget>>
    BY <2>2 DEF AskDelete, OpenEditModal, Quiet
  <2> QED
    BY <1>0, <1>1, <2>1, <2>2
    DEF Working, OpenBoard, Leave, Close, ConfirmMove, ConfirmRemoveJob, SaveJobDetails,
        OpenCreateModal, CreateJob, Quiet, Spend, tab
<1>2. CASE Answers
  <2>1. ASSUME NEW a \in asked, ApplyJobs(a) PROVE page' \in {page, "ready"}
    BY <2>1 DEF ApplyJobs
  <2>2. JobsArrive \/ JobsLost => page' \in {page, "ready"}
    BY <2>1 DEF JobsArrive, JobsLost
  <2>3. Sync \/ ServeJobs \/ Serve \/ Lose \/ Finish => UNCHANGED page
    BY DEF Sync, ServeJobs, Serve, Lose, Finish, tab
  <2>4. Quiet \/ Spend
    BY <1>2 DEF Answers, Sync, ServeJobs, JobsArrive, JobsLost, Serve, Lose, Finish
  <2> QED
    BY <1>0, <1>2, <2>2, <2>3, <2>4 DEF Answers, Quiet, Spend
<1>3. CASE Others
  BY <1>0, <1>3 DEF Others, PaidAtTheCounter, DeletedOnItsPage, Elsewhere, Spend, tab
<1>4. CASE UNCHANGED vars
  BY <1>0, <1>4 DEF vars, tab
<1> QED
  BY <1>1, <1>2, <1>3, <1>4 DEF Next

----------------------------------------------------------------------------
(* The inductive invariant, and what follows from it.                      *)

LEMMA InitIInv == Init => IInv
<1> SUFFICES ASSUME Init PROVE IInv
  OBVIOUS
<1>1. Sound(Empty, Known, WhyPaid) /\ Empty \in Lists /\ DOMAIN Empty = {}
  BY EmptySound DEF Sound, Empty
<1>2. rows \in [Job -> Row] /\ RowsSound
  BY DEF Init, New, Row, Stage, RowsSound
<1>3. TypeOK
  BY <1>1, <1>2 DEF Init, TypeOK
<1>4. HandlersTyped
  BY DEF Init, HandlersTyped, Closed
<1>5. ListsSound
  BY <1>1 DEF Init, ListsSound
<1>6. CashierListAgrees
  BY <1>1 DEF Init, CashierListAgrees
<1> QED
  BY <1>2, <1>3, <1>4, <1>5, <1>6 DEF Init, IInv

LEMMA StepIInv == IInv /\ [Next]_vars => IInv'
<1> SUFFICES ASSUME IInv, [Next]_vars PROVE IInv'
  OBVIOUS
<1>g. Grows /\ marks' \subseteq Id /\ made' \subseteq Local /\ deleted' \subseteq Known'
      /\ Known' \subseteq Id
  BY GrowsStep, KnownIds
<1>1. Agree' /\ past' \subseteq WhyPaid'
  BY AgreeStep
<1>2. rows' \in [Job -> Row] /\ RowsSound'
  BY RowsStep DEF IInv, TypeOK
<1>3. asked' \subseteq Fetch /\ \A a \in asked' : Sound(a.rows, Job, WhyPaid')
  BY <1>g, AskedStep, SoundGrows DEF Grows
<1>4. \A c \in calls' : Fits(c, Known', WhyPaid')
  BY <1>g, CallsStep, FitsGrows DEF Grows
<1>5. DialogFits(dialog', Known')
  BY <1>g, DialogStep DEF Grows, DialogFits
<1>6. HandlersTyped'
  BY <1>3, <1>4, <1>5 DEF HandlersTyped, Fits, DialogFits
<1>7. ListsSound'
  BY <1>1, <1>3, <1>4 DEF ListsSound, Agree, Fits
<1>8. past' \subseteq Id
  <2>1. WhyPaid' \subseteq Id
    BY <1>g DEF WhyPaid, Id
  <2> QED
    BY <1>1, <2>1
<1>9. TypeOK'
  <2>1. stored' \in Lists /\ cards' \in Lists /\ active' \subseteq Id
    BY <1>1 DEF Agree, Sound
  <2>2. \A a \in asked' : a.deleted \subseteq Id /\ a.rows \in Lists
    BY <1>3 DEF Fetch
  <2>3. \A c \in calls' : c.id \in Id \cup {NoJob} /\ c.list \in Lists
    BY <1>4 DEF Fits, Handler
  <2> QED
    BY <1>2, <1>8, <1>g, <2>1, <2>2, <2>3, PageStep DEF TypeOK
<1> QED
  BY <1>g, <1>1, <1>2, <1>6, <1>7, <1>9 DEF IInv, Agree

LEMMA Safety == Spec => []IInv
BY InitIInv, StepIInv, PTL DEF Spec

\* Every list and every request of the board has its type.
THEOREM BoardTypeCorrect == Spec => []TypeOK
<1>1. IInv => TypeOK
  BY DEF IInv
<1> QED
  BY <1>1, Safety, PTL

\* A motorcycle leaves the shop only paid, whichever handler writes its list
\* back last: on the page, in the caches, on the server and in the history.
THEOREM ReleasedOnlyPaid == Spec => []PaidBeforeRelease
<1>1. IInv => PaidBeforeRelease
  <2> SUFFICES ASSUME IInv PROVE PaidBeforeRelease
    OBVIOUS
  <2>1. \A l \in {stored, cards} : \A i \in DOMAIN l : l[i].st = "RELEASED" => l[i].paid
    BY DEF IInv, ListsSound, Sound
  <2>2. \A j \in Job : rows[j].st = "RELEASED" => rows[j].paid
    BY DEF IInv, RowsSound
  <2>3. \A i \in past : i \in marks \cup deleted \/ (i \in Job /\ rows[i].paid)
    BY DEF IInv, WhyPaid
  <2> QED
    BY <2>1, <2>2, <2>3 DEF PaidBeforeRelease
<1> QED
  BY <1>1, Safety, PTL

\* The counter's list and the board's cache are one, but for deleted orders.
THEOREM CounterListAgrees == Spec => []CashierListAgrees
<1>1. IInv => CashierListAgrees
  BY DEF IInv
<1> QED
  BY <1>1, Safety, PTL

----------------------------------------------------------------------------
(* Deleted orders.                                                         *)

\* A deleted order comes back into the cache only out of a list that was asked
\* for, taken or shown before the deletion.
THEOREM GhostsOnlyFromOldLists == Spec => GhostsAreStale
<1> DEFINE Stale(i) == \/ \E a \in asked \ asked' : i \notin a.deleted
                       \/ \E c \in calls \ calls' : i \in DOMAIN c.list \cup {c.id}
                       \/ i \in DOMAIN cards
           Back(i) == i \in deleted /\ i \in DOMAIN stored' /\ i \notin DOMAIN stored
<1>1. ASSUME IInv, [Next]_vars, NEW i, Back(i) PROVE Stale(i)
  <2>k. UNCHANGED stored => Stale(i)
    BY <1>1
  <2>s. ASSUME NEW l, NEW here, SyncJobsState(l, here) PROVE i \in DOMAIN l
    BY <1>1, <2>s DEF SyncJobsState
  <2>m. ASSUME NEW j, NEW s, ExecuteMoveJob(j, s) PROVE Stale(i)
    <3>1. CASE CanMove(j, s)
      <4>1. i \in DOMAIN [cards EXCEPT ![j] = [st |-> s, paid |-> IsPaid(j, @)]]
        BY <2>m, <2>s, <3>1 DEF ExecuteMoveJob
      <4> QED
        BY <4>1
    <3>2. CASE ~CanMove(j, s)
      BY <2>k, <2>m, <3>2 DEF ExecuteMoveJob
    <3> QED
      BY <3>1, <3>2
  <2>1. CASE Working
    <3>1. ASSUME NEW j \in Id, NEW s \in Target, AskMove(j, s) PROVE UNCHANGED stored
      BY <3>1 DEF AskMove, disk
    <3>2. ASSUME NEW j \in Id, AskDelete(j) \/ OpenEditModal(j) PROVE UNCHANGED stored
      BY <3>2 DEF AskDelete, OpenEditModal, disk
    <3>3. ASSUME OpenBoard \/ Leave \/ Close \/ ConfirmRemoveJob \/ SaveJobDetails
                 \/ OpenCreateModal \/ CreateJob
          PROVE  UNCHANGED stored
      BY <3>3 DEF OpenBoard, Leave, Close, ConfirmRemoveJob, SaveJobDetails, OpenCreateModal,
                  CreateJob, disk
    <3>4. ConfirmMove => Stale(i)
      BY <2>m DEF ConfirmMove
    <3>5. ASSUME NEW j \in Id, NEW s \in Target, Drop(j, s) PROVE Stale(i)
      BY <2>m, <3>5 DEF Drop
    <3> QED
      BY <2>k, <2>1, <3>1, <3>2, <3>3, <3>4, <3>5 DEF Working
  <2>2. CASE Answers
    <3>1. ASSUME NEW a \in asked, ApplyJobs(a) PROVE Stale(i)
      <4>1. CASE SyncJobsState(Combined(a), a.here)
        <5>1. i \in DOMAIN Combined(a)
          BY <2>s, <4>1
        <5>2. i \in DOMAIN Fetched(a)
          BY <1>1, <5>1 DEF Combined
        <5>3. i \notin a.deleted /\ a \in asked \ asked'
          BY <3>1, <5>2 DEF Fetched, ApplyJobs
        <5> QED
          BY <5>3
      <4> QED
        BY <2>k, <3>1, <4>1 DEF ApplyJobs
    <3>2. ASSUME NEW c \in calls, calls' = calls \ {c},
                 FinishMove(c) \/ FinishEdit(c) \/ FinishDelete(c) \/ FinishCreate(c)
          PROVE  Stale(i)
      <4>0. c \in calls \ calls'
        BY <3>2
      <4>1. CASE SyncJobsState(c.list, c.here)
        BY <2>s, <4>0, <4>1
      <4>2. CASE SyncJobsState(Without(c.list, {c.id}), c.here)
        <5>1. i \in DOMAIN Without(c.list, {c.id})
          BY <2>s, <4>2
        <5>2. i \in DOMAIN c.list
          BY <5>1 DEF Without
        <5> QED
          BY <4>0, <5>2
      <4>3. CASE FinishCreate(c)
        <5>1. PICK j \in IF c.st = "ok" THEN {c.id} ELSE Local \ made :
                SyncJobsState([k \in DOMAIN c.list \cup {j} |-> IF k = j THEN New ELSE c.list[k]],
                              c.here)
          BY <4>3 DEF FinishCreate
        <5>2. i \in DOMAIN c.list \cup {j}
          BY <2>s, <5>1
        <5>3. j = c.id \/ j \notin Known
          BY <5>1 DEF Known
        <5>4. i \in Known
          BY <1>1 DEF IInv
        <5> QED
          BY <4>0, <5>2, <5>3, <5>4
      <4>4. CASE UNCHANGED stored
        BY <2>k, <4>4
      <4> QED
        BY <3>2, <4>1, <4>2, <4>3, <4>4 DEF FinishMove, FinishEdit, FinishDelete, disk
    <3>3. ASSUME Sync \/ ServeJobs \/ Serve \/ Lose PROVE UNCHANGED stored
      BY <3>3 DEF Sync, ServeJobs, Serve, Lose, disk
    <3>4. JobsArrive \/ JobsLost => Stale(i)
      BY <3>1 DEF JobsArrive, JobsLost
    <3>5. Finish => Stale(i)
      BY <3>2 DEF Finish
    <3> QED
      BY <2>k, <2>2, <3>3, <3>4, <3>5 DEF Answers
  <2>3. CASE Others
    <3>1. ASSUME NEW j, PaidAtTheCounter(j) PROVE DOMAIN stored' = DOMAIN stored
      BY <3>1 DEF PaidAtTheCounter
    <3>2. ASSUME NEW j, DeletedOnItsPage(j) PROVE DOMAIN stored' \subseteq DOMAIN stored
      BY <3>2 DEF DeletedOnItsPage, Without
    <3>3. ASSUME NEW j, Elsewhere(j) PROVE stored' = stored
      BY <3>3 DEF Elsewhere, disk
    <3> QED
      BY <1>1, <2>3, <3>1, <3>2, <3>3 DEF Others
  <2>4. CASE UNCHANGED vars
    BY <2>k, <2>4 DEF vars, disk
  <2> QED
    BY <1>1, <2>1, <2>2, <2>3, <2>4 DEF Next
<1>2. ASSUME IInv, [Next]_vars
      PROVE  [\A i \in deleted : i \in DOMAIN stored' \ DOMAIN stored => Stale(i)]_vars
  BY <1>1, <1>2
<1> QED
  BY <1>2, Safety, PTL DEF Spec, GhostsAreStale
=============================================================================
