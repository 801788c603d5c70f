------------------------------ MODULE Payroll ------------------------------
(***************************************************************************)
(* The payroll of the shop in one browser tab: /payroll and the payslip it *)
(* opens.  "Disbursed" is written down in three places that do not know of *)
(* each other: the server calls a commission disbursed once the customer   *)
(* has paid for the job, the payroll page marks what it shows, and a       *)
(* payslip is marked in motoshop_payroll_cache.                            *)
(*                                                                         *)
(* Amounts are left out: every record is worth something.  So is the limit *)
(* of 20 payslips in the cache.                                            *)
(***************************************************************************)
EXTENDS Integers, FiniteSets

CONSTANTS Comm,      \* ids of commissions
          Mech,      \* mechanics
          MechOf,    \* the mechanic of each commission
          Recent,    \* the commissions of the last 30 days
          Cashier,   \* the cashiers of the shop
          Sample,    \* the record the page makes up when it finds no cashier
          Role,      \* user_role
          MaxReleased, \* bound on the history
          MaxTimer,  \* bound on the disbursements under way
          Budget     \* bound on lost answers, departures and steps of the shop

ASSUME PayrollConstants ==
  /\ MechOf \in [Comm -> Mech] /\ Recent \subseteq Comm
  /\ Comm \cap (Cashier \cup {Sample}) = {} /\ Mech \cap (Cashier \cup {Sample}) = {}
  /\ Sample \notin Cashier /\ MaxTimer \in Nat /\ MaxReleased \in Nat /\ Budget \in Nat

VARIABLES
  comm,     \* comm[c]: what GET /repairs/commissions says of c
  cache,    \* motoshop_payroll_cache: the payslips by their ids
  page,     \* "away", "payroll" or "payslip"
  asked,    \* the requests of the mount
  shown,    \* the records of the page and their status
  period,   \* the period that is selected
  target,   \* the records that the modal asks about
  timers,   \* the disbursements under way
  slip,     \* the payslip of its page
  modal,    \* isDisburseModalOpen
  released, \* how often the funds of a record were released (history variable)
  budget

tab  == <<page, asked, shown, period, target, slip, modal>>
vars == <<comm, cache, tab, timers, released, budget>>

Status == {"PENDING", "DISBURSED"}
Paid   == Cashier \cup {Sample}
Record == Comm \cup Paid
Staff  == Mech \cup Paid
None   == "none"
Empty  == [x \in {} |-> "PENDING"]
Shown  == UNION {[S -> Status] : S \in SUBSET Record}

\* openPayslip makes the id of a payslip from the name of its staff; one that its
\* page makes up has the id of the user, where a user of that name is found.
ByName(s) == <<"name", s>>
ByUser(s) == <<"user", s>>
SlipId == {ByName(s) : s \in Staff} \cup {ByUser(s) : s \in Staff}

Slip   == [id : SlipId, status : Status, records : SUBSET Record]
NoSlip == [id |-> None]
Timer  == [here : BOOLEAN, counted : SUBSET Record, nth : 1 .. MaxTimer]
Asked  == [commissions : {"none", "sent", "got"}, cashiers : {"none", "sent"}, rows : Shown]

Still == [commissions |-> "none", cashiers |-> "none", rows |-> Empty]

Spend == budget > 0 /\ budget' = budget - 1
Quiet == UNCHANGED budget

Init ==
  /\ comm = [c \in Comm |-> "NONE"] /\ cache = [s \in {} |-> NoSlip]
  /\ page = "away" /\ asked = Still /\ shown = Empty /\ period = "MONTHLY"
  /\ target = {} /\ timers = {} /\ slip = NoSlip /\ modal = FALSE
  /\ released = [x \in Record |-> 0] /\ budget = Budget

----------------------------------------------------------------------------
(* Loading the page of the payroll.                                        *)

Guarded == Role \in {"admin", "manager"}

\* The timers of a page that is left go on without it.
Mount(p) ==
  /\ page' = p /\ shown' = Empty /\ period' = "MONTHLY" /\ target' = {} /\ modal' = FALSE
  /\ timers' = {[t EXCEPT !.here = FALSE] : t \in timers}

OpenPayroll ==
  /\ page # "payroll" /\ Mount("payroll") /\ slip' = NoSlip
  /\ asked' = [commissions |-> "sent", cashiers |-> "sent", rows |-> Empty]
  /\ Quiet /\ UNCHANGED <<comm, cache, released>>

Leave ==
  /\ page # "away" /\ Mount("away") /\ slip' = NoSlip /\ asked' = Still
  /\ Spend /\ UNCHANGED <<comm, cache, released>>

Earned == {c \in Comm : comm[c] # "NONE"}

ServeCommissions ==
  /\ asked.commissions = "sent"
  /\ asked' = [asked EXCEPT !.commissions = "got", !.rows = [c \in Earned |-> comm[c]]]
  /\ Quiet
  /\ UNCHANGED <<comm, cache, page, shown, period, target, slip, modal, timers, released>>

With(l) == [x \in DOMAIN shown \cup DOMAIN l |-> IF x \in DOMAIN l THEN l[x] ELSE shown[x]]

\* fetchCommissions: the list of the server replaces what is there.
CommissionsArrive ==
  /\ page = "payroll" /\ asked.commissions = "got"
  /\ asked' = [asked EXCEPT !.commissions = "none", !.rows = Empty]
  /\ shown' = With(asked.rows)
  /\ Quiet /\ UNCHANGED <<comm, cache, page, period, target, slip, modal, timers, released>>

\* fetchCashiers: nobody remembers who was paid.  An error or an empty list is
\* answered with a record of a cashier that there is not.
CashiersArrive ==
  /\ page = "payroll" /\ asked.cashiers = "sent"
  /\ asked' = [asked EXCEPT !.cashiers = "none"]
  /\ \/ shown' = With([x \in IF Cashier = {} THEN {Sample} ELSE Cashier |-> "PENDING"]) /\ Quiet
     \/ shown' = With([x \in {Sample} |-> "PENDING"]) /\ Spend
  /\ UNCHANGED <<comm, cache, page, period, target, slip, modal, timers, released>>

CommissionsLost ==
  /\ page = "payroll" /\ asked.commissions # "none"
  /\ asked' = [asked EXCEPT !.commissions = "none", !.rows = Empty] /\ Spend
  /\ UNCHANGED <<comm, cache, page, shown, period, target, slip, modal, timers, released>>

----------------------------------------------------------------------------
(* The page of the payroll.                                                *)

\* A cashier's record is of the moment it was loaded, so it is in any period.
InPeriod(x) == x \in Recent \cup Paid \/ period = "ALL"
Filtered    == {x \in DOMAIN shown : InPeriod(x)}
Pending(S)  == {x \in S \cap DOMAIN shown : shown[x] = "PENDING"}
RecordsOf(s) == {c \in Filtered \cap Comm : MechOf[c] = s}

\* The toolbar, and on a phone the sheet behind its button.
PeriodToolbar == page = "payroll" /\ Guarded /\ target = {}

SelectPeriod(p) ==
  /\ PeriodToolbar /\ period' = p /\ p # period /\ Quiet
  /\ UNCHANGED <<comm, cache, page, asked, shown, target, slip, modal, timers, released>>

Disbursing == \E t \in timers : t.here

\* "Disburse All Pending"; the modal shows what is pending in the period.
DisburseAll ==
  /\ page = "payroll" /\ Guarded /\ ~Disbursing
  /\ target = {} /\ Pending(Filtered) # {} /\ target' = Pending(Filtered) /\ Quiet
  /\ UNCHANGED <<comm, cache, page, asked, shown, period, slip, modal, timers, released>>

Cancel ==
  /\ target # {} /\ target' = {} /\ Quiet
  /\ UNCHANGED <<comm, cache, page, asked, shown, period, slip, modal, timers, released>>

\* The history counts up to a bound.
Once(S) == released' = [x \in Record |-> IF x \in S /\ released[x] < MaxReleased
                                         THEN released[x] + 1 ELSE released[x]]

\* "Release Funds": the modal closes, the rest waits for 600 ms.
ConfirmDisbursement ==
  /\ page = "payroll" /\ target # {} /\ target' = {}
  /\ \E n \in (1 .. MaxTimer) \ {t.nth : t \in timers} :
       timers' = timers \cup {[here |-> TRUE, counted |-> target, nth |-> n]}
  /\ Once(target) /\ Quiet
  /\ UNCHANGED <<comm, cache, page, asked, shown, period, slip, modal>>

\* Mutant of Disbursed: only what the selected period still shows is marked.
DisbursedInPeriod == [x \in DOMAIN shown |-> IF InPeriod(x) THEN "DISBURSED" ELSE shown[x]]

\* Every record there is by now, whatever the period.
Disbursed == [x \in DOMAIN shown |-> "DISBURSED"]

\* The page marks its records; the server and the cache hear nothing of it.
ExecuteDisbursement ==
  /\ \E t \in timers :
       /\ timers' = timers \ {t}
       /\ shown' = IF t.here THEN Disbursed ELSE shown
  /\ Quiet
  /\ UNCHANGED <<comm, cache, page, asked, period, target, slip, modal, released>>

----------------------------------------------------------------------------
(* The payslip.                                                            *)

MechanicRow(s) == page = "payroll" /\ Guarded /\ target = {} /\ s \in Mech /\ RecordsOf(s) # {}
CashierRow(s)  == page = "payroll" /\ Guarded /\ target = {} /\ s \in Filtered \cap Paid

\* A mechanic's payslip is disbursed when each of the records in it is.
SlipOf(s) ==
  LET records == IF s \in Mech THEN RecordsOf(s) ELSE {s} IN
  [id |-> ByName(s), records |-> records,
   status |-> IF Pending(records) = {} THEN "DISBURSED" ELSE "PENDING"]

Put(p) == [i \in DOMAIN cache \cup {p.id} |-> IF i = p.id THEN p ELSE cache[i]]

\* openPayslip: what the page shows takes the place of the payslip in the cache,
\* and is what the page of the payslip finds there.
OpenPayslip(s) ==
  /\ MechanicRow(s) \/ CashierRow(s)
  /\ cache' = Put(SlipOf(s)) /\ Mount("payslip") /\ slip' = SlipOf(s) /\ asked' = Still
  /\ Quiet /\ UNCHANGED <<comm, released>>

\* An address is looked for among the ids, and a name among the names too: what
\* openPayslip has put in front comes before what a payslip's page has added.
Cached(i, s) == IF i = ByName(s) /\ i \notin DOMAIN cache THEN {ByUser(s)} \cap DOMAIN cache
                                                        ELSE {i} \cap DOMAIN cache

\* Made up from the staff list or from nothing, pending and without records.
MadeUp(i, s) == [id |-> i, status |-> "PENDING", records |-> {s} \cap Paid]

\* The address of a payslip: by the name of its staff or by the id of the user.
LoadPayslip(s) ==
  /\ page = "away" /\ Mount("payslip") /\ asked' = Still
  /\ \E i \in {ByName(s), ByUser(s)} :
       \/ \E f \in Cached(i, s) : slip' = cache[f]
       \/ Cached(i, s) = {} /\ slip' \in {MadeUp(i, s), MadeUp(ByUser(s), s)}
  /\ Spend /\ UNCHANGED <<comm, cache, released>>

DisburseSettlement ==
  /\ page = "payslip" /\ slip.status = "PENDING" /\ ~modal /\ modal' = TRUE /\ Quiet
  /\ UNCHANGED <<comm, cache, page, asked, shown, period, target, slip, timers, released>>

KeepPayslip ==
  /\ modal /\ modal' = FALSE /\ Quiet
  /\ UNCHANGED <<comm, cache, page, asked, shown, period, target, slip, timers, released>>

\* Mutant of Settled: a payslip that is in the cache stays as it was there.
SettledUnlessCached(p) == IF p.id \in DOMAIN cache THEN cache ELSE Put(p)

\* The payslip in the cache is marked, or put there.
Settled(p) == Put(p)

\* handleDisburseSettlement.
ConfirmSettlement ==
  /\ modal /\ modal' = FALSE /\ slip' = [slip EXCEPT !.status = "DISBURSED"]
  /\ cache' = Settled(slip') /\ Once(slip.records) /\ Quiet
  /\ UNCHANGED <<comm, page, asked, shown, period, target, timers>>

----------------------------------------------------------------------------
(* The shop: a job is completed, its customer pays.                        *)

Earn(c) ==
  /\ comm[c] = "NONE" /\ comm' = [comm EXCEPT ![c] = "PENDING"]
  /\ Spend /\ UNCHANGED <<cache, tab, timers, released>>

CustomerPays(c) ==
  /\ comm[c] # "DISBURSED" /\ comm' = [comm EXCEPT ![c] = "DISBURSED"]
  /\ Spend /\ UNCHANGED <<cache, tab, timers, released>>

----------------------------------------------------------------------------
Lists == OpenPayroll \/ Leave \/ ServeCommissions \/ CommissionsArrive \/ CommissionsLost
         \/ CashiersArrive

Disbursement == DisburseAll \/ Cancel \/ ConfirmDisbursement \/ ExecuteDisbursement
                \/ \E p \in {"MONTHLY", "ALL"} : SelectPeriod(p)

Payslips == DisburseSettlement \/ KeepPayslip \/ ConfirmSettlement
            \/ \E s \in Staff : OpenPayslip(s) \/ LoadPayslip(s)

Shop == \E c \in Comm : Earn(c) \/ CustomerPays(c)

Next == Lists \/ Disbursement \/ Payslips \/ Shop

Spec == Init /\ [][Next]_vars

----------------------------------------------------------------------------
TypeOK ==
  /\ comm \in [Comm -> Status \cup {"NONE"}]
  /\ DOMAIN cache \subseteq SlipId /\ \A i \in DOMAIN cache : cache[i] \in Slip
  /\ page \in {"away", "payroll", "payslip"} /\ period \in {"MONTHLY", "ALL"}
  /\ shown \in Shown /\ target \subseteq Record
  /\ asked \in Asked /\ timers \subseteq Timer
  /\ slip \in Slip \cup {NoSlip} /\ modal \in BOOLEAN
  /\ released \in [Record -> 0 .. MaxReleased] /\ budget \in 0 .. Budget

Ended == {t \in timers : \A u \in timers' : u.nth # t.nth}

\* What the modal counted into its amount is marked as disbursed on the page when
\* the disbursement ends, although the user may select another period, and the
\* other list may arrive, in the time between.
CountedIsMarked ==
  [][\A t \in Ended : t.here =>
       \A x \in t.counted : x \in DOMAIN shown' /\ shown'[x] = "DISBURSED"]_vars

\* A payslip on its page has the status it has in the cache, where the next visit
\* finds it; a disbursed one is in the cache.
SlipAgrees ==
  page = "payslip" =>
    IF slip.id \in DOMAIN cache THEN cache[slip.id].status = slip.status
                                ELSE slip.status = "PENDING"

\* A payslip is in the cache under its id.
CacheById == \A i \in DOMAIN cache : cache[i].id = i

\* What a modal asks about, and what a disbursement counted, is still listed.
CountedIsListed ==
  /\ target # {} => page = "payroll" /\ target \subseteq DOMAIN shown
  /\ \A t \in timers : t.here => page = "payroll" /\ t.counted \subseteq DOMAIN shown

\* The page of a payslip has one; its modal is nowhere else.
SlipOnPage == (page = "payslip" => slip \in Slip) /\ (modal => page = "payslip")

\* The inductive invariant of the proofs.
IInv == TypeOK /\ CacheById /\ CountedIsListed /\ SlipOnPage /\ SlipAgrees

\* "This marks all pending compensation records as disbursed and creates an
\* immutable executive audit trail": no record is paid out a second time.
PaidOutOnce == \A x \in Record : released[x] <= 1
=============================================================================
