--------------------------- MODULE Payroll_proofs ---------------------------
(***************************************************************************)
(* Theorems about Payroll, for any commissions, staff, role and bounds:    *)
(* types, a payslip agrees with the cache, and a disbursement marks what   *)
(* it counted.                                                             *)
(***************************************************************************)
EXTENDS Payroll, TLAPS

USE PayrollConstants

-----------------------------------------------------------------------------
(* Lists of records with their status.                                      *)

\* A function from records to statuses is a list the page can show.
LEMMA IsShown ==
    ASSUME NEW S \in SUBSET Record, NEW f \in [S -> Status]
    PROVE  f \in Shown /\ DOMAIN f = S
  BY DEF Shown

\* And every list is one.
LEMMA ShownIs ==
    ASSUME NEW f \in Shown
    PROVE  DOMAIN f \subseteq Record /\ f \in [DOMAIN f -> Status]
  <1>1. PICK S \in SUBSET Record : f \in [S -> Status]
    BY DEF Shown
  <1>2. QED
    BY <1>1

LEMMA EmptyShown == Empty \in Shown /\ DOMAIN Empty = {}
  <1>1. Empty \in [{} -> Status]
    BY DEF Empty
  <1>2. QED
    BY <1>1, IsShown

\* A list that arrives is merged into the one of the page, which loses nothing.
LEMMA WithShown ==
    ASSUME shown \in Shown, NEW l \in Shown
    PROVE  With(l) \in Shown /\ DOMAIN shown \subseteq DOMAIN With(l)
  <1> DEFINE S == DOMAIN shown \cup DOMAIN l
  <1>1. /\ DOMAIN shown \subseteq Record /\ \A x \in DOMAIN shown : shown[x] \in Status
        /\ DOMAIN l \subseteq Record /\ \A x \in DOMAIN l : l[x] \in Status
    <2>1. shown \in [DOMAIN shown -> Status] /\ l \in [DOMAIN l -> Status]
      BY ShownIs
    <2>2. DOMAIN shown \subseteq Record /\ DOMAIN l \subseteq Record
      BY ShownIs
    <2>3. QED
      BY <2>1, <2>2
  <1>2. With(l) \in [S -> Status]
    BY <1>1 DEF With
  <1>3. S \in SUBSET Record
    BY <1>1
  <1>4. QED
    BY <1>2, <1>3, IsShown

LEMMA DisbursedShown ==
    ASSUME shown \in Shown
    PROVE  /\ Disbursed \in Shown /\ DOMAIN Disbursed = DOMAIN shown
           /\ \A x \in DOMAIN shown : Disbursed[x] = "DISBURSED"
  <1>1. Disbursed \in [DOMAIN shown -> Status]
    BY DEF Disbursed, Status
  <1>2. QED
    BY <1>1, ShownIs, IsShown DEF Disbursed

-----------------------------------------------------------------------------
(* Timers and payslips.                                                     *)

\* A page that is left takes nothing from its timers but that they are its own.
LEMMA Abandoned ==
    ASSUME timers \subseteq Timer, NEW p, Mount(p)
    PROVE  /\ timers' \subseteq Timer /\ \A t \in timers' : ~t.here
           /\ \A t \in timers : \E u \in timers' : u.nth = t.nth
  <1>1. \A t \in timers : /\ [t EXCEPT !.here = FALSE] \in Timer
                          /\ ~[t EXCEPT !.here = FALSE].here
                          /\ [t EXCEPT !.here = FALSE].nth = t.nth
    BY DEF Timer
  <1>2. timers' = {[t EXCEPT !.here = FALSE] : t \in timers}
    BY DEF Mount
  <1>3. QED
    BY <1>1, <1>2

LEMMA SlipOfType ==
    ASSUME NEW s \in Staff
    PROVE  SlipOf(s) \in Slip /\ SlipOf(s).id = ByName(s)
  <1>1. RecordsOf(s) \subseteq Record
    BY DEF RecordsOf, Record
  <1>2. s \notin Mech => {s} \subseteq Record
    BY DEF Staff, Record
  <1>3. QED
    BY <1>1, <1>2 DEF SlipOf, Slip, SlipId, Status

\* Writing a payslip into the cache.
LEMMA PutCache ==
    ASSUME TypeOK, CacheById, NEW p \in Slip
    PROVE  /\ DOMAIN Put(p) \subseteq SlipId /\ p.id \in DOMAIN Put(p) /\ Put(p)[p.id] = p
           /\ \A i \in DOMAIN Put(p) : Put(p)[i] \in Slip /\ Put(p)[i].id = i
  BY DEF TypeOK, CacheById, Put, Slip

LEMMA OnceType ==
    ASSUME TypeOK, NEW S, Once(S)
    PROVE  released' \in [Record -> 0 .. MaxReleased]
  BY DEF TypeOK, Once

-----------------------------------------------------------------------------
(* The invariant.                                                           *)

LEMMA InitIInv == Init => IInv
  <1> SUFFICES ASSUME Init PROVE IInv
    OBVIOUS
  <1>1. Empty \in Shown
    BY EmptyShown
  <1>2. TypeOK
    <2>1. asked \in Asked
      BY <1>1 DEF Init, Asked, Still
    <2>2. comm \in [Comm -> Status \cup {"NONE"}] /\ released \in [Record -> 0 .. MaxReleased]
      BY DEF Init
    <2>3. DOMAIN cache = {}
      BY DEF Init
    <2>4. DOMAIN cache \subseteq SlipId /\ \A i \in DOMAIN cache : cache[i] \in Slip
      BY <2>3
    <2>5. shown \in Shown /\ slip \in Slip \cup {NoSlip} /\ budget \in 0 .. Budget
      BY <1>1 DEF Init
    <2>6. /\ page \in {"away", "payroll", "payslip"} /\ period \in {"MONTHLY", "ALL"}
          /\ target \subseteq Record /\ timers \subseteq Timer /\ modal \in BOOLEAN
      BY DEF Init
    <2>7. QED
      BY <2>1, <2>2, <2>4, <2>5, <2>6 DEF TypeOK
  <1>3. QED
    BY <1>2 DEF Init, IInv, CacheById, CountedIsListed, SlipOnPage, SlipAgrees

\* The pages come and go.
LEMMA LeaveStep ==
    ASSUME IInv, OpenPayroll \/ Leave \/ \E s \in Staff : OpenPayslip(s) \/ LoadPayslip(s)
    PROVE  IInv'
  <1> USE DEF IInv
  <1>1. PICK p : Mount(p)
    BY DEF OpenPayroll, Leave, OpenPayslip, LoadPayslip
  <1>2. timers' \subseteq Timer /\ \A t \in timers' : ~t.here
    BY <1>1, Abandoned DEF TypeOK
  <1>3. shown' \in Shown /\ target' = {} /\ modal' = FALSE /\ period' = "MONTHLY"
    BY <1>1, EmptyShown DEF Mount
  <1>4. CountedIsListed'
    BY <1>2, <1>3 DEF CountedIsListed
  <1>5. Still \in Asked /\ [commissions |-> "sent", cashiers |-> "sent", rows |-> Empty] \in Asked
    BY EmptyShown DEF Still, Asked
  <1>6. CASE OpenPayroll \/ Leave
    <2>1. /\ page' \in {"away", "payroll"} /\ slip' = NoSlip
          /\ UNCHANGED <<comm, cache, released>> /\ budget' \in 0 .. Budget
      BY <1>6 DEF OpenPayroll, Leave, Mount, Quiet, Spend, TypeOK
    <2>2. TypeOK'
      BY <1>2, <1>3, <1>5, <1>6, <2>1 DEF TypeOK, OpenPayroll, Leave
    <2>3. QED
      BY <1>3, <1>4, <2>1, <2>2 DEF CacheById, SlipOnPage, SlipAgrees
  <1>7. ASSUME NEW s \in Staff, OpenPayslip(s)
        PROVE  IInv'
    <2>1. /\ page' = "payslip" /\ slip' = SlipOf(s) /\ cache' = Put(SlipOf(s)) /\ asked' = Still
          /\ UNCHANGED <<comm, released, budget>>
      BY <1>7 DEF OpenPayslip, Mount, Quiet
    <2>2. slip' \in Slip /\ slip'.id = ByName(s)
      BY <2>1, SlipOfType
    <2>3. /\ DOMAIN cache' \subseteq SlipId /\ slip'.id \in DOMAIN cache'
          /\ cache'[slip'.id] = slip'
          /\ \A x \in DOMAIN cache' : cache'[x] \in Slip /\ cache'[x].id = x
      BY <2>1, SlipOfType, PutCache
    <2>4. TypeOK'
      BY <1>2, <1>3, <1>5, <2>1, <2>2, <2>3 DEF TypeOK
    <2>5. QED
      BY <1>3, <1>4, <2>1, <2>2, <2>3, <2>4 DEF CacheById, SlipOnPage, SlipAgrees
  <1>8. ASSUME NEW s \in Staff, LoadPayslip(s)
        PROVE  IInv'
    <2>1. /\ page' = "payslip" /\ asked' = Still /\ UNCHANGED <<comm, cache, released>>
          /\ budget' \in 0 .. Budget
      BY <1>8 DEF LoadPayslip, Mount, Spend, TypeOK
    <2>2. \/ \E f \in DOMAIN cache : slip' = cache[f]
          \/ \E i \in SlipId \ DOMAIN cache : slip' = MadeUp(i, s)
      BY <1>8 DEF LoadPayslip, Cached, SlipId
    <2>3. slip' \in Slip /\ IF slip'.id \in DOMAIN cache THEN slip' = cache[slip'.id]
                                                        ELSE slip'.status = "PENDING"
      BY <2>2 DEF TypeOK, CacheById, MadeUp, Slip, Status, Record
    <2>4. TypeOK'
      BY <1>2, <1>3, <1>5, <2>1, <2>3 DEF TypeOK
    <2>5. QED
      BY <1>3, <1>4, <2>1, <2>3, <2>4 DEF CacheById, SlipOnPage, SlipAgrees
  <1>9. QED
    BY <1>6, <1>7, <1>8

\* The lists.
LEMMA ListStep ==
    ASSUME IInv, ServeCommissions \/ CommissionsArrive \/ CommissionsLost \/ CashiersArrive
    PROVE  IInv'
  <1> USE DEF IInv
  <1>1. /\ UNCHANGED <<comm, cache, page, period, target, slip, modal, timers, released>>
        /\ budget' \in 0 .. Budget
    BY DEF ServeCommissions, CommissionsArrive, CommissionsLost, CashiersArrive, Quiet, Spend,
           TypeOK
  <1>2. /\ asked.rows \in Shown /\ asked.cashiers \in {"none", "sent"} /\ Empty \in Shown
        /\ asked.commissions \in {"none", "sent", "got"}
    BY EmptyShown DEF TypeOK, Asked
  <1>3. asked' \in Asked
    <2>1. CASE ServeCommissions
      <3>1. [c \in Earned |-> comm[c]] \in [Earned -> Status]
        BY DEF Earned, TypeOK
      <3>2. [c \in Earned |-> comm[c]] \in Shown
        BY <3>1, IsShown DEF Earned, Record
      <3>3. QED
        BY <1>2, <2>1, <3>2 DEF ServeCommissions, TypeOK, Asked
    <2>2. CASE CommissionsArrive \/ CommissionsLost
      BY <1>2, <2>2 DEF CommissionsArrive, CommissionsLost, TypeOK, Asked
    <2>3. CASE CashiersArrive
      BY <1>2, <2>3 DEF CashiersArrive, TypeOK, Asked
    <2>4. QED
      BY <2>1, <2>2, <2>3
  <1>4. shown' \in Shown /\ DOMAIN shown \subseteq DOMAIN shown'
    <2>1. CASE ServeCommissions \/ CommissionsLost
      BY <2>1 DEF ServeCommissions, CommissionsLost, TypeOK
    <2>2. CASE CommissionsArrive
      BY <1>2, <2>2, WithShown DEF CommissionsArrive, TypeOK
    <2>3. CASE CashiersArrive
      <3>1. PICK S \in SUBSET Record : shown' = With([x \in S |-> "PENDING"])
        <4>1. (IF Cashier = {} THEN {Sample} ELSE Cashier) \in SUBSET Record
          BY DEF Record, Paid
        <4>2. {Sample} \in SUBSET Record
          BY DEF Record, Paid
        <4>3. QED
          BY <2>3, <4>1, <4>2 DEF CashiersArrive
      <3>2. [x \in S |-> "PENDING"] \in [S -> Status]
        BY DEF Status
      <3>3. [x \in S |-> "PENDING"] \in Shown
        BY <3>2, IsShown
      <3>4. QED
        BY <3>1, <3>3, WithShown DEF TypeOK
    <2>4. QED
      BY <2>1, <2>2, <2>3
  <1>5. TypeOK'
    BY <1>1, <1>3, <1>4 DEF TypeOK
  <1>6. CountedIsListed'
    BY <1>1, <1>4 DEF CountedIsListed
  <1>7. QED
    BY <1>1, <1>5, <1>6 DEF CacheById, SlipOnPage, SlipAgrees

\* The modal and the timers of the page.
LEMMA DisbursementStep ==
    ASSUME IInv, Disbursement
    PROVE  IInv'
  <1> USE DEF IInv
  <1>1. UNCHANGED <<comm, cache, page, asked, slip, modal, budget>>
    BY DEF Disbursement, DisburseAll, Cancel, ConfirmDisbursement, ExecuteDisbursement,
           SelectPeriod, Quiet
  <1>2. CacheById' /\ SlipOnPage' /\ SlipAgrees'
    BY <1>1 DEF CacheById, SlipOnPage, SlipAgrees
  <1>3. DOMAIN shown \subseteq Record
    BY ShownIs DEF TypeOK
  <1>4. CASE DisburseAll
    <2>1. target' \subseteq DOMAIN shown /\ page = "payroll"
      BY <1>4 DEF DisburseAll, Pending
    <2>2. UNCHANGED <<shown, period, timers, released>>
      BY <1>4 DEF DisburseAll
    <2>3. TypeOK'
      BY <1>1, <1>3, <2>1, <2>2 DEF TypeOK
    <2>4. CountedIsListed'
      BY <1>1, <2>1, <2>2 DEF CountedIsListed
    <2>5. QED
      BY <1>2, <2>3, <2>4
  <1>5. CASE Cancel
    <2>1. target' = {} /\ UNCHANGED <<shown, period, timers, released>>
      BY <1>5 DEF Cancel
    <2>2. QED
      BY <1>1, <1>2, <2>1 DEF TypeOK, CountedIsListed
  <1>6. CASE ConfirmDisbursement
    <2>1. PICK n \in 1 .. MaxTimer :
            timers' = timers \cup {[here |-> TRUE, counted |-> target, nth |-> n]}
      BY <1>6 DEF ConfirmDisbursement
    <2>2. target' = {} /\ target # {} /\ UNCHANGED <<shown, period>> /\ Once(target)
      BY <1>6 DEF ConfirmDisbursement
    <2>3. timers' \subseteq Timer
      <3>1. [here |-> TRUE, counted |-> target, nth |-> n] \in Timer
        BY DEF TypeOK, Timer
      <3>2. QED
        BY <2>1, <3>1 DEF TypeOK
    <2>4. TypeOK'
      BY <1>1, <2>2, <2>3, OnceType DEF TypeOK
    <2>5. CountedIsListed'
      BY <1>1, <2>1, <2>2 DEF CountedIsListed
    <2>6. QED
      BY <1>2, <2>4, <2>5
  <1>7. CASE ExecuteDisbursement
    <2>1. /\ timers' \subseteq timers /\ UNCHANGED <<target, period, released>>
          /\ shown' \in {shown, Disbursed}
      BY <1>7 DEF ExecuteDisbursement
    <2>2. shown' \in Shown /\ DOMAIN shown' = DOMAIN shown
      BY <2>1, DisbursedShown DEF TypeOK
    <2>3. TypeOK'
      BY <1>1, <2>1, <2>2 DEF TypeOK
    <2>4. CountedIsListed'
      BY <1>1, <2>1, <2>2 DEF CountedIsListed
    <2>5. QED
      BY <1>2, <2>3, <2>4
  <1>8. ASSUME NEW p \in {"MONTHLY", "ALL"}, SelectPeriod(p)
        PROVE  IInv'
    <2>1. period' = p /\ UNCHANGED <<shown, target, timers, released>>
      BY <1>8 DEF SelectPeriod
    <2>2. QED
      BY <1>1, <1>2, <2>1 DEF TypeOK, CountedIsListed
  <1>9. QED
    BY <1>4, <1>5, <1>6, <1>7, <1>8 DEF Disbursement

\* The page of the payslip.
LEMMA SettlementStep ==
    ASSUME IInv, DisburseSettlement \/ KeepPayslip \/ ConfirmSettlement
    PROVE  IInv'
  <1> USE DEF IInv
  <1>1. UNCHANGED <<comm, page, asked, shown, period, target, timers, budget>>
    BY DEF DisburseSettlement, KeepPayslip, ConfirmSettlement, Quiet
  <1>2. CountedIsListed'
    BY <1>1 DEF CountedIsListed
  <1>3. CASE DisburseSettlement \/ KeepPayslip
    <2>1. UNCHANGED <<cache, slip, released>> /\ modal' \in BOOLEAN
      BY <1>3 DEF DisburseSettlement, KeepPayslip
    <2>2. modal' => page = "payslip"
      BY <1>3 DEF DisburseSettlement, KeepPayslip
    <2>3. TypeOK'
      BY <1>1, <2>1 DEF TypeOK
    <2>4. QED
      BY <1>1, <1>2, <2>1, <2>2, <2>3 DEF CacheById, SlipOnPage, SlipAgrees
  <1>4. CASE ConfirmSettlement
    <2>1. /\ modal /\ ~modal' /\ modal' = FALSE /\ slip' = [slip EXCEPT !.status = "DISBURSED"]
          /\ cache' = Put(slip') /\ Once(slip.records)
      BY <1>4 DEF ConfirmSettlement, Settled
    <2>2. slip \in Slip
      BY <2>1 DEF SlipOnPage
    <2>3. slip' \in Slip
      BY <2>1, <2>2 DEF Slip, Status
    <2>4. /\ DOMAIN cache' \subseteq SlipId /\ cache'[slip'.id] = slip'
          /\ \A s \in DOMAIN cache' : cache'[s] \in Slip /\ cache'[s].id = s
          /\ slip'.id \in DOMAIN cache'
      <3>1. PICK p \in Slip : p = slip' /\ cache' = Put(p)
        BY <2>1, <2>3
      <3>2. /\ DOMAIN Put(p) \subseteq SlipId /\ p.id \in DOMAIN Put(p) /\ Put(p)[p.id] = p
            /\ \A s \in DOMAIN Put(p) : Put(p)[s] \in Slip /\ Put(p)[s].id = s
        BY PutCache
      <3>3. QED
        BY <3>1, <3>2
    <2>5. TypeOK'
      <3>1. released' \in [Record -> 0 .. MaxReleased]
        BY <2>1, OnceType
      <3>2. modal' \in BOOLEAN /\ slip' \in Slip \cup {NoSlip}
        BY <2>1, <2>3
      <3>3. QED
        BY <1>1, <2>4, <3>1, <3>2 DEF TypeOK
    <2>6. QED
      BY <1>1, <1>2, <2>1, <2>3, <2>4, <2>5 DEF CacheById, SlipOnPage, SlipAgrees
  <1>5. QED
    BY <1>3, <1>4

LEMMA ShopStep ==
    ASSUME IInv, Shop
    PROVE  IInv'
  <1> USE DEF IInv
  <1>1. PICK c \in Comm : Earn(c) \/ CustomerPays(c)
    BY DEF Shop
  <1>2. /\ UNCHANGED <<cache, tab, timers, released>> /\ budget' \in 0 .. Budget
        /\ comm' \in [Comm -> Status \cup {"NONE"}]
    BY <1>1 DEF Earn, CustomerPays, Spend, TypeOK, Status
  <1>3. TypeOK'
    BY <1>2 DEF TypeOK, tab
  <1>4. QED
    BY <1>2, <1>3 DEF tab, CacheById, CountedIsListed, SlipOnPage, SlipAgrees

LEMMA StepIInv == IInv /\ [Next]_vars => IInv'
  <1> SUFFICES ASSUME IInv, [Next]_vars PROVE IInv'
    OBVIOUS
  <1>1. CASE Lists
    BY <1>1, LeaveStep, ListStep DEF Lists
  <1>2. CASE Disbursement
    BY <1>2, DisbursementStep
  <1>3. CASE Payslips
    BY <1>3, LeaveStep, SettlementStep DEF Payslips
  <1>4. CASE Shop
    BY <1>4, ShopStep
  <1>5. CASE UNCHANGED vars
    <2>1. TypeOK'
      BY <1>5 DEF vars, tab, IInv, TypeOK
    <2>2. QED
      BY <1>5, <2>1 DEF vars, tab, IInv, CacheById, CountedIsListed, SlipOnPage, SlipAgrees
  <1>6. QED
    BY <1>1, <1>2, <1>3, <1>4, <1>5 DEF Next

LEMMA IInvHolds == Spec => []IInv
  BY InitIInv, StepIInv, PTL DEF Spec

-----------------------------------------------------------------------------
(* The theorems.                                                            *)

\* Every variable keeps its type.
THEOREM PayrollTypeCorrect == Spec => []TypeOK
  <1>1. IInv => TypeOK
    BY DEF IInv
  <1>2. QED
    BY IInvHolds, <1>1, PTL

\* A payslip on its page has the status of the cache (openPayslip and
\* handleDisburseSettlement of payroll and payslip).
THEOREM SlipAgreesHolds == Spec => []SlipAgrees
  <1>1. IInv => SlipAgrees
    BY DEF IInv
  <1>2. QED
    BY IInvHolds, <1>1, PTL

\* What a disbursement counted is marked when it ends on its page
\* (executeDisbursement of payroll).
THEOREM CountedIsMarkedHolds == Spec => CountedIsMarked
  <1> DEFINE Marks == \A t \in Ended : t.here =>
                        \A x \in t.counted : x \in DOMAIN shown' /\ shown'[x] = "DISBURSED"
  <1>1. IInv /\ [Next]_vars => [Marks]_vars
    <2> SUFFICES ASSUME IInv, Next, NEW t \in Ended, t.here, NEW x \in t.counted
                 PROVE  x \in DOMAIN shown' /\ shown'[x] = "DISBURSED"
      OBVIOUS
    <2>1. t \in timers /\ \A u \in timers' : u.nth # t.nth
      BY DEF Ended
    <2>2. t \notin timers'
      BY <2>1
    <2>3. ~\E p : Mount(p)
      BY <2>1, Abandoned DEF IInv, TypeOK
    <2>4. ExecuteDisbursement
      <3>1. Next => \/ \E p : Mount(p)
                    \/ timers \subseteq timers'
                    \/ ExecuteDisbursement
        BY DEF Next, Lists, Disbursement, Payslips, Shop, OpenPayroll, Leave, ServeCommissions,
               CommissionsArrive, CommissionsLost, CashiersArrive, DisburseAll, Cancel,
               ConfirmDisbursement, SelectPeriod, OpenPayslip, LoadPayslip,
               DisburseSettlement, KeepPayslip, ConfirmSettlement, Earn, CustomerPays
      <3>2. QED
        BY <2>1, <2>2, <2>3, <3>1
    <2>5. shown' = Disbursed
      BY <2>2, <2>1, <2>4 DEF ExecuteDisbursement
    <2>6. x \in DOMAIN shown
      BY <2>1 DEF IInv, CountedIsListed
    <2>7. QED
      BY <2>5, <2>6, DisbursedShown DEF IInv, TypeOK
  <1>2. QED
    BY IInvHolds, <1>1, PTL DEF Spec, CountedIsMarked
=============================================================================
