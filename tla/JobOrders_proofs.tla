--------------------------- MODULE JobOrders_proofs ---------------------------
(***************************************************************************)
(* Theorems about JobOrders, for any job orders, users and requests: types, *)
(* no orphaned commission or cart item, no release before payment, and no   *)
(* payment without a commission.                                            *)
(***************************************************************************)
EXTENDS JobOrders, TLAPS

USE JobOrdersAssumption

-----------------------------------------------------------------------------
(* What the actions are made of.                                            *)

\* The row Write commits.
Merged(r, new) ==
    [f \in DOMAIN new |-> IF new[f] = seen[r][f] THEN job[J(r)][f] ELSE new[f]]

LEMMA BodyType ==
    ASSUME TypeOK, NEW r \in Requests
    PROVE  /\ body[r] \in Body /\ J(r) \in Jobs /\ body[r] \in Bodies
           /\ body[r].op = "update_job_status" => body[r].status \in Status
  <1>1. body[r] \in Bodies
    BY DEF TypeOK
  <1>2. body[r] \in Body
    BY <1>1
  <1>3. body[r].job \in Jobs /\ body[r].status \in Status \cup {Keep}
    BY <1>2 DEF Body
  <1>4. body[r].op = "update_job_status" => body[r].status # Keep
    BY <1>1
  <1>5. QED
    BY <1>1, <1>2, <1>3, <1>4 DEF J

LEMMA MergedType ==
    ASSUME TypeOK, NEW r \in Requests, NEW new \in JobOrder
    PROVE  /\ Merged(r, new) \in JobOrder
           /\ \A f \in {"life", "status", "paid", "mechanic"} :
                Merged(r, new)[f] = IF new[f] = seen[r][f] THEN job[J(r)][f] ELSE new[f]
  <1>1. J(r) \in Jobs
    BY BodyType
  <1>2. job[J(r)] \in JobOrder /\ seen[r] \in JobOrder
    BY <1>1 DEF TypeOK
  <1>3. DOMAIN new = {"life", "status", "paid", "mechanic"}
    BY DEF JobOrder
  <1>4. Merged(r, new) = [life |-> IF new.life = seen[r].life THEN job[J(r)].life ELSE new.life,
                          status |-> IF new.status = seen[r].status THEN job[J(r)].status ELSE new.status,
                          paid |-> IF new.paid = seen[r].paid THEN job[J(r)].paid ELSE new.paid,
                          mechanic |-> IF new.mechanic = seen[r].mechanic
                                       THEN job[J(r)].mechanic ELSE new.mechanic]
    BY <1>3 DEF Merged
  <1>5. QED
    BY <1>2, <1>4 DEF JobOrder

\* Status, payment and details handlers write a row and earned commissions.
WrittenRow(r) ==
    CASE op[r] = "update_job_status" -> [seen[r] EXCEPT !.status = body[r].status]
      [] op[r] = "update_job_payment_status" -> Settled(seen[r])
      [] OTHER -> [seen[r] EXCEPT !.status = Given(body[r].status, @),
                                  !.paid = Given(body[r].paid, @),
                                  !.mechanic = Given(body[r].mechanic, @)]

WriteStep(r) ==
    /\ pc[r] = "commit" \/ op[r] = "update_job_payment_status"
    /\ op[r] \in {"update_job_status", "update_job_payment_status", "update_job_details"}
    /\ \E earned \in SUBSET Child :
         /\ \A c \in earned : c.job = J(r)
         /\ Write(r, WrittenRow(r), earned)
    /\ lock' = lock \/ Unlock(r)

LEMMA WriteSteps ==
    ASSUME TypeOK, NEW r \in Requests, CommitStatus(r) \/ CommitDetails(r) \/ CommitPayment(r)
    PROVE  WriteStep(r)
  <1>1. J(r) \in Jobs
    BY BodyType
  <1> DEFINE mine == [job |-> J(r), by |-> r]
  <1>2. {} \in SUBSET Child /\ {mine} \in SUBSET Child /\ mine.job = J(r)
    BY <1>1 DEF Child
  <1> HIDE DEF mine
  <1>3. CASE CommitStatus(r)
    <2>1. /\ WrittenRow(r) = [seen[r] EXCEPT !.status = body[r].status]
          /\ At(r, "update_job_status", "commit") /\ lock' = lock
      BY <1>3 DEF CommitStatus, WrittenRow, At
    <2>2. Write(r, WrittenRow(r), {mine}) \/ Write(r, WrittenRow(r), {})
      BY <1>3, <2>1 DEF CommitStatus, mine
    <2>3. QED
      BY <1>2, <2>1, <2>2 DEF WriteStep, At
  <1>4. CASE CommitDetails(r)
    <2>1. /\ WrittenRow(r) = [seen[r] EXCEPT !.status = Given(body[r].status, @),
                                             !.paid = Given(body[r].paid, @),
                                             !.mechanic = Given(body[r].mechanic, @)]
          /\ At(r, "update_job_details", "commit") /\ lock' = lock
      BY <1>4 DEF CommitDetails, WrittenRow, At
    <2>2. Write(r, WrittenRow(r), {})
      BY <1>4, <2>1 DEF CommitDetails
    <2>3. QED
      BY <1>2, <2>1, <2>2 DEF WriteStep, At
  <1>5. CASE CommitPayment(r)
    <2>1. /\ WrittenRow(r) = Settled(seen[r]) /\ op[r] = "update_job_payment_status"
          /\ pc[r] \in {"insert", "commit"} /\ Unlock(r)
      BY <1>5 DEF CommitPayment, WrittenRow
    <2>2. Write(r, WrittenRow(r), {mine}) \/ Write(r, WrittenRow(r), {})
      BY <1>5, <2>1 DEF CommitPayment, mine
    <2>3. QED
      BY <1>2, <2>1, <2>2 DEF WriteStep
  <1>6. QED
    BY <1>3, <1>4, <1>5

LEMMA WrittenRowType ==
    ASSUME TypeOK, OpFixed, NEW r \in Requests
    PROVE  WrittenRow(r) \in JobOrder /\ WrittenRow(r).life = seen[r].life
  <1>1. seen[r] \in JobOrder /\ body[r] \in Body
    BY BodyType DEF TypeOK
  <1>2. CASE op[r] = "update_job_status"
    BY <1>1, <1>2, BodyType DEF WrittenRow, JobOrder, OpFixed
  <1>3. CASE op[r] = "update_job_payment_status"
    BY <1>1, <1>3 DEF WrittenRow, JobOrder, Settled, Status
  <1>4. CASE op[r] \notin {"update_job_status", "update_job_payment_status"}
    BY <1>1, <1>4 DEF WrittenRow, JobOrder, Body, Given
  <1>5. QED
    BY <1>2, <1>3, <1>4

\* What a WriteStep does to the tables.
LEMMA WriteEffect ==
    ASSUME TypeOK, OpFixed, NEW r \in Requests, WriteStep(r)
    PROVE  /\ UNCHANGED <<cartItems, sale, op, seen, body, faults>>
           /\ \/ /\ ~Live(r) /\ job' = job /\ commissions' = commissions
                 /\ pc' = [pc EXCEPT ![r] = "failed"]
              \/ /\ Live(r) /\ job' = [job EXCEPT ![J(r)] = Merged(r, WrittenRow(r))]
                 /\ Merged(r, WrittenRow(r)) \in JobOrder
                 /\ \E earned \in SUBSET Child :
                      (\A c \in earned : c.job = J(r)) /\ commissions' = commissions \cup earned
                 /\ pc' = [pc EXCEPT ![r] = "done"]
  <1>1. PICK earned \in SUBSET Child :
          (\A c \in earned : c.job = J(r)) /\ Write(r, WrittenRow(r), earned)
    BY DEF WriteStep
  <1>2. WrittenRow(r) \in JobOrder /\ Merged(r, WrittenRow(r)) \in JobOrder
    BY WrittenRowType, MergedType
  <1>3. UNCHANGED <<cartItems, sale, op, seen, body, faults>>
    BY <1>1 DEF Write
  <1>4. CASE Live(r)
    <2>1. /\ job' = [job EXCEPT ![J(r)] = Merged(r, WrittenRow(r))]
          /\ commissions' = commissions \cup earned
          /\ pc' = [pc EXCEPT ![r] = "done"]
      BY <1>1, <1>4 DEF Write, Merged, Goto
    <2>2. QED
      BY <1>1, <1>2, <1>3, <1>4, <2>1
  <1>5. CASE ~Live(r)
    BY <1>1, <1>3, <1>5 DEF Write, Goto
  <1>6. QED
    BY <1>4, <1>5

-----------------------------------------------------------------------------
(* Types, locks and orphans.                                                *)

LEMMA InitIInv == Init => IInv
  <1> SUFFICES ASSUME Init PROVE IInv
    OBVIOUS
  <1>1. \A m \in BOOLEAN, l \in {"absent", "live"} : NewJob(l, m) \in JobOrder
    BY DEF NewJob, JobOrder, Status
  <1>2. TypeOK
    <2>1. \A j \in Jobs : NewJob("live", j \in Assigned) \in JobOrder /\ NewJob("absent", FALSE) \in JobOrder
      <3>1. \A j \in Jobs : (j \in Assigned) \in BOOLEAN
        OBVIOUS
      <3>2. QED
        BY <1>1, <3>1, Zenon
    <2>2. op \in [Requests -> Ops]
      BY DEF Init, Body
    <2>3. job \in [Jobs -> JobOrder] /\ seen \in [Requests -> JobOrder]
      BY <1>1, <2>1 DEF Init
    <2>4. commissions \subseteq Child /\ cartItems \subseteq Child /\ sale \subseteq Requests
      BY DEF Init
    <2>5. /\ lock \in [Jobs -> Requests \cup {Free}] /\ body \in [Requests -> Bodies]
          /\ pc \in [Requests -> {"idle", "done", "failed"} \cup Running]
          /\ faults \in 0..MaxFaults
      BY DEF Init
    <2>6. QED
      BY <2>2, <2>3, <2>4, <2>5 DEF TypeOK
  <1>3. OpFixed /\ NoOrphans /\ LockedIsLive
    BY DEF Init, OpFixed, NoOrphans, LockedIsLive
  <1>4. QED
    BY <1>2, <1>3 DEF IInv

\* The parts of the state a step of r may change, apart from WriteStep.
Quietly(r) ==
    \/ Send(r) \/ FindJobOrder(r) \/ FlushPayment(r) \/ CheckCommission(r)
    \/ LockJobOrder(r) \/ SettleAtTill(r) \/ Fault(r)

LEMMA StepCases ==
    ASSUME TypeOK, [Next]_vars
    PROVE  \/ \E r \in Requests :
                \/ Quietly(r) \/ WriteStep(r) \/ CreateJob(r) \/ CommitDelete(r)
                \/ CommitCartItem(r) \/ CommitCheckout(r)
           \/ vars' = vars
  <1>1. ASSUME NEW r \in Requests, CommitStatus(r) \/ CommitDetails(r) \/ CommitPayment(r)
        PROVE  WriteStep(r)
    BY <1>1, WriteSteps
  <1>2. QED
    BY <1>1 DEF Next, ServerStep, Quietly, Quiet

\* A quiet step changes no table and locks nothing but a live job order.
LEMMA QuietEffect ==
    ASSUME TypeOK, NEW r \in Requests, Quietly(r)
    PROVE  /\ UNCHANGED <<tables, body>>
           /\ \A j \in Jobs : \/ lock'[j] \in {lock[j], Free}
                              \/ /\ lock'[j] = r /\ job[j].life = "live"
                                 /\ op'[r] \in {"checkout", "update_job_payment_status"}
           /\ lock' \in [Jobs -> Requests \cup {Free}]
           /\ pc' \in [Requests -> {"idle", "done", "failed"} \cup Running]
           /\ seen' \in [Requests -> JobOrder]
           /\ op' \in [Requests -> Ops]
           /\ \A q \in Requests : op'[q] \in {op[q], "update_job_payment_status"}
           /\ faults' \in 0..MaxFaults
  <1>1. J(r) \in Jobs /\ job[J(r)] \in JobOrder
    BY BodyType DEF TypeOK
  <1> DEFINE PcType == pc' \in [Requests -> {"idle", "done", "failed"} \cup Running]
             LockKept == /\ \A j \in Jobs : \/ lock'[j] \in {lock[j], Free}
                                            \/ /\ lock'[j] = r /\ job[j].life = "live"
                                               /\ op'[r] \in {"checkout", "update_job_payment_status"}
                         /\ lock' \in [Jobs -> Requests \cup {Free}]
             Rest == /\ seen' \in [Requests -> JobOrder]
                     /\ op' \in [Requests -> Ops]
                     /\ \A q \in Requests : op'[q] \in {op[q], "update_job_payment_status"}
                     /\ faults' \in 0..MaxFaults
  <1>2. UNCHANGED <<tables, body>>
    BY DEF Quietly, Send, FindJobOrder, FlushPayment, CheckCommission, LockJobOrder,
           SettleAtTill, Fault
  <1>3. PcType
    <2>1. \E step \in {"find", "flush", "check", "insert", "commit", "failed"} : Goto(r, step)
      BY DEF Quietly, Send, FindJobOrder, FlushPayment, CheckCommission, LockJobOrder,
             SettleAtTill, Fault
    <2>2. QED
      BY <2>1 DEF Goto, Running, TypeOK
  <1>4. LockKept
    <2>1. CASE lock' = lock
      BY <2>1 DEF TypeOK
    <2>2. CASE Unlock(r)
      BY <2>2 DEF Unlock, TypeOK
    <2>3. CASE /\ lock' = [lock EXCEPT ![J(r)] = r] /\ Live(r)
               /\ op'[r] \in {"checkout", "update_job_payment_status"}
      BY <1>1, <2>3 DEF Live, TypeOK
    <2>4. QED
      BY <2>1, <2>2, <2>3 DEF At, Quietly, Send, FindJobOrder, FlushPayment, CheckCommission,
                              LockJobOrder, SettleAtTill, Fault
  <1>5. Rest
    <2>1. seen' = seen \/ seen' = [seen EXCEPT ![r] = job[J(r)]]
      BY DEF Quietly, Send, FindJobOrder, FlushPayment, CheckCommission, LockJobOrder,
             SettleAtTill, Fault
    <2>2. op' = op \/ op' = [op EXCEPT ![r] = "update_job_payment_status"]
      BY DEF Quietly, Send, FindJobOrder, FlushPayment, CheckCommission, LockJobOrder,
             SettleAtTill, Fault
    <2>3. faults' = faults \/ (faults < MaxFaults /\ faults' = faults + 1)
      BY DEF Quietly, Send, FindJobOrder, FlushPayment, CheckCommission, LockJobOrder,
             SettleAtTill, Fault
    <2>4. seen' \in [Requests -> JobOrder]
      BY <1>1, <2>1 DEF TypeOK
    <2>5. op' \in [Requests -> Ops] /\ \A q \in Requests : op'[q] \in {op[q], "update_job_payment_status"}
      BY <2>2 DEF TypeOK, Ops
    <2>6. faults' \in 0..MaxFaults
      BY <2>3 DEF TypeOK
    <2>7. QED
      BY <2>4, <2>5, <2>6
  <1>6. QED
    BY <1>2, <1>3, <1>4, <1>5

\* What the remaining actions write.
LEMMA CreatedType ==
    ASSUME TypeOK, NEW r \in Requests
    PROVE  Created(body[r]) \in JobOrder /\ Created(body[r]).life = "live"
  <1>1. body[r] \in Body
    BY BodyType
  <1>2. QED
    BY <1>1 DEF Created, JobOrder, Body, Given, Status

LEMMA PaidRow ==
    ASSUME TypeOK, NEW r \in Requests, CommitCheckout(r)
    PROVE  /\ job' \in [Jobs -> JobOrder]
           /\ \A j \in Jobs : job'[j].life = job[j].life /\ job'[j].status = job[j].status
           /\ \A j \in Jobs : job[j].paid => job'[j].paid
           /\ lock[J(r)] = r => job'[J(r)].paid
  <1>1. J(r) \in Jobs /\ \A j \in Jobs : job[j] \in JobOrder
    BY BodyType DEF TypeOK
  <1>2. CASE job' = job /\ lock[J(r)] # r
    BY <1>2 DEF TypeOK
  <1>3. CASE job' = [job EXCEPT ![J(r)].paid = TRUE]
    <2>1. job'[J(r)] = [job[J(r)] EXCEPT !.paid = TRUE]
      BY <1>1, <1>3 DEF TypeOK
    <2>2. /\ job'[J(r)] \in JobOrder /\ job'[J(r)].paid
          /\ job'[J(r)].life = job[J(r)].life /\ job'[J(r)].status = job[J(r)].status
      BY <1>1, <2>1 DEF JobOrder
    <2>3. \A j \in Jobs \ {J(r)} : job'[j] = job[j]
      BY <1>3 DEF TypeOK
    <2>4. job' = [j \in Jobs |-> job'[j]]
      BY <1>3 DEF TypeOK
    <2>5. QED
      BY <1>1, <2>2, <2>3, <2>4
  <1>4. QED
    BY <1>2, <1>3 DEF CommitCheckout

LEMMA TypeStep ==
    ASSUME TypeOK, OpFixed, [Next]_vars
    PROVE  TypeOK' /\ OpFixed'
  <1> USE DEF Goto
  <1>1. ASSUME NEW r \in Requests, Quietly(r) PROVE TypeOK' /\ OpFixed'
    <2>1. UNCHANGED <<tables, body>>
      BY <1>1, QuietEffect
    <2>2. TypeOK'
      BY <1>1, <2>1, QuietEffect DEF TypeOK, tables
    <2>3. OpFixed'
      BY <1>1, <2>1, QuietEffect DEF OpFixed
    <2>4. QED
      BY <2>2, <2>3
  <1>2. ASSUME NEW r \in Requests, WriteStep(r) PROVE TypeOK' /\ OpFixed'
    <2>1. /\ UNCHANGED <<cartItems, sale, op, seen, body, faults>>
          /\ lock' = lock \/ Unlock(r)
      BY <1>2, WriteEffect DEF WriteStep
    <2>2. job' \in [Jobs -> JobOrder] /\ commissions' \subseteq Child
      BY <1>2, WriteEffect DEF TypeOK
    <2>3. pc' \in [Requests -> {"idle", "done", "failed"} \cup Running]
      BY <1>2, WriteEffect DEF TypeOK
    <2>4. lock' \in [Jobs -> Requests \cup {Free}]
      BY <2>1 DEF TypeOK, Unlock
    <2>5. QED
      BY <2>1, <2>2, <2>3, <2>4 DEF TypeOK, OpFixed
  <1>3. ASSUME NEW r \in Requests, CreateJob(r) PROVE TypeOK' /\ OpFixed'
    BY <1>3, CreatedType DEF CreateJob, TypeOK, OpFixed
  <1>4. ASSUME NEW r \in Requests, CommitDelete(r) PROVE TypeOK' /\ OpFixed'
    <2>1. job' \in [Jobs -> JobOrder]
      <3>1. \A j \in Jobs : job[j] \in JobOrder /\ [job[j] EXCEPT !.life = "deleted"] \in JobOrder
        BY DEF TypeOK, JobOrder
      <3>2. job' = [job EXCEPT ![J(r)] = [job[J(r)] EXCEPT !.life = "deleted"]]
        BY <1>4 DEF CommitDelete
      <3>3. QED
        BY <3>1, <3>2 DEF TypeOK
    <2>2. commissions' \subseteq Child /\ cartItems' \subseteq Child
      BY <1>4 DEF CommitDelete, TypeOK
    <2>3. pc' \in [Requests -> {"idle", "done", "failed"} \cup Running]
      BY <1>4 DEF CommitDelete, TypeOK
    <2>4. UNCHANGED <<sale, lock, op, seen, body, faults>>
      BY <1>4 DEF CommitDelete
    <2>5. QED
      BY <2>1, <2>2, <2>3, <2>4 DEF TypeOK, OpFixed
  <1>5. ASSUME NEW r \in Requests, CommitCartItem(r) PROVE TypeOK' /\ OpFixed'
    <2>1. cartItems' \subseteq Child
      BY <1>5, BodyType DEF CommitCartItem, TypeOK, Child
    <2>2. QED
      BY <1>5, <2>1 DEF CommitCartItem, TypeOK, OpFixed
  <1>6. ASSUME NEW r \in Requests, CommitCheckout(r) PROVE TypeOK' /\ OpFixed'
    <2>1. job' \in [Jobs -> JobOrder]
      BY <1>6, PaidRow
    <2>2. commissions' \subseteq Child
      BY <1>6, BodyType DEF CommitCheckout, TypeOK, Child
    <2>3. lock' \in [Jobs -> Requests \cup {Free}]
      BY <1>6 DEF CommitCheckout, Unlock, TypeOK
    <2>4. QED
      BY <1>6, <2>1, <2>2, <2>3 DEF CommitCheckout, TypeOK, OpFixed
  <1>7. ASSUME vars' = vars PROVE TypeOK' /\ OpFixed'
    BY <1>7 DEF vars, TypeOK, OpFixed
  <1>8. QED
    BY <1>1, <1>2, <1>3, <1>4, <1>5, <1>6, <1>7, StepCases

LEMMA OrphansStep ==
    ASSUME IInv, [Next]_vars
    PROVE  NoOrphans' /\ LockedIsLive'
  <1>0. TypeOK /\ OpFixed /\ NoOrphans /\ LockedIsLive
    BY DEF IInv
  <1> USE DEF Goto, NoOrphans, LockedIsLive
  <1>1. ASSUME NEW r \in Requests, Quietly(r) PROVE NoOrphans' /\ LockedIsLive'
    <2>1. /\ job' = job /\ commissions' = commissions /\ cartItems' = cartItems
          /\ \A j \in Jobs : \/ lock'[j] \in {lock[j], Free}
                             \/ /\ lock'[j] = r /\ job[j].life = "live"
                                /\ op'[r] \in {"checkout", "update_job_payment_status"}
          /\ \A q \in Requests : op'[q] \in {op[q], "update_job_payment_status"}
      BY <1>0, <1>1, QuietEffect DEF tables
    <2>2. QED
      BY <1>0, <2>1 DEF TypeOK
  <1>2. ASSUME NEW r \in Requests, WriteStep(r) PROVE NoOrphans' /\ LockedIsLive'
    <2>1. cartItems' = cartItems /\ op' = op /\ J(r) \in Jobs
      BY <1>0, <1>2, WriteEffect, BodyType
    <2>2. /\ \A j \in Jobs : job[j].life = "live" => job'[j].life = "live"
          /\ \A c \in commissions' \ commissions : job'[c.job].life = "live"
      <3>1. CASE job' = job /\ commissions' = commissions
        BY <3>1
      <3>2. CASE /\ Live(r) /\ job' = [job EXCEPT ![J(r)] = Merged(r, WrittenRow(r))]
                 /\ \E earned \in SUBSET Child :
                      (\A c \in earned : c.job = J(r)) /\ commissions' = commissions \cup earned
        <4>1. job'[J(r)] = Merged(r, WrittenRow(r))
          BY <1>0, <2>1, <3>2 DEF TypeOK
        <4>2. Merged(r, WrittenRow(r)).life = "live"
          <5>1. WrittenRow(r) \in JobOrder /\ WrittenRow(r).life = seen[r].life
            BY <1>0, WrittenRowType
          <5>2. Merged(r, WrittenRow(r)).life = job[J(r)].life
            BY <1>0, <5>1, MergedType
          <5>3. QED
            BY <3>2, <5>2 DEF Live
        <4>3. \A j \in Jobs \ {J(r)} : job'[j] = job[j]
          BY <1>0, <3>2 DEF TypeOK
        <4>4. QED
          BY <3>2, <4>1, <4>2, <4>3
      <3>3. QED
        BY <1>0, <1>2, <3>1, <3>2, WriteEffect
    <2>3. \A j \in Jobs : lock'[j] \in {lock[j], Free}
      BY <1>0, <1>2 DEF WriteStep, Unlock, TypeOK
    <2>4. QED
      BY <1>0, <2>1, <2>2, <2>3 DEF TypeOK, Child
  <1>3. ASSUME NEW r \in Requests, CreateJob(r) PROVE NoOrphans' /\ LockedIsLive'
    <2>1. /\ job' = [job EXCEPT ![J(r)] = Created(body[r])] /\ J(r) \in Jobs
          /\ commissions' = commissions /\ cartItems' = cartItems /\ lock' = lock /\ op' = op
      BY <1>0, <1>3, BodyType DEF CreateJob
    <2>2. \A j \in Jobs : job[j].life = "live" => job'[j].life = "live"
      BY <1>0, <2>1, CreatedType DEF TypeOK
    <2>3. QED
      BY <1>0, <2>1, <2>2 DEF TypeOK, Child
  <1>4. ASSUME NEW r \in Requests, CommitDelete(r) PROVE NoOrphans' /\ LockedIsLive'
    <2>1. /\ \A c \in commissions' \cup cartItems' : c \in commissions \cup cartItems /\ c.job # J(r)
          /\ \A j \in Jobs \ {J(r)} : job'[j] = job[j]
          /\ lock' = lock /\ op' = op
      BY <1>0, <1>4 DEF CommitDelete, TypeOK
    <2>2. lock[J(r)] = Free
      <3>1. J(r) \in Jobs /\ op[r] = "delete_job_order" /\ lock[J(r)] \in {Free, r}
        BY <1>0, <1>4, BodyType DEF CommitDelete, CanWrite, At
      <3>2. QED
        BY <1>0, <3>1
    <2>3. QED
      BY <1>0, <2>1, <2>2 DEF TypeOK, Child
  <1>5. ASSUME NEW r \in Requests, CommitCartItem(r) PROVE NoOrphans' /\ LockedIsLive'
    <2>1. /\ job' = job /\ commissions' = commissions /\ lock' = lock /\ op' = op
          /\ \A c \in cartItems' : c \in cartItems \/ (Live(r) /\ c.job = J(r))
      BY <1>5 DEF CommitCartItem
    <2>2. QED
      BY <1>0, <2>1 DEF Live
  <1>6. ASSUME NEW r \in Requests, CommitCheckout(r) PROVE NoOrphans' /\ LockedIsLive'
    <2>1. /\ \A j \in Jobs : job'[j].life = job[j].life
          /\ \A c \in commissions' : \/ c \in commissions
                                     \/ lock[J(r)] = r /\ c.job = J(r)
          /\ cartItems' = cartItems /\ op' = op
          /\ \A j \in Jobs : lock'[j] \in {lock[j], Free}
      <3>1. \A j \in Jobs : job'[j].life = job[j].life
        BY <1>0, <1>6, PaidRow
      <3>2. \A c \in commissions' : c \in commissions \/ (lock[J(r)] = r /\ c.job = J(r))
        BY <1>6 DEF CommitCheckout
      <3>3. /\ cartItems' = cartItems /\ op' = op
            /\ \A j \in Jobs : lock'[j] \in {lock[j], Free}
        BY <1>0, <1>6 DEF CommitCheckout, Unlock
      <3>4. QED
        BY <3>1, <3>2, <3>3
    <2>2. J(r) \in Jobs
      BY <1>0, BodyType
    <2>3. QED
      BY <1>0, <2>1, <2>2 DEF TypeOK, Child
  <1>7. ASSUME vars' = vars PROVE NoOrphans' /\ LockedIsLive'
    BY <1>0, <1>7 DEF vars
  <1>8. QED
    BY <1>0, <1>1, <1>2, <1>3, <1>4, <1>5, <1>6, <1>7, StepCases

LEMMA IInvHolds == Spec => []IInv
  <1>1. IInv /\ [Next]_vars => IInv'
    BY TypeStep, OrphansStep DEF IInv
  <1>2. QED
    BY InitIInv, <1>1, PTL DEF Spec

\* The tables, locks and handlers keep to their types.
THEOREM JobsTypeCorrect == Spec => []TypeOK
  <1>1. IInv => TypeOK
    BY DEF IInv
  <1>2. QED
    BY IInvHolds, <1>1, PTL

\* No commission or cart item outlives its job order, however adding an item,
\* settling at two tills and deleting interleave, and whoever is killed.
THEOREM NoOrphansHold == Spec => []NoOrphans
  <1>1. IInv => NoOrphans
    BY DEF IInv
  <1>2. QED
    BY IInvHolds, <1>1, PTL

-----------------------------------------------------------------------------
(* Release after payment, when users keep to the board.                     *)

\* A job order that exists goes on existing, and stays paid.
PaidStays ==
    \A j \in Jobs :
        job[j].life # "absent" => job'[j].life # "absent" /\ (job[j].paid => job'[j].paid)

\* PaidStays and what handlers have read carry ReleaseIsCleared over a step
\* that reads nothing.
LEMMA ClearedKept ==
    ASSUME TypeOK, ReleaseIsCleared, PaidStays, UNCHANGED <<seen, body>>,
           \A r \in Requests :
              At(r, "update_job_status", "commit")' => At(r, "update_job_status", "commit")
    PROVE  ReleaseIsCleared'
  <1>1. \A r \in Requests : J(r) \in Jobs /\ J(r)' = J(r)
    BY BodyType DEF J
  <1>2. QED
    BY <1>1 DEF ReleaseIsCleared, PaidStays

LEMMA QuietRelease ==
    ASSUME ReleaseInv, NEW r \in Requests, Quietly(r)
    PROVE  ReleasedIsPaid' /\ ReleaseIsCleared'
  <1>0. TypeOK /\ OpFixed
    BY DEF ReleaseInv, IInv
  <1>1. /\ job' = job /\ body' = body /\ J(r) \in Jobs /\ J(r)' = J(r)
        /\ \A q \in Requests : J(q)' = J(q)
    BY <1>0, QuietEffect, BodyType DEF tables, J
  <1>2. ReleasedIsPaid'
    BY <1>1 DEF ReleasedIsPaid, ReleaseInv
  <1>3. CASE FindJobOrder(r) \/ LockJobOrder(r)
    <2>1. /\ seen' = [seen EXCEPT ![r] = job[J(r)]] /\ op' = op
          /\ \E step \in {"failed", "flush", "commit"} : pc' = [pc EXCEPT ![r] = step]
          /\ op[r] = "update_job_status" => pc'[r] = IF Refused(r) THEN "failed" ELSE "commit"
      BY <1>0, <1>3 DEF FindJobOrder, LockJobOrder, Goto, At, TypeOK
    <2>2. \A q \in Requests \ {r} : seen'[q] = seen[q] /\ pc'[q] = pc[q]
      BY <1>0, <2>1 DEF TypeOK
    <2>3. seen'[r] = job[J(r)]
      BY <1>0, <2>1 DEF TypeOK
    <2>4. /\ op[r] = "update_job_status" /\ pc'[r] = "commit" /\ body[r].status = "RELEASED"
          => job[J(r)].life = "live" /\ job[J(r)].paid
      BY <2>1 DEF Refused, Live
    <2>5. QED
      BY <1>1, <1>2, <2>1, <2>2, <2>3, <2>4 DEF ReleaseIsCleared, ReleaseInv, At
  <1>4. CASE Send(r) \/ FlushPayment(r) \/ CheckCommission(r) \/ SettleAtTill(r) \/ Fault(r)
    <2>1. /\ seen' = seen
          /\ \A q \in Requests \ {r} : op'[q] = op[q] /\ pc'[q] = pc[q]
          /\ op'[r] = "update_job_status" => pc'[r] # "commit"
      BY <1>0, <1>4 DEF Send, FlushPayment, CheckCommission, SettleAtTill, Fault, Goto, At, TypeOK
    <2>2. PaidStays
      BY <1>1 DEF PaidStays
    <2>3. QED
      BY <1>0, <1>1, <1>2, <2>1, <2>2, ClearedKept DEF ReleaseInv, At
  <1>5. QED
    BY <1>3, <1>4 DEF Quietly

LEMMA WriteRelease ==
    ASSUME ByTheBoard, ReleaseInv, NEW r \in Requests, WriteStep(r)
    PROVE  ReleasedIsPaid' /\ PaidStays
  <1>0. TypeOK /\ OpFixed /\ ReleaseIsCleared /\ ReleasedIsPaid
    BY DEF ReleaseInv, IInv
  <1>1. /\ J(r) \in Jobs /\ body[r] \in Bodies /\ body[r] \in Body
        /\ seen[r] \in JobOrder /\ job[J(r)] \in JobOrder
    BY <1>0, BodyType DEF TypeOK
  <1> DEFINE new == WrittenRow(r)
  <1>2. new \in JobOrder
    BY <1>0, WrittenRowType
  <1>3. seen[r].paid => new.paid
    <2>1. CASE op[r] = "update_job_details"
      <3>1. body[r].paid # FALSE
        BY <1>0, <1>1, <2>1 DEF ByTheBoard, OpFixed
      <3>2. new.paid = Given(body[r].paid, seen[r].paid)
        BY <1>1, <2>1 DEF WrittenRow, JobOrder
      <3>3. QED
        BY <1>1, <3>1, <3>2 DEF Given, Body, JobOrder
    <2>2. CASE op[r] = "update_job_status"
      BY <1>1, <2>2 DEF WrittenRow, JobOrder
    <2>3. CASE op[r] = "update_job_payment_status"
      BY <1>1, <2>3 DEF WrittenRow, JobOrder, Settled
    <2>4. QED
      BY <2>1, <2>2, <2>3 DEF WriteStep
  <1>4. new.status = "RELEASED" /\ new.status # seen[r].status => seen[r].paid /\ job[J(r)].paid
    <2>1. CASE op[r] = "update_job_details"
      <3>1. body[r].status # "RELEASED"
        BY <1>0, <1>1, <2>1 DEF ByTheBoard, OpFixed
      <3>2. new.status = Given(body[r].status, seen[r].status)
        BY <1>1, <2>1 DEF WrittenRow, JobOrder
      <3>3. QED
        BY <3>1, <3>2 DEF Given
    <2>2. CASE op[r] = "update_job_status"
      <3>1. pc[r] = "commit"
        BY <2>2 DEF WriteStep
      <3>2. new.status = body[r].status
        BY <1>1, <2>2 DEF WrittenRow, JobOrder
      <3>3. QED
        BY <1>0, <2>2, <3>1, <3>2 DEF ReleaseIsCleared, At
    <2>3. CASE op[r] = "update_job_payment_status"
      BY <1>1, <2>3 DEF WrittenRow, JobOrder, Settled
    <2>4. QED
      BY <2>1, <2>2, <2>3 DEF WriteStep
  <1>5. CASE job' = job
    BY <1>0, <1>5 DEF PaidStays, ReleasedIsPaid
  <1>6. CASE Live(r) /\ job' = [job EXCEPT ![J(r)] = Merged(r, new)]
    <2>1. /\ job'[J(r)] = Merged(r, new)
          /\ \A j \in Jobs \ {J(r)} : job'[j] = job[j]
      BY <1>0, <1>1, <1>6 DEF TypeOK
    <2>2. /\ Merged(r, new).life = job[J(r)].life
          /\ Merged(r, new).paid = IF new.paid = seen[r].paid THEN job[J(r)].paid ELSE new.paid
          /\ Merged(r, new).status = IF new.status = seen[r].status THEN job[J(r)].status
                                     ELSE new.status
      BY <1>0, <1>2, MergedType, WrittenRowType
    <2>3. job[J(r)].paid => Merged(r, new).paid
      BY <1>1, <1>2, <1>3, <2>2 DEF JobOrder
    <2>4. Merged(r, new).status = "RELEASED" => Merged(r, new).paid
      BY <1>0, <1>1, <1>4, <1>6, <2>2, <2>3 DEF ReleasedIsPaid, Live
    <2>5. QED
      BY <1>0, <2>1, <2>2, <2>3, <2>4 DEF PaidStays, ReleasedIsPaid
  <1>7. QED
    BY <1>0, <1>5, <1>6, WriteEffect

LEMMA ReleaseStep ==
    ASSUME ByTheBoard, ReleaseInv, [Next]_vars
    PROVE  ReleasedIsPaid' /\ ReleaseIsCleared'
  <1>0. TypeOK /\ OpFixed /\ ReleaseIsCleared /\ ReleasedIsPaid
    BY DEF ReleaseInv, IInv
  <1>1. ASSUME NEW r \in Requests, Quietly(r) PROVE ReleasedIsPaid' /\ ReleaseIsCleared'
    BY <1>1, QuietRelease
  <1> DEFINE Moves(r) == /\ UNCHANGED <<seen, body, op>>
                         /\ \E end \in {"done", "failed"} : pc' = [pc EXCEPT ![r] = end]
  <1>2. ASSUME NEW r \in Requests, Moves(r), PaidStays PROVE ReleaseIsCleared'
    <2>1. \A q \in Requests :
             At(q, "update_job_status", "commit")' => At(q, "update_job_status", "commit")
      BY <1>0, <1>2 DEF At, TypeOK
    <2>2. QED
      BY <1>0, <1>2, <2>1, ClearedKept
  <1>3. ASSUME NEW r \in Requests, WriteStep(r) PROVE ReleasedIsPaid' /\ ReleaseIsCleared'
    <2>1. Moves(r)
      BY <1>0, <1>3, WriteEffect
    <2>2. QED
      BY <1>2, <1>3, <2>1, WriteRelease
  <1>4. ASSUME NEW r \in Requests, CreateJob(r) PROVE ReleasedIsPaid' /\ ReleaseIsCleared'
    <2>1. /\ J(r) \in Jobs /\ body[r] \in Bodies /\ body[r].op = "create_job"
          /\ job[J(r)].life = "absent" /\ job'[J(r)] = Created(body[r])
          /\ \A j \in Jobs \ {J(r)} : job'[j] = job[j]
      BY <1>0, <1>4, BodyType DEF CreateJob, At, OpFixed, TypeOK
    <2>2. Created(body[r]).status # "RELEASED"
      BY <2>1 DEF Created, Given, ByTheBoard
    <2>3. ReleasedIsPaid' /\ PaidStays
      BY <1>0, <2>1, <2>2 DEF ReleasedIsPaid, PaidStays
    <2>4. QED
      BY <1>2, <1>4, <2>3 DEF CreateJob, Goto
  <1>5. ASSUME NEW r \in Requests, CommitDelete(r) PROVE ReleasedIsPaid' /\ ReleaseIsCleared'
    <2>1. \A j \in Jobs : \/ job'[j] = job[j]
                          \/ /\ job'[j].life = "deleted" /\ job'[j].paid = job[j].paid
      BY <1>0, <1>5 DEF CommitDelete, TypeOK, JobOrder
    <2>2. ReleasedIsPaid' /\ PaidStays
      BY <1>0, <2>1 DEF ReleasedIsPaid, PaidStays
    <2>3. QED
      BY <1>2, <1>5, <2>2 DEF CommitDelete, Goto
  <1>6. ASSUME NEW r \in Requests, CommitCartItem(r) PROVE ReleasedIsPaid' /\ ReleaseIsCleared'
    <2>1. ReleasedIsPaid' /\ PaidStays
      BY <1>0, <1>6 DEF CommitCartItem, ReleasedIsPaid, PaidStays
    <2>2. Moves(r)
      BY <1>6 DEF CommitCartItem, Goto
    <2>3. QED
      BY <1>2, <2>1, <2>2
  <1>7. ASSUME NEW r \in Requests, CommitCheckout(r) PROVE ReleasedIsPaid' /\ ReleaseIsCleared'
    <2>1. ReleasedIsPaid' /\ PaidStays
      BY <1>0, <1>7, PaidRow DEF ReleasedIsPaid, PaidStays
    <2>2. QED
      BY <1>2, <1>7, <2>1 DEF CommitCheckout, Goto
  <1>8. ASSUME vars' = vars PROVE ReleasedIsPaid' /\ ReleaseIsCleared'
    BY <1>0, <1>8 DEF vars, ReleasedIsPaid, ReleaseIsCleared, At, J
  <1>9. QED
    BY <1>0, <1>1, <1>3, <1>4, <1>5, <1>6, <1>7, <1>8, StepCases

\* A release that a handler has cleared stays cleared: what it has read as paid is
\* paid for good when the board is the only way to release and nobody takes a
\* payment back, although a release reads, waits and writes without a lock.
THEOREM ClearedReleases ==
    ASSUME ByTheBoard
    PROVE  Spec => []ReleaseInv
  <1>1. Init => ReleaseInv
    <2>1. Init => ReleasedIsPaid /\ ReleaseIsCleared
      BY DEF Init, NewJob, ReleasedIsPaid, ReleaseIsCleared, At
    <2>2. QED
      BY <2>1, InitIInv DEF ReleaseInv
  <1>2. ReleaseInv /\ [Next]_vars => ReleaseInv'
    <2>1. ReleaseInv /\ [Next]_vars => IInv'
      BY TypeStep, OrphansStep DEF IInv, ReleaseInv
    <2>2. QED
      BY <2>1, ReleaseStep DEF ReleaseInv
  <1>3. QED
    BY <1>1, <1>2, PTL DEF Spec

\* "Cannot release Job Order because payment has not been completed": under the
\* same assumption no motorcycle is released unpaid.
THEOREM NoReleaseUnpaid ==
    ASSUME ByTheBoard
    PROVE  Spec => []ReleasedIsPaid
  <1>1. ReleaseInv => ReleasedIsPaid
    BY DEF ReleaseInv
  <1>2. QED
    BY ClearedReleases, <1>1, PTL

-----------------------------------------------------------------------------
(* The commission of a paid job order.                                      *)

\* A job order's mechanic is set once, and its commissions go only with it.
MechanicStays ==
    \A j \in Jobs : job[j].life # "absent" => /\ job'[j].life # "absent"
                                              /\ job'[j].mechanic = job[j].mechanic

CommissionStays ==
    \A j \in Jobs :
        /\ job[j].life = "deleted" => job'[j].life = "deleted"
        /\ CommissionsOf(j) # {} => job'[j].life = "deleted" \/ CommissionsOf(j)' # {}

\* Whatever is newly paid, or gets a mechanic, has a commission.
NewlyPaidEarns ==
    \A j \in Jobs :
        /\ job'[j].life = "live" /\ job'[j].paid /\ job'[j].mechanic
        /\ ~(job[j].life = "live" /\ job[j].paid /\ job[j].mechanic)
        => CommissionsOf(j)' # {}

\* What carries CommissionInv over a step that neither reads a job order nor
\* looks for its commission.
LEMMA CommissionKept ==
    ASSUME CommissionInv, CommissionStays, NewlyPaidEarns, MechanicStays,
           UNCHANGED <<seen, body>>,
           \A j \in Jobs : lock'[j] \in {lock[j], Free},
           \A q \in Requests :
              /\ op'[q] \in {op[q], "update_job_payment_status"}
              /\ At(q, "update_job_payment_status", "commit")'
                 => At(q, "update_job_payment_status", "commit")
    PROVE  PaidHasCommission' /\ CommissionFound' /\ MechanicRead'
  <1>0. TypeOK /\ LockedIsLive /\ PaidHasCommission /\ CommissionFound /\ MechanicRead
    BY DEF CommissionInv, IInv
  <1>1. \A q \in Requests : J(q) \in Jobs /\ J(q)' = J(q)
    BY <1>0, BodyType DEF J
  <1>2. PaidHasCommission'
    BY <1>0 DEF PaidHasCommission, CommissionStays, NewlyPaidEarns
  <1>3. CommissionFound'
    BY <1>0, <1>1 DEF CommissionFound, CommissionStays
  <1>4. MechanicRead'
    <2> SUFFICES ASSUME NEW q \in Requests, op'[q] = "checkout", lock'[J(q)] = q
                 PROVE  seen[q].mechanic = job'[J(q)].mechanic
      BY <1>1 DEF MechanicRead
    <2>1. op[q] = "checkout" /\ lock[J(q)] = q /\ J(q) \in Jobs
      BY <1>1
    <2>2. job[J(q)].life = "live"
      BY <1>0, <2>1 DEF LockedIsLive
    <2>3. QED
      BY <1>0, <2>1, <2>2 DEF MechanicRead, MechanicStays
  <1>5. QED
    BY <1>2, <1>3, <1>4

LEMMA QuietCommission ==
    ASSUME CommissionInv, NEW r \in Requests, Quietly(r)
    PROVE  PaidHasCommission' /\ CommissionFound' /\ MechanicRead'
  <1>0. TypeOK /\ OpFixed /\ NoOrphans /\ PaidHasCommission /\ CommissionFound /\ MechanicRead
    BY DEF CommissionInv, IInv
  <1>1. /\ job' = job /\ commissions' = commissions /\ body' = body
        /\ \A q \in Requests : J(q) \in Jobs /\ J(q)' = J(q)
        /\ \A j \in Jobs : CommissionsOf(j)' = CommissionsOf(j)
    BY <1>0, QuietEffect, BodyType DEF tables, J, CommissionsOf
  <1>2. PaidHasCommission'
    BY <1>0, <1>1 DEF PaidHasCommission
  <1>3. \A q \in Requests \ {r} : op'[q] = op[q] /\ pc'[q] = pc[q] /\ seen'[q] = seen[q]
    BY <1>0 DEF Quietly, Send, FindJobOrder, FlushPayment, CheckCommission, LockJobOrder,
                SettleAtTill, Fault, Goto, TypeOK
  <1>4. CommissionFound'
    <2>1. CASE CheckCommission(r)
      <3>1. pc'[r] = "commit" => CommissionsOf(J(r)) # {}
        BY <1>0, <2>1 DEF CheckCommission, Goto, HasCommission, TypeOK
      <3>2. QED
        BY <1>0, <1>1, <1>3, <3>1 DEF CommissionFound, At
    <2>2. CASE ~CheckCommission(r)
      <3>1. ~At(r, "update_job_payment_status", "commit")'
        BY <1>0, <2>2 DEF Quietly, Send, FindJobOrder, FlushPayment, LockJobOrder,
                          SettleAtTill, Fault, Goto, At, TypeOK
      <3>2. QED
        BY <1>0, <1>1, <1>3, <3>1 DEF CommissionFound, At
    <2>3. QED
      BY <2>1, <2>2
  <1>5. MechanicRead'
    <2>1. CASE LockJobOrder(r)
      <3>1. seen'[r] = job[J(r)] /\ op' = op
        BY <1>0, <2>1 DEF LockJobOrder, TypeOK
      <3>2. \A j \in Jobs : lock'[j] \in {lock[j], r}
        BY <1>0, <2>1 DEF LockJobOrder, TypeOK
      <3>3. QED
        BY <1>0, <1>1, <1>3, <3>1, <3>2 DEF MechanicRead
    <2>2. CASE ~LockJobOrder(r)
      <3>1. op'[r] = "checkout" => op[r] = "checkout" /\ seen'[r] = seen[r]
        BY <1>0, <2>2 DEF Quietly, Send, FindJobOrder, FlushPayment, CheckCommission,
                          SettleAtTill, Fault, TypeOK
      <3>2. \A q \in Requests, j \in Jobs :
               op'[q] = "checkout" /\ lock'[j] = q => lock[j] = q
        BY <1>0, <2>2 DEF Quietly, Send, FindJobOrder, FlushPayment, CheckCommission,
                          SettleAtTill, Fault, Unlock, At, TypeOK
      <3>3. QED
        BY <1>0, <1>1, <1>3, <3>1, <3>2 DEF MechanicRead
    <2>3. QED
      BY <2>1, <2>2
  <1>6. QED
    BY <1>2, <1>4, <1>5

\* The row a handler writes keeps its mechanic, and is newly paid by
\* payment-status only.
LEMMA WrittenPaid ==
    ASSUME PaidAtTheTill, TypeOK, OpFixed, NEW r \in Requests, WriteStep(r)
    PROVE  /\ WrittenRow(r).mechanic = seen[r].mechanic
           /\ op[r] # "update_job_payment_status" =>
                WrittenRow(r).paid = seen[r].paid \/ WrittenRow(r).paid = FALSE
  <1>1. body[r] \in Bodies /\ body[r] \in Body /\ seen[r] \in JobOrder
    BY BodyType DEF TypeOK
  <1>2. CASE op[r] = "update_job_details"
    <2>1. body[r].op = "update_job_details"
      BY <1>2 DEF OpFixed
    <2>2. body[r].paid \in {FALSE, Keep} /\ body[r].mechanic = Keep
      BY <1>1, <2>1 DEF PaidAtTheTill, Body
    <2>3. /\ WrittenRow(r).paid = Given(body[r].paid, seen[r].paid)
          /\ WrittenRow(r).mechanic = Given(body[r].mechanic, seen[r].mechanic)
      BY <1>1, <1>2 DEF WrittenRow, JobOrder
    <2>4. QED
      BY <2>2, <2>3 DEF Given
  <1>3. CASE op[r] = "update_job_status"
    BY <1>1, <1>3 DEF WrittenRow, JobOrder
  <1>4. CASE op[r] = "update_job_payment_status"
    BY <1>1, <1>4 DEF WrittenRow, JobOrder, Settled
  <1>5. QED
    BY <1>2, <1>3, <1>4 DEF WriteStep

\* payment-status adds a commission unless it has found one.
LEMMA PaymentEarns ==
    ASSUME CommissionInv, NEW r \in Requests, CommitPayment(r), Live(r)
    PROVE  CommissionsOf(J(r))' # {}
  <1>0. TypeOK /\ CommissionFound
    BY DEF CommissionInv, IInv
  <1>1. body' = body /\ J(r)' = J(r)
    BY DEF CommitPayment, Write, J
  <1>2. CASE pc[r] = "insert"
    <2>1. [job |-> J(r), by |-> r] \in commissions'
      BY <1>2 DEF CommitPayment, Write
    <2>2. QED
      BY <1>1, <2>1 DEF CommissionsOf
  <1>3. CASE pc[r] = "commit"
    <2>1. CommissionsOf(J(r)) # {}
      BY <1>0, <1>3 DEF CommitPayment, CommissionFound, At, Live
    <2>2. commissions \subseteq commissions'
      BY DEF CommitPayment, Write
    <2>3. QED
      BY <1>1, <2>1, <2>2 DEF CommissionsOf
  <1>4. QED
    BY <1>2, <1>3 DEF CommitPayment

LEMMA WriteCommission ==
    ASSUME PaidAtTheTill, CommissionInv, NEW r \in Requests,
           CommitStatus(r) \/ CommitDetails(r) \/ CommitPayment(r)
    PROVE  CommissionStays /\ NewlyPaidEarns /\ MechanicStays
  <1>0. TypeOK /\ OpFixed /\ J(r) \in Jobs /\ J(r)' = J(r)
    BY BodyType DEF CommissionInv, IInv, CommitStatus, CommitDetails, CommitPayment, Write, J
  <1>1. WriteStep(r)
    BY <1>0, WriteSteps
  <1>2. seen[r] \in JobOrder /\ job[J(r)] \in JobOrder
    BY <1>0 DEF TypeOK
  <1>3. op[r] = "update_job_payment_status" => CommitPayment(r)
    BY DEF CommitStatus, CommitDetails, At
  <1>4. CASE job' = job /\ commissions' = commissions
    BY <1>4 DEF CommissionStays, NewlyPaidEarns, MechanicStays, CommissionsOf
  <1>5. CASE /\ Live(r) /\ job' = [job EXCEPT ![J(r)] = Merged(r, WrittenRow(r))]
             /\ commissions \subseteq commissions'
    <2>1. /\ job'[J(r)] = Merged(r, WrittenRow(r))
          /\ \A j \in Jobs \ {J(r)} : job'[j] = job[j]
      BY <1>0, <1>5 DEF TypeOK
    <2>2. WrittenRow(r) \in JobOrder /\ WrittenRow(r).life = seen[r].life
      BY <1>0, WrittenRowType
    <2>3. /\ job'[J(r)].life = "live" /\ job[J(r)].life = "live"
          /\ job'[J(r)].mechanic = job[J(r)].mechanic
          /\ job'[J(r)].paid = IF WrittenRow(r).paid = seen[r].paid THEN job[J(r)].paid
                               ELSE WrittenRow(r).paid
      <3>1. /\ Merged(r, WrittenRow(r)).life = job[J(r)].life
            /\ Merged(r, WrittenRow(r)).paid =
                 IF WrittenRow(r).paid = seen[r].paid THEN job[J(r)].paid ELSE WrittenRow(r).paid
            /\ Merged(r, WrittenRow(r)).mechanic =
                 IF WrittenRow(r).mechanic = seen[r].mechanic THEN job[J(r)].mechanic
                 ELSE WrittenRow(r).mechanic
        BY <1>0, <2>2, MergedType
      <3>2. WrittenRow(r).mechanic = seen[r].mechanic
        BY <1>0, <1>1, WrittenPaid
      <3>3. QED
        BY <1>5, <2>1, <3>1, <3>2 DEF Live
    <2>4. \A j \in Jobs : CommissionsOf(j) \subseteq CommissionsOf(j)'
      BY <1>5 DEF CommissionsOf
    <2>5. CommissionStays /\ MechanicStays
      BY <2>1, <2>3, <2>4 DEF CommissionStays, MechanicStays
    <2>6. NewlyPaidEarns
      <3>1. CASE CommitPayment(r)
        <4>1. CommissionsOf(J(r))' # {}
          BY <1>5, <3>1, PaymentEarns
        <4>2. \A j \in Jobs : j = J(r) => CommissionsOf(j)' # {}
          BY <1>0, <4>1 DEF CommissionsOf
        <4>3. QED
          BY <2>1, <4>2 DEF NewlyPaidEarns
      <3>2. CASE op[r] # "update_job_payment_status"
        <4>1. job'[J(r)].paid => job[J(r)].paid
          BY <1>0, <1>1, <2>3, <3>2, WrittenPaid
        <4>2. QED
          BY <2>1, <2>3, <4>1 DEF NewlyPaidEarns
      <3>3. QED
        BY <1>3, <3>1, <3>2
    <2>7. QED
      BY <2>5, <2>6
  <1>6. QED
    BY <1>0, <1>1, <1>4, <1>5, WriteEffect

LEMMA CheckoutCommission ==
    ASSUME CommissionInv, NEW r \in Requests, CommitCheckout(r)
    PROVE  CommissionStays /\ NewlyPaidEarns /\ MechanicStays
  <1>0. TypeOK /\ MechanicRead /\ J(r) \in Jobs /\ op[r] = "checkout" /\ J(r)' = J(r)
    BY BodyType DEF CommissionInv, IInv, CommitCheckout, At, J
  <1>1. CASE lock[J(r)] # r
    BY <1>1 DEF CommitCheckout, CommissionStays, NewlyPaidEarns, MechanicStays, CommissionsOf
  <1>2. CASE lock[J(r)] = r
    <2>1. /\ \A j \in Jobs \ {J(r)} : job'[j] = job[j]
          /\ job'[J(r)] = [job[J(r)] EXCEPT !.paid = TRUE]
      BY <1>0, <1>2 DEF CommitCheckout, TypeOK
    <2>2. job[J(r)] \in JobOrder
      BY <1>0 DEF TypeOK
    <2>3. \A j \in Jobs : job'[j].life = job[j].life /\ job'[j].mechanic = job[j].mechanic
      BY <2>1, <2>2 DEF JobOrder
    <2>4. \A j \in Jobs : CommissionsOf(j) \subseteq CommissionsOf(j)'
      BY <1>2 DEF CommitCheckout, CommissionsOf
    <2>5. job[J(r)].mechanic => \E c \in commissions' : c.job = J(r)
      <3>1. seen[r].mechanic = job[J(r)].mechanic
        BY <1>0, <1>2 DEF MechanicRead
      <3>2. seen[r].mechanic => [job |-> J(r), by |-> r] \in commissions'
        BY <1>2 DEF CommitCheckout
      <3>3. QED
        BY <3>1, <3>2
    <2>6. CommissionStays /\ MechanicStays
      BY <2>3, <2>4 DEF CommissionStays, MechanicStays
    <2>7. NewlyPaidEarns
      BY <2>1, <2>3, <2>5 DEF NewlyPaidEarns, CommissionsOf
    <2>8. QED
      BY <2>6, <2>7
  <1>3. QED
    BY <1>1, <1>2

\* The steps that read nothing: what they do to job orders and commissions.
LEMMA EarnsStep ==
    ASSUME PaidAtTheTill, CommissionInv, [Next]_vars
    PROVE  CommissionStays /\ NewlyPaidEarns /\ MechanicStays
  <1>0. TypeOK /\ OpFixed /\ NoOrphans
    BY DEF CommissionInv, IInv
  <1> DEFINE Earns == CommissionStays /\ NewlyPaidEarns /\ MechanicStays
  <1>1. ASSUME job' = job, commissions' = commissions PROVE Earns
    BY <1>1 DEF CommissionStays, NewlyPaidEarns, MechanicStays, CommissionsOf
  <1> HIDE DEF Earns
  <1>2. ASSUME NEW r \in Requests, Quietly(r) \/ CommitCartItem(r) PROVE Earns
    BY <1>0, <1>1, <1>2, QuietEffect DEF CommitCartItem, tables
  <1>3. ASSUME NEW r \in Requests, CommitStatus(r) \/ CommitDetails(r) \/ CommitPayment(r)
        PROVE  Earns
    BY <1>3, WriteCommission DEF Earns
  <1>4. ASSUME NEW r \in Requests, CreateJob(r) PROVE Earns
    <2>1. /\ J(r) \in Jobs /\ body[r] \in Bodies /\ body[r] \in Body /\ body[r].op = "create_job"
          /\ job[J(r)].life = "absent" /\ job'[J(r)] = Created(body[r])
          /\ \A j \in Jobs \ {J(r)} : job'[j] = job[j]
      BY <1>0, <1>4, BodyType DEF CreateJob, At, OpFixed, TypeOK
    <2>2. Created(body[r]).paid = FALSE /\ Created(body[r]).life = "live"
      BY <2>1 DEF Created, Given, PaidAtTheTill, Body
    <2>3. CommissionsOf(J(r)) = {}
      BY <1>0, <2>1 DEF NoOrphans, CommissionsOf
    <2>4. \A j \in Jobs : CommissionsOf(j)' = CommissionsOf(j)
      BY <1>4 DEF CreateJob, CommissionsOf
    <2>5. QED
      BY <2>1, <2>2, <2>3, <2>4 DEF Earns, CommissionStays, NewlyPaidEarns, MechanicStays
  <1>5. ASSUME NEW r \in Requests, CommitDelete(r) PROVE Earns
    <2>1. /\ J(r) \in Jobs /\ \A j \in Jobs \ {J(r)} : job'[j] = job[j]
          /\ job'[J(r)] = [job[J(r)] EXCEPT !.life = "deleted"] /\ job[J(r)] \in JobOrder
      BY <1>0, <1>5, BodyType DEF CommitDelete, TypeOK
    <2>2. job'[J(r)].life = "deleted" /\ job'[J(r)].mechanic = job[J(r)].mechanic
      BY <2>1 DEF JobOrder
    <2>3. \A j \in Jobs \ {J(r)} : CommissionsOf(j) \subseteq CommissionsOf(j)'
      BY <1>5 DEF CommitDelete, CommissionsOf
    <2>4. QED
      BY <2>1, <2>2, <2>3 DEF Earns, CommissionStays, NewlyPaidEarns, MechanicStays
  <1>6. ASSUME NEW r \in Requests, CommitCheckout(r) PROVE Earns
    BY <1>6, CheckoutCommission DEF Earns
  <1>7. ASSUME vars' = vars PROVE Earns
    BY <1>1, <1>7 DEF vars
  <1>8. ASSUME NEW r \in Requests, ServerStep(r) \/ Send(r) \/ SettleAtTill(r) \/ Fault(r)
        PROVE  Earns
    BY <1>2, <1>3, <1>4, <1>5, <1>6, <1>8 DEF ServerStep, Quietly
  <1>9. Earns
    BY <1>7, <1>8 DEF Next, Quiet
  <1>10. QED
    BY <1>9 DEF Earns

\* The handlers that commit something end, and may give up their locks.
LEMMA CommitEnds ==
    ASSUME TypeOK, NEW r \in Requests,
           \/ WriteStep(r) \/ CreateJob(r) \/ CommitDelete(r) \/ CommitCartItem(r)
           \/ CommitCheckout(r)
    PROVE  /\ UNCHANGED <<seen, body, op>>
           /\ lock' = lock \/ Unlock(r)
           /\ \E end \in {"done", "failed"} : pc' = [pc EXCEPT ![r] = end]
  <1>1. CASE WriteStep(r)
    BY <1>1 DEF WriteStep, Write, Goto
  <1>2. CASE CreateJob(r) \/ CommitDelete(r) \/ CommitCartItem(r) \/ CommitCheckout(r)
    BY <1>2 DEF CreateJob, CommitDelete, CommitCartItem, CommitCheckout, Goto
  <1>3. QED
    BY <1>1, <1>2

LEMMA CommissionStep ==
    ASSUME PaidAtTheTill, CommissionInv, [Next]_vars
    PROVE  PaidHasCommission' /\ CommissionFound' /\ MechanicRead'
  <1>0. TypeOK /\ CommissionStays /\ NewlyPaidEarns /\ MechanicStays
    BY EarnsStep DEF CommissionInv, IInv
  <1> DEFINE Good == PaidHasCommission' /\ CommissionFound' /\ MechanicRead'
  <1>1. ASSUME NEW r \in Requests, Quietly(r) PROVE Good
    BY <1>1, QuietCommission
  <1>2. ASSUME NEW r \in Requests,
               \/ WriteStep(r) \/ CreateJob(r) \/ CommitDelete(r) \/ CommitCartItem(r)
               \/ CommitCheckout(r)
        PROVE  Good
    <2>1. /\ UNCHANGED <<seen, body, op>>
          /\ lock' = lock \/ Unlock(r)
          /\ \E end \in {"done", "failed"} : pc' = [pc EXCEPT ![r] = end]
      BY <1>0, <1>2, CommitEnds
    <2>2. \A j \in Jobs : lock'[j] \in {lock[j], Free}
      BY <2>1 DEF Unlock
    <2>3. \A q \in Requests :
             At(q, "update_job_payment_status", "commit")'
             => At(q, "update_job_payment_status", "commit")
      BY <1>0, <2>1 DEF At, TypeOK
    <2>4. QED
      BY <1>0, <2>1, <2>2, <2>3, CommissionKept
  <1>3. ASSUME vars' = vars PROVE Good
    BY <1>3 DEF vars, CommissionInv, PaidHasCommission, CommissionFound, MechanicRead,
                CommissionsOf, At, J
  <1> HIDE DEF Good
  <1>4. Good
    BY <1>0, <1>1, <1>2, <1>3, StepCases
  <1>5. QED
    BY <1>4 DEF Good

LEMMA InitCommissionInv == Init => CommissionInv
  <1> SUFFICES ASSUME Init PROVE CommissionInv
    OBVIOUS
  <1>1. \A j \in Jobs : ~job[j].paid /\ lock[j] = Free
    BY DEF Init, NewJob
  <1>2. \A r \in Requests : pc[r] = "idle" /\ J(r) \in Jobs
    BY InitIInv, BodyType DEF Init, IInv
  <1>3. PaidHasCommission /\ CommissionFound /\ MechanicRead
    BY <1>1, <1>2 DEF PaidHasCommission, CommissionFound, MechanicRead, At
  <1>4. QED
    BY <1>3, InitIInv DEF CommissionInv

LEMMA StepCommissionInv ==
    ASSUME PaidAtTheTill, CommissionInv, [Next]_vars
    PROVE  CommissionInv'
  <1>1. IInv'
    BY TypeStep, OrphansStep DEF IInv, CommissionInv
  <1>2. QED
    BY <1>1, CommissionStep DEF CommissionInv

\* "Settle mechanic commission", at the checkout or at payment-status: when job
\* orders are paid by these two only and have their mechanic from the start,
\* a paid job order never lacks its commission, whoever settles, deletes, takes
\* the payment back or is killed beside it.
THEOREM PaidHasCommissionHolds ==
    ASSUME PaidAtTheTill
    PROVE  Spec => []PaidHasCommission
  <1>1. CommissionInv /\ [Next]_vars => CommissionInv'
    BY StepCommissionInv
  <1>2. CommissionInv => PaidHasCommission
    BY DEF CommissionInv
  <1>3. QED
    BY InitCommissionInv, <1>1, <1>2, PTL DEF Spec

-----------------------------------------------------------------------------
(* One commission from payment-status.                                      *)

\* Who adds a commission: payment-status at its insert, or a handler that no
\* lock of somebody else stops.
LEMMA NewCommission ==
    ASSUME TypeOK, LockedIsLive, NEW r \in Requests,
           Send(r) \/ ServerStep(r) \/ SettleAtTill(r) \/ Fault(r),
           NEW c \in commissions' \ commissions
    PROVE  /\ c = [job |-> J(r), by |-> r] /\ Live(r)
           /\ \/ At(r, "update_job_payment_status", "insert")
              \/ op[r] # "update_job_payment_status" /\ CanWrite(r)
  <1>1. CommitStatus(r) \/ CommitDetails(r) \/ CommitPayment(r) \/ CommitCheckout(r)
    <2>1. ~Quietly(r)
      BY QuietEffect DEF tables
    <2>2. QED
      BY <2>1 DEF ServerStep, Quietly, CreateJob, CommitDelete, CommitCartItem
  <1>2. CASE CommitStatus(r)
    <2> DEFINE new == [seen[r] EXCEPT !.status = body[r].status]
    <2>1. /\ body[r].status = "COMPLETED" /\ seen[r].status # "COMPLETED"
          /\ new # seen[r] => CanWrite(r)
          /\ c = [job |-> J(r), by |-> r] /\ Live(r)
      BY <1>2 DEF CommitStatus, Write
    <2>2. new.status = body[r].status
      BY DEF TypeOK, JobOrder
    <2>3. QED
      BY <1>2, <2>1, <2>2 DEF CommitStatus, At
  <1>3. CASE CommitDetails(r)
    BY <1>3 DEF CommitDetails, Write
  <1>4. CASE CommitPayment(r)
    BY <1>4 DEF CommitPayment, Write, At
  <1>5. CASE CommitCheckout(r)
    <2>1. lock[J(r)] = r /\ c = [job |-> J(r), by |-> r]
      BY <1>5 DEF CommitCheckout
    <2>2. Live(r)
      BY <2>1, BodyType DEF LockedIsLive, Live
    <2>3. QED
      BY <1>5, <2>1, <2>2 DEF CommitCheckout, CanWrite, At
  <1>6. QED
    BY <1>1, <1>2, <1>3, <1>4, <1>5

\* A step of another request leaves a lock alone.
LEMMA LocksHeld ==
    ASSUME TypeOK, NEW r \in Requests, Send(r) \/ ServerStep(r) \/ SettleAtTill(r) \/ Fault(r),
           NEW j \in Jobs, NEW q \in Requests \ {r}, lock[j] = q
    PROVE  lock'[j] = q
  <1>1. CASE lock' = lock \/ Unlock(r)
    BY <1>1 DEF Unlock
  <1>2. CASE CanWrite(r) /\ lock' = [lock EXCEPT ![J(r)] = r]
    BY <1>2 DEF CanWrite, TypeOK
  <1>3. CASE CommitStatus(r) \/ CommitDetails(r) \/ CommitPayment(r)
    BY <1>1, <1>3 DEF CommitStatus, CommitDetails, CommitPayment
  <1>4. CASE CreateJob(r) \/ CommitDelete(r) \/ CommitCartItem(r) \/ CommitCheckout(r)
    BY <1>1, <1>4 DEF CreateJob, CommitDelete, CommitCartItem, CommitCheckout
  <1>5. CASE \/ Send(r) \/ FindJobOrder(r) \/ FlushPayment(r) \/ CheckCommission(r)
             \/ LockJobOrder(r) \/ SettleAtTill(r) \/ Fault(r)
    BY <1>1, <1>2, <1>5 DEF Send, FindJobOrder, FlushPayment, CheckCommission, LockJobOrder,
                            SettleAtTill, Fault
  <1>6. QED
    BY <1>3, <1>4, <1>5 DEF ServerStep

\* What a step of r does to the handler of r.
LEMMA OwnStep ==
    ASSUME TypeOK, NEW r \in Requests, Send(r) \/ ServerStep(r) \/ SettleAtTill(r) \/ Fault(r)
    PROVE  /\ body' = body
           /\ \A q \in Requests \ {r} : op'[q] = op[q] /\ pc'[q] = pc[q] /\ seen'[q] = seen[q]
           /\ \/ seen'[r] = seen[r]
              \/ seen'[r] = job[J(r)] /\ job' = job /\ commissions' = commissions
           /\ op'[r] = "update_job_payment_status" /\ pc'[r] \in {"flush", "check", "insert"} =>
                \/ FindJobOrder(r) /\ Live(r) /\ seen'[r] = job[J(r)] /\ pc'[r] = "flush"
                \/ FlushPayment(r) /\ pc'[r] = "check"
                \/ CheckCommission(r) /\ pc'[r] = "insert"
  <1>1. CASE WriteStep(r) \/ CreateJob(r) \/ CommitDelete(r) \/ CommitCartItem(r) \/ CommitCheckout(r)
    <2>1. /\ UNCHANGED <<seen, body, op>>
          /\ \E end \in {"done", "failed"} : pc' = [pc EXCEPT ![r] = end]
      BY <1>1, CommitEnds
    <2>2. QED
      BY <2>1 DEF TypeOK
  <1>2. CASE Send(r) \/ SettleAtTill(r) \/ Fault(r) \/ CheckCommission(r) \/ FlushPayment(r)
    BY <1>2 DEF Send, SettleAtTill, Fault, CheckCommission, FlushPayment, Goto, TypeOK
  <1>3. CASE FindJobOrder(r) \/ LockJobOrder(r)
    BY <1>3 DEF FindJobOrder, LockJobOrder, Goto, Refused, tables, TypeOK, At
  <1>4. QED
    BY <1>1, <1>2, <1>3, WriteSteps DEF ServerStep

LEMMA PaidSeenStep ==
    ASSUME PaidAtTheTill, SettleInv, NEW r \in Requests,
           Send(r) \/ ServerStep(r) \/ SettleAtTill(r) \/ Fault(r)
    PROVE  PaidSeen'
  <1>0. TypeOK /\ PaidSeen /\ PaidHasCommission
    BY DEF SettleInv, CommissionInv, IInv
  <1>1. CommissionStays /\ MechanicStays
    BY EarnsStep DEF SettleInv, Next
  <1> SUFFICES ASSUME NEW q \in Requests, seen'[q].life = "live"
               PROVE  /\ job'[J(q)].life # "absent"
                      /\ seen'[q].paid /\ job'[J(q)].life = "live" /\ job'[J(q)].mechanic
                         => CommissionsOf(J(q))' # {}
    BY <1>0, OwnStep DEF PaidSeen, J
  <1>2. J(q) \in Jobs /\ J(q)' = J(q) /\ job[J(q)].life \in {"absent", "live", "deleted"}
    BY <1>0, OwnStep, BodyType DEF TypeOK, JobOrder, J
  <1>3. CASE seen'[q] = seen[q]
    BY <1>0, <1>1, <1>2, <1>3 DEF PaidSeen, CommissionStays, MechanicStays
  <1>4. CASE seen'[q] = job[J(q)] /\ job' = job /\ commissions' = commissions
    BY <1>0, <1>2, <1>4 DEF PaidHasCommission, CommissionsOf
  <1>5. QED
    BY <1>0, <1>3, <1>4, OwnStep

LEMMA SettlesAloneStep ==
    ASSUME PaidAtTheTill, SettleInv, NEW r \in Requests,
           Send(r) \/ ServerStep(r) \/ SettleAtTill(r) \/ Fault(r)
    PROVE  SettlesAlone'
  <1>0. TypeOK /\ LockedIsLive /\ PaidSeen /\ SettlesAlone
    BY DEF SettleInv, CommissionInv, IInv
  <1>1. CommissionStays /\ MechanicStays /\ [Next]_vars
    BY EarnsStep DEF SettleInv, Next
  <1>2. \A q \in Requests : J(q) \in Jobs /\ J(q)' = J(q)
    BY <1>0, OwnStep, BodyType DEF J
  <1> SUFFICES ASSUME NEW q \in Requests, op'[q] = "update_job_payment_status",
                      pc'[q] \in {"flush", "check", "insert"}
               PROVE  /\ seen'[q].life = "live"
                      /\ pc'[q] = "check" => lock'[J(q)] = q \/ Settled(seen'[q]) = seen'[q]
                      /\ pc'[q] = "insert" /\ job'[J(q)].life = "live" /\ job'[J(q)].mechanic
                         => lock'[J(q)] = q /\ CommissionsOf(J(q))' = {}
    BY <1>2 DEF SettlesAlone, At, Settled
  <1>3. CASE q = r
    <2>1. CASE FindJobOrder(r) /\ Live(r) /\ seen'[r] = job[J(r)] /\ pc'[r] = "flush"
      BY <1>3, <2>1 DEF Live
    <2>2. CASE FlushPayment(r) /\ pc'[r] = "check"
      BY <1>0, <1>2, <1>3, <2>2 DEF FlushPayment, SettlesAlone, At, Goto, TypeOK
    <2>3. CASE CheckCommission(r) /\ pc'[r] = "insert"
      <3>1. /\ At(r, "update_job_payment_status", "check") /\ CommissionsOf(J(r)) = {}
            /\ job' = job /\ commissions' = commissions /\ lock' = lock /\ seen' = seen
        BY <1>0, <2>3 DEF CheckCommission, HasCommission, Goto, TypeOK, tables
      <3>2. seen[r].life = "live" /\ (lock[J(r)] = r \/ Settled(seen[r]) = seen[r])
        BY <1>0, <3>1 DEF SettlesAlone, At
      <3>3. Settled(seen[r]) = seen[r] => seen[r].paid
        <4>1. seen[r] \in JobOrder
          BY <1>0 DEF TypeOK
        <4>2. Settled(seen[r]).paid
          BY <4>1 DEF Settled, JobOrder
        <4>3. QED
          BY <4>2
      <3>4. CommissionsOf(J(r))' = {}
        BY <1>2, <3>1 DEF CommissionsOf
      <3>5. QED
        BY <1>0, <1>2, <1>3, <2>3, <3>1, <3>2, <3>3, <3>4 DEF PaidSeen
    <2>4. QED
      BY <1>0, <1>3, <2>1, <2>2, <2>3, OwnStep
  <1>4. CASE q # r
    <2>1. /\ op[q] = "update_job_payment_status" /\ pc[q] = pc'[q] /\ seen'[q] = seen[q]
          /\ lock[J(q)] = q => lock'[J(q)] = q
      BY <1>0, <1>2, <1>4, OwnStep, LocksHeld
    <2>2. /\ seen[q].life = "live"
          /\ pc[q] = "check" => lock[J(q)] = q \/ Settled(seen[q]) = seen[q]
      BY <1>0, <2>1 DEF SettlesAlone, At
    <2>3. ASSUME pc[q] = "insert", job'[J(q)].life = "live", job'[J(q)].mechanic
          PROVE  lock[J(q)] = q /\ CommissionsOf(J(q))' = {}
      <3>1. job[J(q)].life = "live" /\ job[J(q)].mechanic
        BY <1>0, <1>1, <1>2, <2>2, <2>3 DEF PaidSeen, MechanicStays, CommissionStays, TypeOK, JobOrder
      <3>2. lock[J(q)] = q /\ CommissionsOf(J(q)) = {}
        BY <1>0, <2>1, <2>3, <3>1 DEF SettlesAlone, At
      <3>3. ASSUME NEW c \in commissions', c.job = J(q) PROVE FALSE
        <4>1. c \in commissions' \ commissions
          BY <3>2, <3>3 DEF CommissionsOf
        <4>2. /\ J(r) = J(q) /\ Live(r)
              /\ \/ At(r, "update_job_payment_status", "insert")
                 \/ op[r] # "update_job_payment_status" /\ CanWrite(r)
          BY <1>0, <3>3, <4>1, NewCommission
        <4>3. lock[J(r)] = r \/ CanWrite(r)
          BY <1>0, <3>1, <4>2 DEF SettlesAlone, Live
        <4>4. QED
          BY <1>4, <3>2, <4>2, <4>3 DEF CanWrite
      <3>4. QED
        BY <1>2, <3>2, <3>3 DEF CommissionsOf
    <2>4. QED
      BY <2>1, <2>2, <2>3
  <1>5. QED
    BY <1>3, <1>4

\* "Check if commission already exists for this job order": payment-status adds no
\* second commission to that of a mechanic, although it looks without a lock when it
\* has nothing to write, and its insert waits for checkouts only.
THEOREM PaymentAddsOnlyTheFirstHolds ==
    ASSUME PaidAtTheTill
    PROVE  Spec => PaymentAddsOnlyTheFirst
  <1>1. Init => SettleInv
    <2>1. Init => PaidSeen /\ SettlesAlone
      BY DEF Init, NewJob, PaidSeen, SettlesAlone, At
    <2>2. QED
      BY <2>1, InitCommissionInv DEF SettleInv
  <1>2. SettleInv /\ [Next]_vars => SettleInv'
    <2>1. SettleInv /\ [Next]_vars => CommissionInv'
      BY StepCommissionInv DEF SettleInv
    <2>2. SettleInv /\ vars' = vars => PaidSeen' /\ SettlesAlone'
      <3> SUFFICES ASSUME PaidSeen, SettlesAlone, vars' = vars PROVE PaidSeen' /\ SettlesAlone'
        BY DEF SettleInv
      <3>1. UNCHANGED <<job, commissions, lock, op, pc, seen, body>>
        BY DEF vars
      <3>2. PaidSeen'
        BY <3>1 DEF PaidSeen, CommissionsOf, J
      <3>3. SettlesAlone'
        BY <3>1, Zenon DEF SettlesAlone, CommissionsOf, Settled, At, J
      <3>4. QED
        BY <3>2, <3>3
    <2>3. SettleInv /\ [Next]_vars => PaidSeen' /\ SettlesAlone'
      BY <2>2, PaidSeenStep, SettlesAloneStep DEF Next, Quiet
    <2>4. QED
      BY <2>1, <2>3 DEF SettleInv
  <1>3. SettleInv /\ [Next]_vars =>
          [\A c \in commissions' \ commissions :
             op[c.by] = "update_job_payment_status" /\ job[c.job].mechanic
             => CommissionsOf(c.job) = {}]_vars
    <2> SUFFICES ASSUME SettleInv, Next, NEW c \in commissions' \ commissions,
                        op[c.by] = "update_job_payment_status", job[c.job].mechanic
                 PROVE  CommissionsOf(c.job) = {}
      OBVIOUS
    <2>1. PICK r \in Requests : Send(r) \/ ServerStep(r) \/ SettleAtTill(r) \/ Fault(r)
      BY DEF Next, Quiet, vars
    <2>2. c.job = J(r) /\ Live(r) /\ At(r, "update_job_payment_status", "insert")
      BY <2>1, NewCommission DEF SettleInv, CommissionInv, IInv, At
    <2>3. QED
      BY <2>2 DEF SettleInv, SettlesAlone, Live
  <1>4. QED
    BY <1>1, <1>2, <1>3, PTL DEF Spec, PaymentAddsOnlyTheFirst
=============================================================================
