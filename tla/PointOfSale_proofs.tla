-------------------------- MODULE PointOfSale_proofs --------------------------
(***************************************************************************)
(* Proofs about PointOfSale, for every set of products, requests, keys and *)
(* request bodies, in four parts: type correctness, with the balance and   *)
(* the immutability of the movements; that a sale is atomic; what the      *)
(* idempotency decorator guarantees; and that the whole implements         *)
(* AtomicShop.                                                             *)
(***************************************************************************)
EXTENDS PointOfSale, TLAPS, SequenceTheorems, FiniteSetTheorems

USE DataAssumption, PointOfSaleAssumption

-----------------------------------------------------------------------------
(* What the helpers return. *)

LEMMA OpType ==
    ASSUME TypeOK, NEW r \in Requests
    PROVE  /\ key[r] \in Keys
           /\ body[key[r]] \in Bodies
           /\ body[key[r]] \in Body
           /\ Op(r) \in Ops
           /\ Lines(r) \in Seq(Line)
           /\ JobOf(r) \in Jobs \cup {NoJob}
  BY DEF TypeOK, Op, Lines, JobOf, Body

LEMMA TargetType ==
    ASSUME TypeOK, NEW r \in Requests,
           Op(r) \in {"adjust_stock", "update_item", "delete_item"}
    PROVE  /\ Target(r) \in Products
           /\ 1 \in 1..Len(Lines(r))
           /\ Lines(r)[1].qty \in Int
  <1>1. Len(Lines(r)) = 1 /\ Lines(r)[1].id \in Products
    BY OpType DEF Op, Lines
  <1>2. Lines(r)[1] \in Line
    BY <1>1, OpType
  <1>3. QED
    BY <1>1, <1>2 DEF Target, Line

LEMMA MovedType ==
    ASSUME TypeOK, NEW r \in Requests, NEW i \in Products,
           NEW k \in Nat \ {0}, NEW n \in Int
    PROVE  /\ Moved(i, r, k, n) \in Item
           /\ Moved(i, r, k, n).stock = draft[i].stock + n
           /\ Moved(i, r, k, n).active = draft[i].active
           /\ Moved(i, r, k, n).moves =
                Append(draft[i].moves, [ref |-> r, line |-> k, change |-> n,
                                        new |-> draft[i].stock + n])
  <1>1. draft[i] \in Item
    BY DEF TypeOK
  <1> DEFINE move == [ref |-> r, line |-> k, change |-> n, new |-> draft[i].stock + n]
  <1>2. move \in Move
    BY <1>1 DEF Move, Item
  <1>3. Append(draft[i].moves, move) \in Seq(Move)
    BY <1>1, <1>2 DEF Item
  <1>4. QED
    BY <1>1, <1>3 DEF Moved, Item

LEMMA StockUpdate ==
    ASSUME NEW item \in Item, NEW n \in Int
    PROVE  /\ [item EXCEPT !.stock = n] \in Item
           /\ [item EXCEPT !.stock = n].moves = item.moves
  BY DEF Item

LEMMA ActiveUpdate ==
    ASSUME NEW item \in Item
    PROVE  /\ [item EXCEPT !.active = FALSE] \in Item
           /\ [item EXCEPT !.active = FALSE].moves = item.moves
           /\ [item EXCEPT !.active = FALSE].stock = item.stock
  BY DEF Item

\* The line a checkout deducts, and what it makes of the product's draft.
LEMMA DeductLineType ==
    ASSUME TypeOK, NEW r \in Requests, DeductLine(r)
    PROVE  LET line == Lines(r)[next[r]] IN
           /\ next[r] \in 1..Len(Lines(r))
           /\ line.id \in Products
           /\ -line.qty \in Int
           /\ lock' = [lock EXCEPT ![line.id] = r]
           /\ draft' = [draft EXCEPT ![line.id] = Moved(line.id, r, next[r], -line.qty)]
           /\ Moved(line.id, r, next[r], -line.qty) \in Item
  <1> DEFINE line == Lines(r)[next[r]]
  <1>1. next[r] \in Nat \ {0} /\ Lines(r) \in Seq(Line)
    BY OpType DEF TypeOK
  <1>2. next[r] \in 1..Len(Lines(r))
    BY <1>1 DEF DeductLine
  <1>3. line \in Line
    BY <1>1, <1>2
  <1>4. line.id \in Products /\ -line.qty \in Int
    BY <1>3 DEF DeductLine, Line
  <1> HIDE DEF line
  <1>5. Moved(line.id, r, next[r], -line.qty) \in Item
    BY <1>1, <1>4, MovedType
  <1>6. QED
    BY <1>2, <1>4, <1>5 DEF DeductLine, line

LEMMA AdjustStockType ==
    ASSUME TypeOK, NEW r \in Requests, AdjustStock(r)
    PROVE  /\ Target(r) \in Products
           /\ Lines(r)[1].qty \in Int
           /\ Moved(Target(r), r, 1, Lines(r)[1].qty) \in Item
  <1>1. Target(r) \in Products /\ Lines(r)[1].qty \in Int
    BY TargetType DEF AdjustStock
  <1>2. 1 \in Nat \ {0}
    OBVIOUS
  <1>3. \A n \in Int : Moved(Target(r), r, 1, n) \in Item
    BY <1>1, <1>2, MovedType
  <1>4. QED
    BY <1>1, <1>3

-----------------------------------------------------------------------------
(* Type correctness. *)

LEMMA PublishType ==
    ASSUME TypeOK, NEW r \in Requests, Publish(r)
    PROVE  /\ row' \in [Products -> Item]
           /\ draft' \in [Products -> Item]
           /\ lock' \in [Rows -> Requests \cup {Free}]
  BY DEF TypeOK, Publish, Release, Rows

LEMMA RollbackType ==
    ASSUME TypeOK, NEW r \in Requests, Rollback(r)
    PROVE  /\ row' \in [Products -> Item]
           /\ draft' \in [Products -> Item]
           /\ lock' \in [Rows -> Requests \cup {Free}]
  BY DEF TypeOK, Rollback, Release, Rows

LEMMA InitType == Init => TypeOK
  <1> SUFFICES ASSUME Init PROVE TypeOK
    OBVIOUS
  <1>1. \A i \in Products : NewItem(i) \in Item
    BY DEF NewItem, Item
  <1>2. row \in [Products -> Item] /\ draft \in [Products -> Item]
    BY <1>1 DEF Init
  <1>3. jobs \in [Jobs -> Job]
    BY DEF Init, Job
  <1>4. QED
    BY <1>2, <1>3 DEF Init, TypeOK

LEMMA TypeStep == TypeOK /\ [Next]_vars => TypeOK'
  <1> SUFFICES ASSUME TypeOK, [Next]_vars PROVE TypeOK'
    OBVIOUS
  <1> USE DEF TypeOK, Goto, dbVars, input, InFlight, InHandler, Answered, Rows
  <1>1. ASSUME NEW r \in Requests, Send(r) PROVE TypeOK'
    <2>1. CASE Op(r) = "update_item"
      <3>1. PICK n \in Recounts \cup {row[Target(r)].stock} :
                form' = [form EXCEPT ![r] = n]
        BY <1>1, <2>1 DEF Send
      <3>2. Target(r) \in Products
        BY <2>1, TargetType
      <3>3. row[Target(r)] \in Item
        BY <3>2
      <3>4. n \in Int
        BY <3>1, <3>3 DEF Item
      <3>5. QED
        BY <1>1, <3>1, <3>4 DEF Send
    <2>2. CASE Op(r) # "update_item"
      BY <1>1, <2>2 DEF Send
    <2>3. QED
      BY <2>1, <2>2
  <1>2. ASSUME NEW r \in Requests, Replay(r) PROVE TypeOK'
    BY <1>2 DEF Replay
  <1>3. ASSUME NEW r \in Requests, StartHandler(r) PROVE TypeOK'
    BY <1>3 DEF StartHandler
  <1>4. ASSUME NEW r \in Requests, SaveReply(r) PROVE TypeOK'
    BY <1>4 DEF SaveReply
  <1>5. ASSUME NEW r \in Requests, DeductLine(r) PROVE TypeOK'
    <2> DEFINE line == Lines(r)[next[r]]
               item == Moved(line.id, r, next[r], -line.qty)
    <2>1. /\ line.id \in Products /\ item \in Item
          /\ lock' = [lock EXCEPT ![line.id] = r]
          /\ draft' = [draft EXCEPT ![line.id] = item]
      BY <1>5, DeductLineType
    <2> HIDE DEF line, item
    <2>2. /\ draft' \in [Products -> Item]
          /\ lock' \in [Rows -> Requests \cup {Free}]
      BY <2>1
    <2>3. QED
      BY <1>5, <2>2 DEF DeductLine
  <1>6. ASSUME NEW r \in Requests, SkipLine(r) PROVE TypeOK'
    BY <1>6 DEF SkipLine
  <1>7. ASSUME NEW r \in Requests, AddPayment(r) PROVE TypeOK'
    BY <1>7 DEF AddPayment
  <1>8. ASSUME NEW r \in Requests, SettleJob(r) PROVE TypeOK'
    BY <1>8 DEF SettleJob
  <1>9. ASSUME NEW r \in Requests, CommitCheckout(r) PROVE TypeOK'
    <2>1. jobs' \in [Jobs -> Job]
      BY <1>9 DEF CommitCheckout, Settled, Job
    <2>2. QED
      BY <1>9, <2>1, PublishType DEF CommitCheckout
  <1>10. ASSUME NEW r \in Requests, DeadlockVictim(r) PROVE TypeOK'
    BY <1>10, RollbackType DEF DeadlockVictim
  <1>11. ASSUME NEW r \in Requests, CommitRefused(r) PROVE TypeOK'
    BY <1>11 DEF CommitRefused
  <1>12. ASSUME NEW r \in Requests, AdjustStock(r) PROVE TypeOK'
    BY <1>12, AdjustStockType DEF AdjustStock
  <1>13. ASSUME NEW r \in Requests, CommitAdjustment(r) PROVE TypeOK'
    BY <1>13, PublishType DEF CommitAdjustment
  <1>14. ASSUME NEW r \in Requests, LoadItem(r) PROVE TypeOK'
    BY <1>14 DEF LoadItem
  <1>15. ASSUME NEW r \in Requests, CommitItemUpdate(r) PROVE TypeOK'
    <2> DEFINE stock == IF form[r] = Keep THEN row[Target(r)].stock ELSE form[r]
               item == [row[Target(r)] EXCEPT !.stock = stock]
    <2>1. Target(r) \in Products
      BY <1>15, TargetType DEF CommitItemUpdate
    <2>2. item \in Item
      <3>1. row[Target(r)] \in Item /\ stock \in Int
        BY <2>1 DEF Item
      <3>2. QED
        BY <3>1, StockUpdate
    <2>3. WriteItem(r, item)
      BY <1>15 DEF CommitItemUpdate
    <2>4. row' \in [Products -> Item] /\ draft' \in [Products -> Item]
      BY <2>1, <2>2, <2>3 DEF WriteItem
    <2>5. QED
      BY <1>15, <2>4 DEF CommitItemUpdate
  <1>16. ASSUME NEW r \in Requests, CommitItemDelete(r) PROVE TypeOK'
    <2> DEFINE item == [row[Target(r)] EXCEPT !.active = FALSE]
    <2>1. Target(r) \in Products
      BY <1>16, TargetType DEF CommitItemDelete
    <2>2. item \in Item
      BY <2>1, ActiveUpdate
    <2>3. WriteItem(r, item)
      BY <1>16 DEF CommitItemDelete
    <2>4. row' \in [Products -> Item] /\ draft' \in [Products -> Item]
      BY <2>1, <2>2, <2>3 DEF WriteItem
    <2>5. QED
      BY <1>16, <2>4 DEF CommitItemDelete
  <1>17. ASSUME NEW r \in Requests, FindTransaction(r) PROVE TypeOK'
    BY <1>17 DEF FindTransaction
  <1>18. ASSUME NEW r \in Requests, CommitVoid(r) PROVE TypeOK'
    BY <1>18 DEF CommitVoid, Transactions
  <1>19. ASSUME NEW r \in Requests, LogAudit(r) PROVE TypeOK'
    BY <1>19 DEF LogAudit
  <1>20. ASSUME NEW r \in Requests, Fault(r) PROVE TypeOK'
    BY <1>20, RollbackType DEF Fault
  <1>21. ASSUME NEW r \in Requests, LockService(r) PROVE TypeOK'
    BY <1>21 DEF LockService
  <1>22. CASE UNCHANGED vars
    BY <1>22 DEF vars
  <1>23. QED
    BY <1>1, <1>2, <1>3, <1>4, <1>5, <1>6, <1>7, <1>8, <1>9, <1>10, <1>11, <1>12,
       <1>13, <1>14, <1>15, <1>16, <1>17, <1>18, <1>19, <1>20, <1>21, <1>22
       DEF Next, ServerStep, CheckoutStep, InventoryStep, VoidStep, Quiet

\* Every variable of the point of sale keeps its type, whatever the interleaving,
\* the request bodies and the faults.
THEOREM TypeCorrect == Spec => []TypeOK
  <1>1. QED
    BY InitType, TypeStep, PTL DEF Spec

-----------------------------------------------------------------------------
(* What a step does to the items.                                           *)

\* r appends one movement to the draft of item i, whose lock it takes or has.
AppendMove(r, i, k, n) ==
    /\ CanLock(r, i)
    /\ lock' = [lock EXCEPT ![i] = r]
    /\ row' = row
    /\ draft' = [draft EXCEPT ![i] = Moved(i, r, k, n)]

\* r overwrites the columns of an unlocked item and leaves its movements.
Overwrite(r, item) ==
    /\ Target(r) \in Products
    /\ WriteItem(r, item)
    /\ lock' = lock
    /\ item.moves = row[Target(r)].moves
    /\ Op(r) # "update_item" => item.stock = row[Target(r)].stock

KeepItems ==
    /\ row' = row
    /\ draft' = draft
    /\ \A i \in Products : lock'[i] = lock[i]

ItemStep ==
    \/ KeepItems
    \/ \E r \in Requests : Publish(r) /\ (CommitCheckout(r) \/ CommitAdjustment(r))
    \/ \E r \in Requests : Rollback(r) /\ (DeadlockVictim(r) \/ Fault(r))
    \/ \E r \in Requests, i \in Products, k \in Nat \ {0}, n \in Int :
         /\ AppendMove(r, i, k, n)
         /\ \/ DeductLine(r) /\ k = next[r] /\ i = Lines(r)[k].id /\ n = -Lines(r)[k].qty
            \/ AdjustStock(r)
    \/ \E r \in Requests, item \in Item : Overwrite(r, item)

LEMMA ItemSteps ==
    ASSUME TypeOK, [Next]_vars
    PROVE  ItemStep
  <1> USE DEF Goto, dbVars, input
  <1>1. ASSUME NEW r \in Requests, DeductLine(r) PROVE ItemStep
    <2> DEFINE i == Lines(r)[next[r]].id
               n == -Lines(r)[next[r]].qty
    <2>1. i \in Products /\ n \in Int /\ next[r] \in Nat \ {0}
      BY <1>1, DeductLineType DEF TypeOK
    <2>2. AppendMove(r, i, next[r], n)
      BY <1>1 DEF DeductLine, AppendMove
    <2>3. i = Lines(r)[next[r]].id /\ n = -Lines(r)[next[r]].qty
      OBVIOUS
    <2> HIDE DEF i, n
    <2>4. QED
      BY <1>1, <2>1, <2>2, <2>3 DEF ItemStep
  <1>2. ASSUME NEW r \in Requests, AdjustStock(r) PROVE ItemStep
    <2>1. AppendMove(r, Target(r), 1, Lines(r)[1].qty)
      BY <1>2 DEF AdjustStock, AppendMove
    <2>2. Target(r) \in Products /\ 1 \in Nat \ {0} /\ Lines(r)[1].qty \in Int
      BY <1>2, AdjustStockType
    <2>3. QED
      BY <1>2, <2>1, <2>2 DEF ItemStep
  <1>3. ASSUME NEW r \in Requests, CommitItemUpdate(r) PROVE ItemStep
    <2> DEFINE stock == IF form[r] = Keep THEN row[Target(r)].stock ELSE form[r]
               item == [row[Target(r)] EXCEPT !.stock = stock]
    <2>1. Target(r) \in Products /\ Op(r) = "update_item"
      BY <1>3, TargetType DEF CommitItemUpdate
    <2>2. row[Target(r)] \in Item /\ stock \in Int
      BY <2>1 DEF Item, TypeOK
    <2>3. item \in Item /\ item.moves = row[Target(r)].moves
      BY <2>2, StockUpdate
    <2>4. WriteItem(r, item) /\ lock' = lock
      BY <1>3 DEF CommitItemUpdate
    <2>5. Overwrite(r, item)
      BY <2>1, <2>3, <2>4 DEF Overwrite
    <2>6. QED
      BY <2>3, <2>5 DEF ItemStep
  <1>4. ASSUME NEW r \in Requests, CommitItemDelete(r) PROVE ItemStep
    <2> DEFINE item == [row[Target(r)] EXCEPT !.active = FALSE]
    <2>1. Target(r) \in Products
      BY <1>4, TargetType DEF CommitItemDelete
    <2>2. row[Target(r)] \in Item
      BY <2>1 DEF TypeOK
    <2>3. /\ item \in Item
          /\ item.moves = row[Target(r)].moves
          /\ item.stock = row[Target(r)].stock
      BY <2>2, ActiveUpdate
    <2>4. WriteItem(r, item) /\ lock' = lock
      BY <1>4 DEF CommitItemDelete
    <2>5. Overwrite(r, item)
      BY <2>1, <2>3, <2>4 DEF Overwrite
    <2>6. QED
      BY <2>3, <2>5 DEF ItemStep
  <1>5. ASSUME NEW r \in Requests, CommitCheckout(r) \/ CommitAdjustment(r) PROVE ItemStep
    BY <1>5 DEF CommitCheckout, CommitAdjustment, ItemStep
  <1>6. ASSUME NEW r \in Requests, DeadlockVictim(r) \/ Fault(r) PROVE ItemStep
    BY <1>6 DEF DeadlockVictim, Fault, ItemStep
  <1>7. ASSUME NEW r \in Requests, LockService(r) \/ SettleJob(r) PROVE ItemStep
    <2>1. PICK x : x \notin Products /\ lock' = [lock EXCEPT ![x] = r]
      <3>1. CASE LockService(r)
        BY <3>1 DEF LockService
      <3>2. CASE SettleJob(r)
        <4>1. JobOf(r) \notin Products
          BY OpType DEF Rows
        <4>2. QED
          BY <3>2, <4>1 DEF SettleJob
      <3>3. QED
        BY <1>7, <3>1, <3>2
    <2>2. KeepItems
      BY <1>7, <2>1 DEF LockService, SettleJob, KeepItems, TypeOK, Rows
    <2>3. QED
      BY <2>2 DEF ItemStep
  <1>8. ASSUME UNCHANGED <<row, draft, lock>> PROVE ItemStep
    BY <1>8 DEF ItemStep, KeepItems
  <1>9. ASSUME NEW r \in Requests,
               \/ Send(r) \/ Replay(r) \/ StartHandler(r) \/ SaveReply(r)
               \/ SkipLine(r) \/ AddPayment(r) \/ CommitRefused(r) \/ LoadItem(r)
               \/ FindTransaction(r) \/ CommitVoid(r) \/ LogAudit(r)
        PROVE  ItemStep
    <2>1. UNCHANGED <<row, draft, lock>>
      BY <1>9 DEF Send, Replay, StartHandler, SaveReply, SkipLine, AddPayment,
                  CommitRefused, LoadItem, FindTransaction, CommitVoid, LogAudit
    <2>2. QED
      BY <1>8, <2>1
  <1>10. CASE UNCHANGED vars
    BY <1>8, <1>10 DEF vars
  <1>11. QED
    BY <1>1, <1>2, <1>3, <1>4, <1>5, <1>6, <1>7, <1>9, <1>10
       DEF Next, ServerStep, CheckoutStep, InventoryStep, VoidStep, Quiet

-----------------------------------------------------------------------------
(* Stock movements balance when stock changes by movements only.            *)

LEMMA NewItemBalanced == \A i \in Products : Balanced(i, NewItem(i))
  BY DEF Balanced, NewItem, StockAfter

\* A movement computed from the draft's own stock keeps the draft balanced.
LEMMA MovedBalanced ==
    ASSUME TypeOK, NEW r \in Requests, NEW i \in Products,
           NEW k \in Nat \ {0}, NEW n \in Int, Balanced(i, draft[i])
    PROVE  Balanced(i, Moved(i, r, k, n))
  <1> DEFINE old == draft[i].moves
             move == [ref |-> r, line |-> k, change |-> n, new |-> draft[i].stock + n]
             item == Moved(i, r, k, n)
  <1>1. /\ old \in Seq(Move) /\ draft[i].stock \in Int
    BY DEF TypeOK, Item
  <1>2. item.stock = draft[i].stock + n /\ item.moves = Append(old, move)
    BY MovedType
  <1>3. /\ Len(item.moves) = Len(old) + 1 /\ Len(old) \in Nat
        /\ \A m \in 1..Len(old) : item.moves[m] = old[m]
        /\ item.moves[Len(old) + 1] = move
    BY <1>1, <1>2
  <1> HIDE DEF item
  <1>4. StockAfter(i, old, Len(old)) = draft[i].stock
    BY DEF Balanced
  <1>5. \A m \in 0..Len(old) : StockAfter(i, item.moves, m) = StockAfter(i, old, m)
    BY <1>3 DEF StockAfter
  <1>6. ASSUME NEW m \in 1..Len(item.moves)
        PROVE  item.moves[m].new = StockAfter(i, item.moves, m - 1) + item.moves[m].change
    <2>1. CASE m \in 1..Len(old)
      <3>1. old[m].new = StockAfter(i, old, m - 1) + old[m].change
        BY <2>1 DEF Balanced
      <3>2. m - 1 \in 0..Len(old)
        BY <1>3, <2>1
      <3>3. QED
        BY <1>3, <1>5, <2>1, <3>1, <3>2
    <2>2. CASE m = Len(old) + 1
      <3>1. item.moves[m].new = draft[i].stock + n /\ item.moves[m].change = n
        BY <1>3, <2>2
      <3>2. StockAfter(i, item.moves, m - 1) = draft[i].stock
        BY <1>3, <1>4, <1>5, <2>2
      <3>3. QED
        BY <3>1, <3>2
    <2>3. m \in 1..Len(old) \/ m = Len(old) + 1
      BY <1>3
    <2>4. QED
      BY <2>1, <2>2, <2>3
  <1>7. item.stock = StockAfter(i, item.moves, Len(item.moves))
    BY <1>2, <1>3 DEF StockAfter
  <1>8. QED
    BY <1>6, <1>7 DEF Balanced, item

\* Balance depends on an item's stock and movements only.
LEMMA BalancedSame ==
    ASSUME NEW i \in Products, NEW old, NEW new, Balanced(i, old),
           new.stock = old.stock, new.moves = old.moves
    PROVE  Balanced(i, new)
  BY DEF Balanced

LEMMA BalanceStep ==
    ASSUME TypeOK, NoItemEdits, BalanceInv, [Next]_vars
    PROVE  BalanceInv'
  <1> SUFFICES ASSUME NEW i \in Products
               PROVE  Balanced(i, row'[i]) /\ Balanced(i, draft'[i])
    BY DEF BalanceInv, Balanced, StockAfter
  <1>1. Balanced(i, row[i]) /\ Balanced(i, draft[i])
    BY DEF BalanceInv
  <1>2. CASE KeepItems
    BY <1>1, <1>2 DEF KeepItems
  <1>3. ASSUME NEW r \in Requests, Publish(r)
        PROVE  Balanced(i, row'[i]) /\ Balanced(i, draft'[i])
    <2>1. row'[i] \in {row[i], draft[i]} /\ draft'[i] = draft[i]
      BY <1>3 DEF Publish
    <2>2. QED
      BY <1>1, <2>1
  <1>4. ASSUME NEW r \in Requests, Rollback(r)
        PROVE  Balanced(i, row'[i]) /\ Balanced(i, draft'[i])
    <2>1. draft'[i] \in {row[i], draft[i]} /\ row'[i] = row[i]
      BY <1>4 DEF Rollback
    <2>2. QED
      BY <1>1, <2>1
  <1>5. ASSUME NEW r \in Requests, NEW x \in Products, NEW k \in Nat \ {0}, NEW n \in Int,
               AppendMove(r, x, k, n)
        PROVE  Balanced(i, row'[i]) /\ Balanced(i, draft'[i])
    <2>1. /\ row'[i] = row[i]
          /\ draft'[i] = IF i = x THEN Moved(i, r, k, n) ELSE draft[i]
      BY <1>5 DEF AppendMove, TypeOK
    <2>2. Balanced(i, Moved(i, r, k, n))
      BY <1>1, MovedBalanced
    <2>3. QED
      BY <1>1, <2>1, <2>2
  <1>6. ASSUME NEW r \in Requests, NEW item \in Item, Overwrite(r, item)
        PROVE  Balanced(i, row'[i]) /\ Balanced(i, draft'[i])
    <2>1. Op(r) # "update_item"
      BY OpType DEF NoItemEdits, Op
    <2>2. CASE i = Target(r)
      <3>1. item.stock = row[i].stock /\ item.moves = row[i].moves
        BY <1>6, <2>1, <2>2 DEF Overwrite
      <3>2. Balanced(i, item)
        BY <1>1, <3>1, BalancedSame
      <3>3. row'[i] = item /\ draft'[i] = item
        BY <1>6, <2>2 DEF Overwrite, WriteItem, TypeOK
      <3>4. QED
        BY <3>2, <3>3
    <2>3. CASE i # Target(r)
      <3>1. row'[i] = row[i] /\ draft'[i] = draft[i]
        BY <1>6, <2>3 DEF Overwrite, WriteItem, TypeOK
      <3>2. QED
        BY <1>1, <3>1
    <2>4. QED
      BY <2>2, <2>3
  <1>7. QED
    BY <1>2, <1>3, <1>4, <1>5, <1>6, ItemSteps DEF ItemStep

\* Stock movements balance to the unit under every interleaving of checkouts,
\* adjustments, deletions, voids, deadlocks and crashes, as long as nobody
\* submits the edit form.
THEOREM LedgerBalanced == ASSUME NoItemEdits PROVE Spec => []LedgerBalances
  <1>1. Init => BalanceInv
    <2> SUFFICES ASSUME Init PROVE BalanceInv
      OBVIOUS
    <2>1. \A i \in Products : row[i] = NewItem(i) /\ draft[i] = NewItem(i)
      BY DEF Init
    <2>2. QED
      BY <2>1, NewItemBalanced DEF BalanceInv
  <1>2. TypeOK /\ BalanceInv /\ [Next]_vars => BalanceInv'
    BY BalanceStep
  <1>3. BalanceInv => LedgerBalances
    BY DEF BalanceInv, LedgerBalances
  <1>4. QED
    BY <1>1, <1>2, <1>3, TypeCorrect, PTL DEF Spec

-----------------------------------------------------------------------------
(* Committed movements are immutable.                                       *)

LEMMA DraftStep ==
    ASSUME TypeOK, DraftExtendsRow, [Next]_vars
    PROVE  DraftExtendsRow'
  <1> DEFINE Extends(old, new) ==
               /\ Len(old.moves) <= Len(new.moves)
               /\ \A m \in 1..Len(old.moves) : new.moves[m] = old.moves[m]
  <1> SUFFICES ASSUME NEW i \in Products
               PROVE  (lock'[i] = Free => draft'[i] = row'[i]) /\ Extends(row'[i], draft'[i])
    BY DEF DraftExtendsRow
  <1>1. (lock[i] = Free => draft[i] = row[i]) /\ Extends(row[i], draft[i])
    BY DEF DraftExtendsRow
  <1>2. \A x \in Item : Extends(x, x)
    BY DEF Item
  <1>3. row[i] \in Item /\ draft[i] \in Item /\ i \in Rows
    BY DEF TypeOK, Rows
  <1> HIDE DEF Extends
  <1>4. CASE KeepItems
    BY <1>1, <1>4 DEF KeepItems
  <1>5. ASSUME NEW r \in Requests, Publish(r)
        PROVE  (lock'[i] = Free => draft'[i] = row'[i]) /\ Extends(row'[i], draft'[i])
    <2>1. CASE lock[i] = r
      BY <1>2, <1>3, <1>5, <2>1 DEF Publish
    <2>2. CASE lock[i] # r
      BY <1>1, <1>3, <1>5, <2>2 DEF Publish, Release, TypeOK
    <2>3. QED
      BY <2>1, <2>2
  <1>6. ASSUME NEW r \in Requests, Rollback(r)
        PROVE  (lock'[i] = Free => draft'[i] = row'[i]) /\ Extends(row'[i], draft'[i])
    <2>1. CASE lock[i] = r
      BY <1>2, <1>3, <1>6, <2>1 DEF Rollback
    <2>2. CASE lock[i] # r
      BY <1>1, <1>3, <1>6, <2>2 DEF Rollback, Release, TypeOK
    <2>3. QED
      BY <2>1, <2>2
  <1>7. ASSUME NEW r \in Requests, NEW x \in Products, NEW k \in Nat \ {0}, NEW n \in Int,
               AppendMove(r, x, k, n)
        PROVE  (lock'[i] = Free => draft'[i] = row'[i]) /\ Extends(row'[i], draft'[i])
    <2>1. CASE i = x
      <3>1. lock'[i] # Free /\ row'[i] = row[i] /\ draft'[i] = Moved(i, r, k, n)
        BY <1>3, <1>7, <2>1 DEF AppendMove, TypeOK
      <3> DEFINE move == [ref |-> r, line |-> k, change |-> n, new |-> draft[i].stock + n]
      <3>2. Moved(i, r, k, n).moves = Append(draft[i].moves, move)
        BY MovedType
      <3> HIDE DEF move
      <3>3. row[i].moves \in Seq(Move) /\ draft[i].moves \in Seq(Move)
        BY <1>3 DEF Item
      <3>4. Extends(row[i], Moved(i, r, k, n))
        <4> DEFINE old == draft[i].moves
                   new == Append(old, move)
        <4>1. /\ Len(new) = Len(old) + 1 /\ Len(old) \in Nat
              /\ \A m \in 1..Len(old) : new[m] = old[m]
          BY <3>3
        <4>2. /\ Len(row[i].moves) \in Nat /\ Len(row[i].moves) <= Len(old)
              /\ \A m \in 1..Len(row[i].moves) : old[m] = row[i].moves[m]
          BY <1>1, <3>3 DEF Extends
        <4> HIDE DEF new, old
        <4>3. Moved(i, r, k, n).moves = new
          BY <3>2 DEF new, old
        <4>4. QED
          BY <4>1, <4>2, <4>3 DEF Extends
      <3>5. QED
        BY <3>1, <3>4
    <2>2. CASE i # x
      BY <1>1, <1>7, <2>2 DEF AppendMove, TypeOK
    <2>3. QED
      BY <2>1, <2>2
  <1>8. ASSUME NEW r \in Requests, NEW item \in Item, Overwrite(r, item)
        PROVE  (lock'[i] = Free => draft'[i] = row'[i]) /\ Extends(row'[i], draft'[i])
    <2>1. CASE i = Target(r)
      <3>1. row'[i] = item /\ draft'[i] = item
        BY <1>8, <2>1 DEF Overwrite, WriteItem, TypeOK
      <3>2. QED
        BY <1>2, <3>1
    <2>2. CASE i # Target(r)
      BY <1>1, <1>8, <2>2 DEF Overwrite, WriteItem, TypeOK
    <2>3. QED
      BY <2>1, <2>2
  <1>9. QED
    BY <1>4, <1>5, <1>6, <1>7, <1>8, ItemSteps DEF ItemStep

\* What one step may do to the committed movements of an item.
MovesKept ==
    \A i \in Products :
        /\ Len(row[i].moves) <= Len(row'[i].moves)
        /\ \A m \in 1..Len(row[i].moves) : row'[i].moves[m] = row[i].moves[m]

LEMMA MovesKeptStep ==
    ASSUME TypeOK, DraftExtendsRow, [Next]_vars
    PROVE  MovesKept
  <1> SUFFICES ASSUME NEW i \in Products
               PROVE  /\ Len(row[i].moves) <= Len(row'[i].moves)
                      /\ \A m \in 1..Len(row[i].moves) : row'[i].moves[m] = row[i].moves[m]
    BY DEF MovesKept
  <1>1. Len(row[i].moves) \in Nat
    BY DEF TypeOK, Item
  <1>2. row'[i] \in {row[i], draft[i]} \/ row'[i].moves = row[i].moves
    <2>1. ASSUME NEW r \in Requests, NEW item \in Item, Overwrite(r, item)
          PROVE  row'[i].moves = row[i].moves
      BY <2>1 DEF Overwrite, WriteItem, TypeOK
    <2>2. QED
      BY <2>1, ItemSteps DEF ItemStep, KeepItems, Publish, Rollback, AppendMove
  <1>3. QED
    BY <1>1, <1>2 DEF DraftExtendsRow

\* No step of any handler, whatever fails, changes or drops a committed movement.
THEOREM LedgerImmutable == Spec => LedgerOnlyGrows
  <1>1. Init => DraftExtendsRow
    BY DEF Init, DraftExtendsRow, NewItem
  <1>2. TypeOK /\ DraftExtendsRow /\ [Next]_vars => DraftExtendsRow'
    BY DraftStep
  <1>3. TypeOK /\ DraftExtendsRow /\ [Next]_vars => MovesKept
    BY MovesKeptStep
  <1>4. QED
    BY <1>1, <1>2, <1>3, TypeCorrect, PTL DEF Spec, LedgerOnlyGrows, MovesKept

-----------------------------------------------------------------------------
(***************************************************************************)
(* A sale exists exactly when all of its deductions do.  A running         *)
(* checkout's deductions are movements of drafts whose row locks it holds, *)
(* so a commit publishes all of them with the sale and a rollback drops    *)
(* all of them; IInv says so, and is proved inductive one conjunct at a    *)
(* time.                                                                   *)
(***************************************************************************)

-----------------------------------------------------------------------------
(* What every step leaves alone.                                            *)

LEMMA Frame ==
    ASSUME TypeOK, [Next]_vars
    PROVE  /\ key' = key /\ body' = body
           /\ \A r \in Requests :
                /\ next'[r] >= next[r]
                /\ sale[r] # "none" => sale'[r] # "none"
                /\ sale[r] = "none" /\ sale'[r] # "none" => CommitCheckout(r)
  <1> DEFINE Goal == /\ key' = key /\ body' = body
                     /\ \A r \in Requests :
                          /\ next'[r] >= next[r]
                          /\ sale[r] # "none" => sale'[r] # "none"
                          /\ sale[r] = "none" /\ sale'[r] # "none" => CommitCheckout(r)
  <1> USE DEF TypeOK, dbVars, input
  <1>1. ASSUME NEW r \in Requests, CommitCheckout(r) PROVE Goal
    <2>1. /\ key' = key /\ body' = body /\ next' = next
          /\ sale' = [sale EXCEPT ![r] = "COMPLETED"]
      BY <1>1 DEF CommitCheckout
    <2>2. QED
      BY <1>1, <2>1
  <1>2. ASSUME NEW r \in Requests, CommitVoid(r) PROVE Goal
    <2>1. /\ key' = key /\ body' = body /\ next' = next
          /\ \E t \in Transactions : sale' = [sale EXCEPT ![t] = "VOIDED"]
      BY <1>2 DEF CommitVoid
    <2>2. QED
      BY <2>1 DEF Transactions
  <1>3. ASSUME NEW r \in Requests, DeductLine(r) \/ LockService(r) \/ SkipLine(r) PROVE Goal
    <2>1. /\ key' = key /\ body' = body /\ sale' = sale
          /\ next' = [next EXCEPT ![r] = @ + 1]
      BY <1>3 DEF DeductLine, LockService, SkipLine
    <2>2. QED
      BY <2>1
  <1>4. ASSUME key' = key, body' = body, next' = next, sale' = sale PROVE Goal
    BY <1>4
  <1>5. ASSUME NEW r \in Requests,
               \/ Send(r) \/ Replay(r) \/ StartHandler(r) \/ SaveReply(r)
               \/ AddPayment(r) \/ SettleJob(r) \/ DeadlockVictim(r) \/ CommitRefused(r)
               \/ InventoryStep(r) \/ FindTransaction(r) \/ LogAudit(r) \/ Fault(r)
        PROVE  Goal
    <2>1. key' = key /\ body' = body /\ next' = next /\ sale' = sale
      BY <1>5 DEF Send, Replay, StartHandler, SaveReply, AddPayment, SettleJob,
                  DeadlockVictim, CommitRefused, InventoryStep, AdjustStock,
                  CommitAdjustment, LoadItem, CommitItemUpdate, CommitItemDelete,
                  FindTransaction, LogAudit, Fault
    <2>2. QED
      BY <1>4, <2>1
  <1>6. ASSUME vars' = vars PROVE Goal
    BY <1>4, <1>6 DEF vars
  <1>7. ASSUME NEW r \in Requests, Send(r) \/ ServerStep(r) \/ Fault(r) PROVE Goal
    <2> HIDE DEF Goal
    <2>1. QED
      BY <1>1, <1>2, <1>3, <1>5, <1>7 DEF ServerStep, CheckoutStep, VoidStep
  <1>8. Goal
    <2> HIDE DEF Goal, TypeOK
    <2>1. (\E r \in Requests : Send(r) \/ ServerStep(r) \/ Fault(r)) \/ vars' = vars
      BY DEF Next, Quiet
    <2>2. CASE \E r \in Requests : Send(r) \/ ServerStep(r) \/ Fault(r)
      BY <1>7, <2>2
    <2>3. CASE vars' = vars
      BY <1>6, <2>3
    <2>4. QED
      BY <2>1, <2>2, <2>3
  <1>9. QED
    BY <1>8 DEF Goal

\* Requests keep their operation, lines and job order.
LEMMA RequestFixed ==
    ASSUME TypeOK, [Next]_vars
    PROVE  \A r \in Requests :
             /\ Op(r)' = Op(r) /\ Lines(r)' = Lines(r) /\ JobOf(r)' = JobOf(r)
             /\ body'[key'[r]] = body[key[r]]
  BY Frame DEF Op, Lines, JobOf

-----------------------------------------------------------------------------
(* Row locks belong to running checkouts and adjustments.                   *)

LEMMA ReleaseKeeps ==
    ASSUME TypeOK, NEW r \in Requests, Release(r), NEW x \in Rows
    PROVE  /\ lock'[x] # r
           /\ lock'[x] \in {lock[x], Free}
           /\ lock[x] # r => lock'[x] = lock[x]
  BY DEF TypeOK, Release

\* A handler in a deadlock is a checkout at one of its two locking steps.
LEMMA VictimRuns ==
    ASSUME TypeOK, LocksHeldByHandlers, HandlerProgress,
           NEW r \in Requests, DeadlockVictim(r)
    PROVE  pc[r] \in {"lines", "settle"} /\ Op(r) = "checkout"
  <1>1. PICK S \in SUBSET Requests : r \in S /\ WaitCycle(S)
    BY DEF DeadlockVictim
  <1>2. PICK q \in S : lock[Wanted(q)] = r
    BY <1>1 DEF WaitCycle
  <1>3. Wanted(q) \in Rows
    BY <1>1, <1>2 DEF WaitCycle, Waiting
  <1>4. pc[r] # "load"
    BY <1>2, <1>3 DEF LocksHeldByHandlers, Holding
  <1>5. Wanted(r) # NoJob
    BY <1>1 DEF WaitCycle, Waiting
  <1>6. pc[r] \in {"lines", "settle"}
    BY <1>4, <1>5 DEF Wanted
  <1>7. QED
    BY <1>6 DEF HandlerProgress

LEMMA LocksStep ==
    ASSUME TypeOK, LocksHeldByHandlers, HandlerProgress, [Next]_vars
    PROVE  LocksHeldByHandlers'
  <1> DEFINE Held(x, r) == r # Free => /\ pc[r] \in Holding
                                       /\ r \notin aborted
                                       /\ Op(r) \in {"checkout", "adjust_stock"}
  <1> SUFFICES ASSUME NEW x \in Rows PROVE Held(x, lock[x])'
    BY DEF LocksHeldByHandlers
  <1>1. Held(x, lock[x]) /\ lock[x] \in Requests \cup {Free}
    BY DEF LocksHeldByHandlers, TypeOK
  <1>2. \A r \in Requests : Op(r)' = Op(r)
    BY RequestFixed
  <1> USE DEF Goto, dbVars, input
  <1>3. ASSUME lock'[x] \in {lock[x], Free},
               \A r \in Requests : r = lock'[x] => pc'[r] \in Holding /\ r \notin aborted'
        PROVE  Held(x, lock[x])'
    BY <1>1, <1>2, <1>3
  <1>4. ASSUME NEW r \in Requests, lock'[x] \in {lock[x], r}, pc'[r] \in Holding,
               aborted' = aborted, r \notin aborted, Op(r) \in {"checkout", "adjust_stock"},
               \A q \in Requests : q # r => pc'[q] = pc[q]
        PROVE  Held(x, lock[x])'
    BY <1>1, <1>2, <1>4
  <1> HIDE DEF Held
  <1>5. ASSUME NEW r \in Requests, DeductLine(r) \/ LockService(r) \/ SettleJob(r) \/ AdjustStock(r)
        PROVE  Held(x, lock[x])'
    <2>1. lock'[x] \in {lock[x], r}
      BY <1>5 DEF DeductLine, LockService, SettleJob, AdjustStock, TypeOK
    <2>2. aborted' = aborted /\ pc'[r] \in Holding /\ \A q \in Requests : q # r => pc'[q] = pc[q]
      BY <1>5 DEF DeductLine, LockService, SettleJob, AdjustStock, TypeOK, Holding
    <2>3. r \notin aborted /\ Op(r) \in {"checkout", "adjust_stock"}
      BY <1>5 DEF DeductLine, LockService, SettleJob, AdjustStock, HandlerProgress
    <2>4. QED
      BY <1>4, <2>1, <2>2, <2>3
  <1>6. ASSUME NEW r \in Requests,
               CommitCheckout(r) \/ CommitAdjustment(r) \/ DeadlockVictim(r) \/ Fault(r)
        PROVE  Held(x, lock[x])'
    <2>1. Release(r)
      BY <1>6 DEF CommitCheckout, CommitAdjustment, DeadlockVictim, Fault, Publish, Rollback
    <2>2. lock'[x] # r /\ lock'[x] \in {lock[x], Free}
      BY <2>1, ReleaseKeeps
    <2>3. /\ \A q \in Requests : q # r => pc'[q] = pc[q]
          /\ aborted' \subseteq aborted \cup {r}
      BY <1>6 DEF CommitCheckout, CommitAdjustment, DeadlockVictim, Fault, TypeOK
    <2>4. QED
      BY <1>1, <1>3, <2>2, <2>3 DEF Held
  <1>7. ASSUME NEW r \in Requests,
               \/ Send(r) \/ Replay(r) \/ StartHandler(r) \/ SaveReply(r)
               \/ SkipLine(r) \/ AddPayment(r) \/ CommitRefused(r) \/ LoadItem(r)
               \/ CommitItemUpdate(r) \/ CommitItemDelete(r)
               \/ FindTransaction(r) \/ CommitVoid(r) \/ LogAudit(r)
        PROVE  Held(x, lock[x])'
    <2>1. /\ lock' = lock /\ aborted' = aborted
          /\ \A q \in Requests : q # r => pc'[q] = pc[q]
      BY <1>7 DEF Send, Replay, StartHandler, SaveReply, SkipLine, AddPayment,
                  CommitRefused, LoadItem, CommitItemUpdate, CommitItemDelete,
                  FindTransaction, CommitVoid, LogAudit, WriteItem, TypeOK
    <2>2. lock[x] = r => pc'[r] \in Holding
      <3>1. CASE Send(r) \/ Replay(r) \/ StartHandler(r) \/ SaveReply(r) \/ LoadItem(r) \/ FindTransaction(r)
        BY <1>1, <3>1 DEF Send, Replay, StartHandler, SaveReply, LoadItem, FindTransaction, Held, Holding
      <3>2. CASE SkipLine(r) \/ AddPayment(r) \/ LogAudit(r)
        BY <1>1, <3>2 DEF SkipLine, AddPayment, LogAudit, Held, Holding, TypeOK
      <3>3. CASE CommitRefused(r) \/ CommitItemUpdate(r) \/ CommitItemDelete(r) \/ CommitVoid(r)
        BY <1>1, <3>3 DEF CommitRefused, CommitItemUpdate, CommitItemDelete, CommitVoid, Held
      <3>4. QED
        BY <1>7, <3>1, <3>2, <3>3
    <2>3. QED
      BY <1>1, <1>3, <2>1, <2>2 DEF Held
  <1>8. ASSUME vars' = vars PROVE Held(x, lock[x])'
    BY <1>1, <1>3, <1>8 DEF vars, Held
  <1>9. QED
    BY <1>5, <1>6, <1>7, <1>8
       DEF Next, ServerStep, CheckoutStep, InventoryStep, VoidStep, Quiet

-----------------------------------------------------------------------------
(* How far a handler has come.                                              *)

\* The conjuncts of HandlerProgress for one request.
Progress(r) ==
    /\ pc[r] \in {"idle", "lookup"} => next[r] = 1
    /\ pc[r] \in {"lines", "settle"} => Op(r) = "checkout"
    /\ pc[r] = "settle" => JobOf(r) # NoJob
    /\ pc[r] = "load" => Op(r) # "checkout"
    /\ r \in aborted => Op(r) = "checkout" /\ pc[r] \in {"audit", "commit", "failed"}
    /\ sale[r] # "none" => Op(r) = "checkout" /\ pc[r] \in {"save", "done", "failed"}
    /\ /\ Op(r) = "checkout" /\ r \notin aborted
       /\ pc[r] \in {"settle", "audit", "commit"}
       => next[r] > Len(Lines(r))

\* A step of r leaves the progress of every other request alone.
Bystander(r, q) ==
    /\ pc'[q] = pc[q] /\ next'[q] = next[q]
    /\ q \in aborted' <=> q \in aborted
    /\ sale'[q] = "none" <=> sale[q] = "none"

LEMMA Bystanders ==
    ASSUME TypeOK, NEW r \in Requests, Send(r) \/ ServerStep(r) \/ Fault(r),
           NEW q \in Requests \ {r}
    PROVE  Bystander(r, q)
  <1> USE DEF Goto, dbVars, Bystander
  <1>1. CASE DeductLine(r) \/ LockService(r) \/ SkipLine(r)
    BY <1>1 DEF DeductLine, LockService, SkipLine, TypeOK
  <1>2. CASE CommitVoid(r)
    <2>1. /\ pc'[q] = pc[q] /\ next' = next /\ aborted' = aborted
          /\ \E t \in Transactions : sale' = [sale EXCEPT ![t] = "VOIDED"]
      BY <1>2 DEF CommitVoid, TypeOK
    <2>2. QED
      BY <2>1 DEF Transactions, TypeOK
  <1>3. CASE CommitCheckout(r)
    BY <1>3 DEF CommitCheckout, TypeOK
  <1>4. CASE DeadlockVictim(r) \/ Fault(r)
    BY <1>4 DEF DeadlockVictim, Fault, TypeOK
  <1>5. CASE \/ Send(r) \/ Replay(r) \/ StartHandler(r) \/ SaveReply(r)
             \/ AddPayment(r) \/ SettleJob(r) \/ CommitRefused(r) \/ InventoryStep(r)
             \/ FindTransaction(r) \/ LogAudit(r)
    <2>1. pc'[q] = pc[q] /\ next' = next /\ aborted' = aborted /\ sale' = sale
      BY <1>5 DEF Send, Replay, StartHandler, SaveReply, AddPayment, SettleJob,
                  CommitRefused, InventoryStep, AdjustStock, CommitAdjustment, LoadItem,
                  CommitItemUpdate, CommitItemDelete, FindTransaction, LogAudit, TypeOK
    <2>2. QED
      BY <2>1
  <1>6. QED
    BY <1>1, <1>2, <1>3, <1>4, <1>5 DEF ServerStep, CheckoutStep, VoidStep

LEMMA OwnProgress ==
    ASSUME TypeOK, LocksHeldByHandlers, HandlerProgress, [Next]_vars,
           NEW r \in Requests, Send(r) \/ ServerStep(r) \/ Fault(r)
    PROVE  Progress(r)'
  <1>1. Progress(r)
    BY DEF HandlerProgress, Progress
  <1>2. Op(r)' = Op(r) /\ Lines(r)' = Lines(r) /\ JobOf(r)' = JobOf(r)
    BY RequestFixed
  <1>3. Op(r) \in Ops /\ Len(Lines(r)) \in Nat /\ next[r] \in Nat
    BY OpType DEF TypeOK
  <1> USE DEF Goto, dbVars, Progress
  <1>4. CASE Send(r) \/ Replay(r) \/ StartHandler(r) \/ SaveReply(r)
    BY <1>1, <1>2, <1>4 DEF Send, Replay, StartHandler, SaveReply, TypeOK
  <1>5. CASE DeductLine(r) \/ LockService(r) \/ SkipLine(r)
    BY <1>1, <1>2, <1>5 DEF DeductLine, LockService, SkipLine, TypeOK
  <1>6. CASE AddPayment(r) \/ SettleJob(r)
    BY <1>1, <1>2, <1>3, <1>6 DEF AddPayment, SettleJob, TypeOK
  <1>7. CASE CommitCheckout(r)
    BY <1>1, <1>2, <1>7 DEF CommitCheckout, TypeOK
  <1>8. CASE DeadlockVictim(r)
    <2>1. pc[r] \in {"lines", "settle"} /\ Op(r) = "checkout"
      BY <1>8, VictimRuns
    <2>2. pc'[r] = "audit" /\ r \in aborted' /\ sale' = sale
      BY <1>8 DEF DeadlockVictim, TypeOK
    <2>3. QED
      BY <1>1, <1>2, <2>1, <2>2
  <1>9. CASE CommitRefused(r) \/ LogAudit(r) \/ Fault(r)
    BY <1>1, <1>2, <1>9 DEF CommitRefused, LogAudit, Fault, TypeOK
  <1>10. CASE AdjustStock(r) \/ LoadItem(r) \/ FindTransaction(r)
    BY <1>1, <1>2, <1>10 DEF AdjustStock, LoadItem, FindTransaction, TypeOK
  <1>11. CASE CommitAdjustment(r) \/ CommitItemUpdate(r) \/ CommitItemDelete(r)
    BY <1>1, <1>2, <1>11 DEF CommitAdjustment, CommitItemUpdate, CommitItemDelete, TypeOK
  <1>12. CASE CommitVoid(r)
    <2>1. /\ pc[r] = "commit" /\ Op(r) = "void_transaction" /\ pc'[r] = "save"
          /\ aborted' = aborted
          /\ \E t \in Transactions : sale' = [sale EXCEPT ![t] = "VOIDED"]
      BY <1>12 DEF CommitVoid, TypeOK
    <2>2. sale[r] = "none" /\ sale'[r] = "none" /\ r \notin aborted
      BY <1>1, <2>1 DEF Transactions, TypeOK
    <2>3. QED
      BY <1>1, <1>2, <2>1, <2>2
  <1>13. QED
    BY <1>4, <1>5, <1>6, <1>7, <1>8, <1>9, <1>10, <1>11, <1>12
       DEF ServerStep, CheckoutStep, InventoryStep, VoidStep

LEMMA ProgressStep ==
    ASSUME TypeOK, LocksHeldByHandlers, HandlerProgress, [Next]_vars
    PROVE  HandlerProgress'
  <1>1. \A q \in Requests : Progress(q)
    BY DEF HandlerProgress, Progress
  <1>2. ASSUME NEW r \in Requests, Send(r) \/ ServerStep(r) \/ Fault(r), NEW q \in Requests
        PROVE  Progress(q)'
    <2>1. CASE q = r
      BY <1>2, <2>1, OwnProgress
    <2>2. CASE q # r
      <3>1. Bystander(r, q)
        BY <1>2, <2>2, Bystanders
      <3>2. Op(q)' = Op(q) /\ Lines(q)' = Lines(q) /\ JobOf(q)' = JobOf(q)
        BY RequestFixed
      <3>3. QED
        BY <1>1, <3>1, <3>2 DEF Progress, Bystander
    <2>3. QED
      BY <2>1, <2>2
  <1>3. ASSUME vars' = vars, NEW q \in Requests PROVE Progress(q)'
    <2>1. Op(q)' = Op(q) /\ Lines(q)' = Lines(q) /\ JobOf(q)' = JobOf(q)
      BY RequestFixed
    <2>2. QED
      BY <1>1, <1>3, <2>1 DEF vars, Progress
  <1>4. \A q \in Requests : Progress(q)'
    BY <1>2, <1>3 DEF Next, Quiet
  <1>5. QED
    BY <1>4 DEF HandlerProgress, Progress

-----------------------------------------------------------------------------
(* Recorded deductions.                                                     *)

LEMMA LinesOfType ==
    ASSUME TypeOK, NEW r \in Requests, NEW i \in Products, NEW n \in LinesOf(body[key[r]], i)
    PROVE  /\ n \in 1..Len(Lines(r)) /\ Lines(r)[n].id = i
           /\ n \in Nat \ {0} /\ n <= Len(Lines(r)) /\ Len(Lines(r)) \in Nat
  BY OpType DEF LinesOf, Lines

\* A movement of another line, or of another request, keeps a line recorded.
LEMMA RecordedAppend ==
    ASSUME TypeOK, NEW r \in Requests, NEW n \in Nat, NEW moves \in Seq(Move),
           NEW move \in Move, move.ref # r \/ move.line # n, Recorded(r, n, moves)
    PROVE  Recorded(r, n, Append(moves, move))
  <1> DEFINE new == Append(moves, move)
  <1>1. /\ Len(moves) \in Nat /\ Len(new) = Len(moves) + 1
        /\ \A m \in 1..Len(moves) : new[m] = moves[m]
        /\ new[Len(moves) + 1] = move
    OBVIOUS
  <1> HIDE DEF new
  <1>2. PICK m \in 1..Len(moves) :
          /\ moves[m].ref = r /\ moves[m].line = n /\ moves[m].change = -Lines(r)[n].qty
          /\ \A o \in 1..Len(moves) : moves[o].ref = r /\ moves[o].line = n => o = m
    BY DEF Recorded
  <1>3. m \in 1..Len(new) /\ new[m] = moves[m]
    BY <1>1
  <1>4. ASSUME NEW o \in 1..Len(new), new[o].ref = r, new[o].line = n PROVE o = m
    <2>1. o # Len(moves) + 1
      BY <1>1, <1>4
    <2>2. o \in 1..Len(moves)
      BY <1>1, <2>1
    <2>3. QED
      BY <1>1, <1>2, <1>4, <2>2
  <1>5. Recorded(r, n, new)
    BY <1>2, <1>3, <1>4 DEF Recorded
  <1>6. QED
    BY <1>5 DEF new

\* A line's own movement, the first for it, records the line.
LEMMA RecordedOwn ==
    ASSUME TypeOK, NEW r \in Requests, NEW n \in Nat, NEW moves \in Seq(Move),
           NEW move \in Move, move.ref = r, move.line = n, move.change = -Lines(r)[n].qty,
           \A o \in 1..Len(moves) : ~(moves[o].ref = r /\ moves[o].line = n)
    PROVE  Recorded(r, n, Append(moves, move))
  <1> DEFINE new == Append(moves, move)
  <1>1. /\ Len(moves) \in Nat /\ Len(new) = Len(moves) + 1
        /\ \A m \in 1..Len(moves) : new[m] = moves[m]
        /\ new[Len(moves) + 1] = move
    OBVIOUS
  <1> HIDE DEF new
  <1>2. ASSUME NEW o \in 1..Len(new), new[o].ref = r, new[o].line = n
        PROVE  o = Len(moves) + 1
    BY <1>1, <1>2
  <1>3. Len(moves) + 1 \in 1..Len(new)
    BY <1>1
  <1>4. Recorded(r, n, new)
    BY <1>1, <1>2, <1>3 DEF Recorded
  <1>5. QED
    BY <1>4 DEF new

\* A line a checkout has behind it after a step was behind it before, unless the
\* step deducted it.
LEMMA LinesBefore ==
    ASSUME TypeOK, HandlerProgress, [Next]_vars,
           NEW q \in Requests, NEW i \in Products, NEW n \in LinesOf(body[key[q]], i),
           Op(q) = "checkout", pc'[q] \in Holding, q \notin aborted', n < next'[q]
    PROVE  \/ DeductLine(q) /\ n = next[q]
           \/ pc[q] \in Holding /\ q \notin aborted /\ n < next[q]
  <1> DEFINE Goal == \/ DeductLine(q) /\ n = next[q]
                     \/ pc[q] \in Holding /\ q \notin aborted /\ n < next[q]
  <1>1. n \in Nat \ {0} /\ Lines(q)[n].id = i /\ next[q] \in Nat
    BY LinesOfType DEF TypeOK
  <1>2. ASSUME NEW r \in Requests \ {q}, Send(r) \/ ServerStep(r) \/ Fault(r) PROVE Goal
    BY <1>2, Bystanders DEF Bystander
  <1>3. ASSUME Send(q) \/ ServerStep(q) \/ Fault(q) PROVE Goal
    <2> USE DEF Goto, dbVars, Holding
    <2>1. CASE StartHandler(q)
      BY <1>1, <2>1 DEF StartHandler, HandlerProgress, TypeOK
    <2>2. CASE DeductLine(q)
      BY <1>1, <2>2 DEF DeductLine, HandlerProgress, TypeOK
    <2>3. CASE LockService(q) \/ SkipLine(q)
      <3>1. Lines(q)[next[q]].id \notin Products
        BY <2>3 DEF LockService, SkipLine, Rows
      <3>2. n # next[q]
        BY <1>1, <3>1
      <3>3. next'[q] = next[q] + 1 /\ pc[q] = "lines" /\ aborted' = aborted
        BY <2>3 DEF LockService, SkipLine, TypeOK
      <3>4. QED
        BY <1>1, <3>2, <3>3
    <2>4. CASE AddPayment(q) \/ SettleJob(q) \/ LogAudit(q)
      BY <2>4 DEF AddPayment, SettleJob, LogAudit
    <2>5. CASE AdjustStock(q) \/ LoadItem(q) \/ FindTransaction(q)
      BY <2>5 DEF AdjustStock, LoadItem, FindTransaction
    <2>6. CASE DeadlockVictim(q)
      BY <2>6 DEF DeadlockVictim
    <2>7. CASE \/ Send(q) \/ Replay(q) \/ SaveReply(q) \/ CommitCheckout(q) \/ CommitRefused(q)
               \/ CommitAdjustment(q) \/ CommitItemUpdate(q) \/ CommitItemDelete(q)
               \/ CommitVoid(q) \/ Fault(q)
      <3>1. pc'[q] \in {"lookup", "replayed", "save", "done", "failed"}
        BY <2>7 DEF Send, Replay, SaveReply, CommitCheckout, CommitRefused, CommitAdjustment,
                    CommitItemUpdate, CommitItemDelete, CommitVoid, Fault, TypeOK
      <3>2. QED
        BY <3>1
    <2>8. QED
      BY <1>3, <2>1, <2>2, <2>3, <2>4, <2>5, <2>6, <2>7
         DEF ServerStep, CheckoutStep, InventoryStep, VoidStep
  <1>4. ASSUME vars' = vars PROVE Goal
    BY <1>4 DEF vars
  <1>5. QED
    BY <1>2, <1>3, <1>4 DEF Next, Quiet

\* The movement AppendMove appends, and what it leaves alone.
LEMMA AppendMoveEffect ==
    ASSUME TypeOK, NEW r \in Requests, NEW x \in Products, NEW k \in Nat \ {0},
           NEW n \in Int, AppendMove(r, x, k, n)
    PROVE  /\ lock[x] \in {Free, r} /\ lock'[x] = r /\ row' = row
           /\ \A i \in Products \ {x} : lock'[i] = lock[i] /\ draft'[i] = draft[i]
           /\ \E move \in Move :
                /\ move.ref = r /\ move.line = k /\ move.change = n
                /\ draft'[x].moves = Append(draft[x].moves, move)
  <1> DEFINE move == [ref |-> r, line |-> k, change |-> n, new |-> draft[x].stock + n]
  <1>1. draft[x].stock \in Int /\ x \in Rows
    BY DEF TypeOK, Item, Rows
  <1>2. move \in Move
    BY <1>1 DEF Move
  <1>3. draft'[x] = Moved(x, r, k, n)
    BY DEF AppendMove, TypeOK
  <1>4. draft'[x].moves = Append(draft[x].moves, move)
    BY <1>3, MovedType
  <1>5. move.ref = r /\ move.line = k /\ move.change = n
    OBVIOUS
  <1> HIDE DEF move
  <1>6. lock[x] \in {Free, r} /\ lock'[x] = r /\ row' = row
    BY <1>1 DEF AppendMove, CanLock, TypeOK
  <1>7. \A i \in Products \ {x} : lock'[i] = lock[i] /\ draft'[i] = draft[i]
    BY DEF AppendMove, TypeOK, Rows
  <1>8. QED
    BY <1>2, <1>4, <1>5, <1>6, <1>7

\* What Overwrite leaves alone: all movements, and every locked item.
LEMMA OverwriteEffect ==
    ASSUME TypeOK, DraftExtendsRow, NEW r \in Requests, NEW item \in Item, Overwrite(r, item),
           NEW i \in Products
    PROVE  /\ lock'[i] = lock[i]
           /\ row'[i].moves = row[i].moves
           /\ draft'[i].moves = draft[i].moves
  <1>1. CASE i = Target(r)
    <2>1. lock[i] = Free /\ row'[i] = item /\ draft'[i] = item /\ lock' = lock
      BY <1>1 DEF Overwrite, WriteItem, TypeOK
    <2>2. draft[i] = row[i] /\ item.moves = row[i].moves
      BY <1>1, <2>1 DEF Overwrite, DraftExtendsRow
    <2>3. QED
      BY <2>1, <2>2
  <1>2. CASE i # Target(r)
    BY <1>2 DEF Overwrite, WriteItem, TypeOK
  <1>3. QED
    BY <1>1, <1>2

-----------------------------------------------------------------------------
(* The conjuncts about items and sales.                                     *)

LEMMA DeductionsStep ==
    ASSUME IInv, [Next]_vars
    PROVE  DeductionsSoFar'
  <1> USE DEF IInv
  <1> SUFFICES ASSUME NEW q \in Requests, Op(q) = "checkout", pc'[q] \in Holding, q \notin aborted',
                      NEW i \in Products, NEW n \in LinesOf(body[key[q]], i), n < next'[q]
               PROVE  lock'[i] = q /\ Recorded(q, n, draft'[i].moves)
    BY RequestFixed DEF DeductionsSoFar, Recorded
  <1> DEFINE Goal == lock'[i] = q /\ Recorded(q, n, draft'[i].moves)
  <1>1. /\ n \in 1..Len(Lines(q)) /\ n \in Nat \ {0} /\ Lines(q)[n].id = i
    BY LinesOfType
  <1>2. draft[i].moves \in Seq(Move) /\ q # Free
    BY DEF TypeOK, Item
  <1>3. CASE DeductLine(q) /\ n = next[q]
    <2>1. /\ -Lines(q)[n].qty \in Int
          /\ AppendMove(q, i, n, -Lines(q)[n].qty)
      BY <1>1, <1>3, DeductLineType DEF DeductLine, AppendMove, dbVars
    <2>2. PICK move \in Move :
            /\ move.ref = q /\ move.line = n /\ move.change = -Lines(q)[n].qty
            /\ draft'[i].moves = Append(draft[i].moves, move)
      BY <1>1, <2>1, AppendMoveEffect
    <2>3. lock'[i] = q
      BY <1>1, <2>1, AppendMoveEffect
    <2>4. \A o \in 1..Len(draft[i].moves) :
            ~(draft[i].moves[o].ref = q /\ draft[i].moves[o].line = n)
      <3>1. ASSUME NEW o \in 1..Len(draft[i].moves), draft[i].moves[o].ref = q
            PROVE  draft[i].moves[o].line < next[q]
        BY <3>1 DEF MovesAccountedFor
      <3>2. QED
        BY <1>1, <1>3, <3>1
    <2>5. TypeOK /\ n \in Nat
      BY <1>1
    <2> HIDE DEF IInv
    <2>6. Recorded(q, n, Append(draft[i].moves, move))
      BY <1>2, <2>2, <2>4, <2>5, RecordedOwn
    <2>7. QED
      BY <2>2, <2>3, <2>6
  <1>4. CASE pc[q] \in Holding /\ q \notin aborted /\ n < next[q]
    <2>1. lock[i] = q /\ Recorded(q, n, draft[i].moves)
      BY <1>4 DEF DeductionsSoFar
    <2> HIDE DEF IInv
    <2>2. TypeOK /\ DraftExtendsRow /\ HandlerProgress
      BY DEF IInv
    <2>3. CASE KeepItems
      BY <2>1, <2>3 DEF KeepItems
    <2>4. ASSUME NEW r \in Requests, Publish(r), CommitCheckout(r) \/ CommitAdjustment(r)
          PROVE  Goal
      <3>1. pc'[r] = "save"
        BY <2>2, <2>4 DEF CommitCheckout, CommitAdjustment, Goto, TypeOK
      <3>2. r # q
        BY <3>1 DEF Holding
      <3>3. QED
        BY <2>1, <2>2, <2>4, <3>2, ReleaseKeeps DEF Publish, Rows
    <2>5. ASSUME NEW r \in Requests, Rollback(r), DeadlockVictim(r) \/ Fault(r)
          PROVE  Goal
      <3>1. pc'[r] = "failed" \/ r \in aborted'
        BY <2>2, <2>5 DEF DeadlockVictim, Fault, Goto, TypeOK
      <3>2. r # q
        BY <3>1 DEF Holding
      <3>3. QED
        BY <2>1, <2>2, <2>5, <3>2, ReleaseKeeps DEF Rollback, Rows
    <2>6. ASSUME NEW r \in Requests, NEW x \in Products, NEW k \in Nat \ {0}, NEW m \in Int,
                 AppendMove(r, x, k, m), (DeductLine(r) /\ k = next[r]) \/ AdjustStock(r)
          PROVE  Goal
      <3>1. CASE x = i
        <4>1. r = q
          BY <1>2, <2>1, <2>2, <2>6, <3>1, AppendMoveEffect
        <4>2. ~AdjustStock(q)
          BY DEF AdjustStock
        <4>3. k # n
          BY <1>1, <1>4, <2>2, <2>6, <4>1, <4>2 DEF TypeOK
        <4>4. PICK move \in Move :
                /\ move.ref = q /\ move.line = k
                /\ draft'[i].moves = Append(draft[i].moves, move)
          BY <2>2, <2>6, <3>1, <4>1, AppendMoveEffect
        <4>5. Recorded(q, n, draft'[i].moves)
          BY <1>1, <1>2, <2>1, <2>2, <4>3, <4>4, RecordedAppend
        <4>6. QED
          BY <2>2, <2>6, <3>1, <4>1, <4>5, AppendMoveEffect
      <3>2. CASE x # i
        BY <2>1, <2>2, <2>6, <3>2, AppendMoveEffect
      <3>3. QED
        BY <3>1, <3>2
    <2>7. ASSUME NEW r \in Requests, NEW item \in Item, Overwrite(r, item)
          PROVE  Goal
      BY <2>1, <2>2, <2>7, OverwriteEffect
    <2>8. QED
      BY <2>2, <2>3, <2>4, <2>5, <2>6, <2>7, ItemSteps DEF ItemStep
  <1>5. QED
    BY <1>3, <1>4, LinesBefore

\* Committed and uncommitted movements are movements, before and after a step.
LEMMA DraftMoves ==
    ASSUME TypeOK, TypeOK', NEW i \in Products
    PROVE  /\ row[i].moves \in Seq(Move) /\ Len(row[i].moves) \in Nat
           /\ draft[i].moves \in Seq(Move) /\ Len(draft[i].moves) \in Nat
           /\ \A m \in 1..Len(draft[i].moves) :
                draft[i].moves[m] \in Move /\ draft[i].moves[m].ref \in Requests
           /\ draft'[i].moves \in Seq(Move)
           /\ \A m \in 1..Len(draft'[i].moves) :
                m \in Nat /\ draft'[i].moves[m] \in Move /\ draft'[i].moves[m].ref \in Requests
  <1>1. row[i] \in Item /\ draft[i] \in Item /\ draft'[i] \in Item
    BY DEF TypeOK
  <1>2. \A mv \in Move : mv.ref \in Requests
    BY DEF Move
  <1>3. row[i].moves \in Seq(Move) /\ draft[i].moves \in Seq(Move) /\ draft'[i].moves \in Seq(Move)
    BY <1>1 DEF Item
  <1>4. ASSUME NEW moves \in Seq(Move)
        PROVE  /\ Len(moves) \in Nat
               /\ \A m \in 1..Len(moves) : m \in Nat /\ moves[m] \in Move /\ moves[m].ref \in Requests
    BY <1>2
  <1>5. QED
    BY <1>3, <1>4

LEMMA MovesStep ==
    ASSUME IInv, [Next]_vars
    PROVE  MovesAccountedFor'
  <1> DEFINE Move1(i, m) == draft'[i].moves[m]
             Acc(i, m) ==
               LET ref == Move1(i, m).ref IN
               Op(ref) = "checkout" =>
                 /\ Move1(i, m).line < next'[ref]
                 /\ sale'[ref] = "none" => lock'[i] = ref /\ m > Len(row'[i].moves)
  <1>0. /\ TypeOK /\ DraftExtendsRow /\ HandlerProgress /\ MovesAccountedFor /\ TypeOK'
    BY TypeStep DEF IInv
  <1> SUFFICES ASSUME NEW i \in Products, NEW m \in 1..Len(draft'[i].moves) PROVE Acc(i, m)
    <2>1. ASSUME NEW i \in Products, NEW m \in 1..Len(draft'[i].moves)
          PROVE  draft'[i].moves[m].ref \in Requests
      BY <1>0, <2>1, DraftMoves
    <2>2. \A r \in Requests : Op(r)' = Op(r)
      BY <1>0, RequestFixed
    <2>3. QED
      BY <2>1, <2>2 DEF MovesAccountedFor
  <1> DEFINE move == draft'[i].moves[m]
             ref == move.ref
  <1>1. /\ ref \in Requests /\ move \in Move /\ m \in Nat
        /\ Len(row[i].moves) \in Nat /\ Len(draft[i].moves) \in Nat
        /\ draft[i].moves \in Seq(Move) /\ i \in Rows
    <2>1. i \in Rows
      BY DEF Rows
    <2>2. m \in Nat /\ move \in Move /\ ref \in Requests
      BY <1>0, DraftMoves
    <2>3. QED
      BY <1>0, <2>1, <2>2, DraftMoves
  <1>2. /\ next'[ref] >= next[ref] /\ next[ref] \in Nat /\ next'[ref] \in Nat
        /\ sale'[ref] = "none" => sale[ref] = "none"
    BY <1>0, <1>1, Frame DEF TypeOK
  <1>3. ASSUME m \in 1..Len(draft[i].moves), move = draft[i].moves[m], Op(ref) = "checkout"
        PROVE  /\ move.line < next'[ref]
               /\ sale[ref] = "none" => lock[i] = ref /\ m > Len(row[i].moves)
    <2>1. /\ move.line < next[ref]
          /\ sale[ref] = "none" => lock[i] = ref /\ m > Len(row[i].moves)
      BY <1>0, <1>3 DEF MovesAccountedFor
    <2>2. move.line \in Nat
      BY <1>1 DEF Move
    <2>3. QED
      BY <1>2, <2>1, <2>2
  <1>4. CASE KeepItems
    BY <1>2, <1>3, <1>4 DEF KeepItems
  <1>5. ASSUME NEW r \in Requests, Publish(r), CommitCheckout(r) \/ CommitAdjustment(r)
        PROVE  Acc(i, m)
    <2>1. draft' = draft /\ Release(r)
      BY <1>5 DEF Publish
    <2>2. CASE lock[i] # r
      <3>1. lock'[i] = lock[i] /\ row'[i] = row[i]
        BY <1>0, <1>1, <1>5, <2>1, <2>2, ReleaseKeeps DEF Publish
      <3>2. QED
        BY <1>2, <1>3, <2>1, <3>1
    <2>3. CASE lock[i] = r
      <3>1. ASSUME Op(ref) = "checkout" PROVE sale'[ref] # "none"
        <4>1. CASE ref = r
          BY <1>0, <1>5, <3>1, <4>1 DEF CommitCheckout, CommitAdjustment, TypeOK
        <4>2. CASE ref # r
          BY <1>2, <1>3, <2>1, <2>3, <3>1, <4>2
        <4>3. QED
          BY <4>1, <4>2
      <3>2. QED
        BY <1>3, <2>1, <3>1
    <2>4. QED
      BY <2>2, <2>3
  <1>6. ASSUME NEW r \in Requests, Rollback(r)
        PROVE  Acc(i, m)
    <2>1. row' = row /\ Release(r)
      BY <1>6 DEF Rollback
    <2>2. CASE lock[i] # r
      <3>1. lock'[i] = lock[i] /\ draft'[i] = draft[i]
        BY <1>0, <1>1, <1>6, <2>1, <2>2, ReleaseKeeps DEF Rollback
      <3>2. QED
        BY <1>2, <1>3, <2>1, <3>1
    <2>3. CASE lock[i] = r
      <3>1. draft'[i] = row[i]
        BY <1>6, <2>3 DEF Rollback
      <3>2. m <= Len(row[i].moves) /\ m \in 1..Len(draft[i].moves) /\ move = draft[i].moves[m]
        BY <1>0, <1>1, <3>1 DEF DraftExtendsRow
      <3>3. Op(ref) = "checkout" => sale[ref] # "none"
        BY <1>1, <1>3, <3>2
      <3>4. QED
        BY <1>2, <1>3, <3>2, <3>3
    <2>4. QED
      BY <2>2, <2>3
  <1>7. ASSUME NEW r \in Requests, NEW x \in Products, NEW k \in Nat \ {0}, NEW n \in Int,
               AppendMove(r, x, k, n), (DeductLine(r) /\ k = next[r]) \/ AdjustStock(r)
        PROVE  Acc(i, m)
    <2>1. CASE x = i
      <3> AppendMove(r, i, k, n)
        BY <1>7, <2>1
      <3>1. PICK new \in Move :
              /\ new.ref = r /\ new.line = k
              /\ draft'[i].moves = Append(draft[i].moves, new)
        BY <1>0, AppendMoveEffect
      <3>2. lock[i] \in {Free, r} /\ lock'[i] = r /\ row' = row
        BY <1>0, AppendMoveEffect
      <3>3. CASE m = Len(draft[i].moves) + 1
        <4>1. move = new /\ ref = r
          BY <1>1, <3>1, <3>3
        <4>2. Op(r) = "checkout" => k < next'[r]
          <5>1. CASE DeductLine(r) /\ k = next[r]
            BY <1>0, <5>1 DEF DeductLine, TypeOK
          <5>2. CASE AdjustStock(r)
            BY <5>2 DEF AdjustStock
          <5>3. QED
            BY <1>7, <5>1, <5>2
        <4>3. m > Len(row[i].moves)
          BY <1>0, <1>1, <3>3 DEF DraftExtendsRow
        <4>4. QED
          BY <3>1, <3>2, <4>1, <4>2, <4>3
      <3>4. CASE m # Len(draft[i].moves) + 1
        <4>1. m \in 1..Len(draft[i].moves) /\ move = draft[i].moves[m]
          BY <1>1, <3>1, <3>4
        <4>2. QED
          BY <1>1, <1>2, <1>3, <3>2, <4>1
      <3>5. QED
        BY <3>3, <3>4
    <2>2. CASE x # i
      <3>1. lock'[i] = lock[i] /\ draft'[i] = draft[i] /\ row' = row
        BY <1>0, <1>7, <2>2, AppendMoveEffect
      <3>2. QED
        BY <1>2, <1>3, <3>1
    <2>3. QED
      BY <2>1, <2>2
  <1>8. ASSUME NEW r \in Requests, NEW item \in Item, Overwrite(r, item)
        PROVE  Acc(i, m)
    <2>1. lock'[i] = lock[i] /\ row'[i].moves = row[i].moves /\ draft'[i].moves = draft[i].moves
      BY <1>0, <1>8, OverwriteEffect
    <2>2. QED
      BY <1>2, <1>3, <2>1
  <1>9. QED
    BY <1>0, <1>4, <1>5, <1>6, <1>7, <1>8, ItemSteps DEF ItemStep

LEMMA RecordedStep ==
    ASSUME IInv, [Next]_vars
    PROVE  SalesRecorded'
  <1>0. /\ TypeOK /\ DraftExtendsRow /\ HandlerProgress /\ DeductionsSoFar /\ SalesRecorded
        /\ TypeOK'
    BY TypeStep DEF IInv
  <1> DEFINE Both(r, i, n) == Recorded(r, n, row'[i].moves) /\ Recorded(r, n, draft'[i].moves)
  <1> SUFFICES ASSUME NEW r \in Requests, sale'[r] # "none",
                      NEW i \in Products, NEW n \in LinesOf(body'[key'[r]], i)
               PROVE  Recorded(r, n, row[i].moves)' /\ Recorded(r, n, draft[i].moves)'
    BY DEF SalesRecorded
  <1>s. Lines(r)' = Lines(r) /\ n \in LinesOf(body[key[r]], i)
    BY <1>0, RequestFixed
  <1> SUFFICES ASSUME n \in LinesOf(body[key[r]], i)
               PROVE  Both(r, i, n)
    BY <1>s DEF Recorded
  <1>1. n \in Nat /\ i \in Rows /\ n <= Len(Lines(r)) /\ Len(Lines(r)) \in Nat
    BY <1>0, LinesOfType DEF Rows
  <1>2. ASSUME sale[r] = "none" PROVE Both(r, i, n)
    <2>1. CommitCheckout(r)
      BY <1>0, <1>2, Frame
    <2>2. pc[r] = "commit" /\ Op(r) = "checkout" /\ r \notin aborted /\ Publish(r)
      BY <2>1 DEF CommitCheckout
    <2>3. n < next[r]
      BY <1>0, <1>1, <2>2 DEF HandlerProgress, TypeOK
    <2>4. lock[i] = r /\ Recorded(r, n, draft[i].moves)
      BY <1>0, <2>2, <2>3 DEF DeductionsSoFar, Holding
    <2>5. row'[i] = draft[i] /\ draft' = draft
      BY <2>2, <2>4 DEF Publish
    <2>6. QED
      BY <2>4, <2>5
  <1>3. ASSUME sale[r] # "none" PROVE Both(r, i, n)
    <2>1. Recorded(r, n, row[i].moves) /\ Recorded(r, n, draft[i].moves)
      BY <1>0, <1>3 DEF SalesRecorded
    <2>2. pc[r] \in {"save", "done", "failed"}
      BY <1>0, <1>3 DEF HandlerProgress
    <2>3. CASE KeepItems
      BY <2>1, <2>3 DEF KeepItems
    <2>4. ASSUME NEW q \in Requests, Publish(q) \/ Rollback(q) PROVE Both(r, i, n)
      <3>1. row'[i] \in {row[i], draft[i]} /\ draft'[i] \in {row[i], draft[i]}
        BY <2>4 DEF Publish, Rollback
      <3>2. QED
        BY <2>1, <3>1
    <2>5. ASSUME NEW q \in Requests, NEW x \in Products, NEW k \in Nat \ {0}, NEW m \in Int,
                 AppendMove(q, x, k, m), DeductLine(q) \/ AdjustStock(q)
          PROVE  Both(r, i, n)
      <3>1. q # r
        BY <2>2, <2>5 DEF DeductLine, AdjustStock
      <3>2. CASE x = i
        <4> AppendMove(q, i, k, m)
          BY <2>5, <3>2
        <4>1. PICK move \in Move :
                move.ref = q /\ draft'[i].moves = Append(draft[i].moves, move)
          BY <1>0, AppendMoveEffect
        <4>2. row' = row
          BY <1>0, AppendMoveEffect
        <4>3. draft[i].moves \in Seq(Move)
          BY <1>0, DraftMoves
        <4>4. Recorded(r, n, Append(draft[i].moves, move))
          BY <1>0, <1>1, <2>1, <3>1, <4>1, <4>3, RecordedAppend
        <4>5. QED
          BY <2>1, <4>1, <4>2, <4>4
      <3>3. CASE x # i
        <4>1. draft'[i] = draft[i] /\ row' = row
          BY <1>0, <2>5, <3>3, AppendMoveEffect
        <4>2. QED
          BY <2>1, <4>1
      <3>4. QED
        BY <3>2, <3>3
    <2>6. ASSUME NEW q \in Requests, NEW item \in Item, Overwrite(q, item) PROVE Both(r, i, n)
      <3>1. row'[i].moves = row[i].moves /\ draft'[i].moves = draft[i].moves
        BY <1>0, <2>6, OverwriteEffect
      <3>2. QED
        BY <2>1, <3>1
    <2>7. QED
      BY <1>0, <2>3, <2>4, <2>5, <2>6, ItemSteps DEF ItemStep
  <1>4. QED
    BY <1>2, <1>3

\* Only the commit of a checkout settles a job order.
LEMMA JobsChange ==
    ASSUME [Next]_vars
    PROVE  jobs' = jobs \/ \E r \in Requests : CommitCheckout(r)
  <1> USE DEF dbVars
  <1>1. ASSUME NEW r \in Requests,
               \/ Send(r) \/ Replay(r) \/ StartHandler(r) \/ SaveReply(r)
               \/ DeductLine(r) \/ LockService(r) \/ SkipLine(r)
               \/ AddPayment(r) \/ SettleJob(r) \/ DeadlockVictim(r) \/ CommitRefused(r)
               \/ InventoryStep(r) \/ VoidStep(r) \/ LogAudit(r) \/ Fault(r)
        PROVE  jobs' = jobs
    BY <1>1 DEF Send, Replay, StartHandler, SaveReply, DeductLine, LockService, SkipLine,
                AddPayment, SettleJob, DeadlockVictim, CommitRefused, InventoryStep,
                AdjustStock, CommitAdjustment, LoadItem, CommitItemUpdate, CommitItemDelete,
                VoidStep, FindTransaction, CommitVoid, LogAudit, Fault
  <1>2. ASSUME vars' = vars PROVE jobs' = jobs
    BY <1>2 DEF vars
  <1>3. QED
    BY <1>1, <1>2 DEF Next, Quiet, ServerStep, CheckoutStep

LEMMA JobsStep ==
    ASSUME TypeOK, HandlerProgress, JobsSettled, [Next]_vars
    PROVE  JobsSettled'
  <1> DEFINE Paid(r) == /\ JobOf(r) # NoJob => jobs[JobOf(r)].paid
                        /\ JobOf(r) \in Assigned => jobs[JobOf(r)].commissions # {}
             Unpaid(r) == \A j \in Jobs : r \notin jobs[j].commissions
  <1>1. \A r \in Requests : /\ sale[r] # "none" => Paid(r)
                            /\ sale[r] = "none" => Unpaid(r)
    BY DEF JobsSettled
  <1>2. \A r \in Requests : JobOf(r)' = JobOf(r) /\ JobOf(r) \in Jobs \cup {NoJob}
    BY RequestFixed, OpType
  <1> SUFFICES ASSUME NEW r \in Requests
               PROVE  /\ sale'[r] # "none" => Paid(r)'
                      /\ sale'[r] = "none" => Unpaid(r)'
    BY DEF JobsSettled
  <1>3. /\ sale[r] # "none" => sale'[r] # "none"
        /\ sale[r] = "none" /\ sale'[r] # "none" => CommitCheckout(r)
    BY Frame
  <1>4. ASSUME NEW q \in Requests, CommitCheckout(q)
        PROVE  /\ sale'[r] # "none" => Paid(r)'
               /\ sale'[r] = "none" => Unpaid(r)'
    <2>1. /\ sale' = [sale EXCEPT ![q] = "COMPLETED"]
          /\ jobs' = [j \in Jobs |-> IF j = JobOf(q) THEN Settled(jobs[j], j, q) ELSE jobs[j]]
      BY <1>4 DEF CommitCheckout
    <2>2. \A j \in Jobs : /\ jobs[j].paid => jobs'[j].paid
                          /\ jobs[j].commissions \subseteq jobs'[j].commissions
                          /\ jobs'[j].commissions \subseteq jobs[j].commissions \cup {q}
      BY <2>1 DEF Settled
    <2>3. CASE r = q
      <3>1. sale'[r] # "none"
        BY <2>1, <2>3 DEF TypeOK
      <3>2. JobOf(r) \in Jobs => jobs'[JobOf(r)] = Settled(jobs[JobOf(r)], JobOf(r), r)
        BY <2>1, <2>3
      <3>3. Paid(r)'
        BY <1>2, <3>2, DataAssumption DEF Settled, Rows
      <3>4. QED
        BY <3>1, <3>3
    <2>4. CASE r # q
      <3>1. sale'[r] = sale[r]
        BY <2>1, <2>4 DEF TypeOK
      <3>2. sale[r] # "none" => Paid(r)'
        BY <1>1, <1>2, <2>2, DataAssumption DEF Rows
      <3>3. sale[r] = "none" => Unpaid(r)'
        BY <1>1, <2>2, <2>4
      <3>4. QED
        BY <3>1, <3>2, <3>3
    <2>5. QED
      BY <2>3, <2>4
  <1>5. ASSUME jobs' = jobs, ~CommitCheckout(r)
        PROVE  /\ sale'[r] # "none" => Paid(r)'
               /\ sale'[r] = "none" => Unpaid(r)'
    BY <1>1, <1>2, <1>3, <1>5
  <1>6. QED
    BY <1>4, <1>5, JobsChange

-----------------------------------------------------------------------------
(* The theorem.                                                             *)

LEMMA InitIInv == Init => IInv
  <1> SUFFICES ASSUME Init PROVE IInv
    OBVIOUS
  <1>1. TypeOK
    BY InitType
  <1>2. LocksHeldByHandlers /\ HandlerProgress
    BY OpType, <1>1 DEF Init, LocksHeldByHandlers, HandlerProgress
  <1>3. \A i \in Products : row[i] = NewItem(i) /\ draft[i] = NewItem(i) /\ NewItem(i).moves = <<>>
    BY DEF Init, NewItem
  <1>4. DraftExtendsRow /\ MovesAccountedFor
    BY <1>3 DEF DraftExtendsRow, MovesAccountedFor
  <1>5. DeductionsSoFar /\ SalesRecorded
    BY DEF Init, DeductionsSoFar, SalesRecorded, Holding
  <1>6. JobsSettled
    BY DEF Init, JobsSettled
  <1>7. QED
    BY <1>1, <1>2, <1>4, <1>5, <1>6 DEF IInv

LEMMA IInvStep == IInv /\ [Next]_vars => IInv'
  <1> SUFFICES ASSUME IInv, [Next]_vars PROVE IInv'
    OBVIOUS
  <1>1. TypeOK /\ LocksHeldByHandlers /\ HandlerProgress /\ DraftExtendsRow /\ JobsSettled
    BY DEF IInv
  <1>2. TypeOK' /\ LocksHeldByHandlers' /\ HandlerProgress' /\ JobsSettled'
    BY <1>1, TypeStep, LocksStep, ProgressStep, JobsStep
  <1>3. DraftExtendsRow'
    BY <1>1, DraftStep
  <1>4. DeductionsSoFar' /\ MovesAccountedFor' /\ SalesRecorded'
    BY DeductionsStep, MovesStep, RecordedStep
  <1>5. QED
    BY <1>2, <1>3, <1>4 DEF IInv

\* What is not committed is in nobody's committed movements.
LEMMA IInvAtomic == IInv => SaleIsAtomic
  <1> SUFFICES ASSUME IInv, NEW r \in Requests
               PROVE  IF sale[r] # "none"
                      THEN /\ \A i \in Products : \A n \in LinesOf(body[key[r]], i) :
                                Recorded(r, n, row[i].moves)
                           /\ JobOf(r) # NoJob => jobs[JobOf(r)].paid
                           /\ JobOf(r) \in Assigned => jobs[JobOf(r)].commissions # {}
                      ELSE /\ \A j \in Jobs : r \notin jobs[j].commissions
                           /\ Op(r) = "checkout" =>
                                \A i \in Products : \A m \in 1..Len(row[i].moves) :
                                    row[i].moves[m].ref # r
    BY DEF SaleIsAtomic
  <1>1. TypeOK /\ DraftExtendsRow /\ MovesAccountedFor /\ SalesRecorded /\ JobsSettled
    BY DEF IInv
  <1>2. CASE sale[r] # "none"
    BY <1>1, <1>2 DEF SalesRecorded, JobsSettled
  <1>3. CASE sale[r] = "none"
    <2>1. \A j \in Jobs : r \notin jobs[j].commissions
      BY <1>1, <1>3 DEF JobsSettled
    <2>2. ASSUME Op(r) = "checkout", NEW i \in Products, NEW m \in 1..Len(row[i].moves)
          PROVE  row[i].moves[m].ref # r
      <3>1. Len(row[i].moves) \in Nat /\ Len(draft[i].moves) \in Nat
        BY <1>1 DEF TypeOK, Item
      <3>2. m \in 1..Len(draft[i].moves) /\ draft[i].moves[m] = row[i].moves[m]
        BY <1>1, <3>1 DEF DraftExtendsRow
      <3>3. ~(m > Len(row[i].moves))
        BY <3>1
      <3>4. QED
        BY <1>1, <1>3, <2>2, <3>2, <3>3 DEF MovesAccountedFor
    <2>3. QED
      BY <1>3, <2>1, <2>2
  <1>4. QED
    BY <1>2, <1>3

\* checkout in sales/router.py commits the transaction, its deductions and its
\* job order together, whatever handlers interleave with it, whichever deadlocks
\* abort it and wherever it dies: the swallowed exceptions of its loop leave no
\* sale without its deductions and no deduction without its sale.
THEOREM SaleAtomic == Spec => []SaleIsAtomic
  <1>1. Init => IInv
    BY InitIInv
  <1>2. IInv /\ [Next]_vars => IInv'
    BY IInvStep
  <1>3. IInv => SaleIsAtomic
    BY IInvAtomic
  <1>4. QED
    BY <1>1, <1>2, <1>3, PTL DEF Spec

-----------------------------------------------------------------------------
(***************************************************************************)
(* The idempotency decorator: a saved response is that of a committed      *)
(* sale, and a client that waits for its answers never buys twice under    *)
(* one key.                                                                *)
(***************************************************************************)

-----------------------------------------------------------------------------
(* What a step does to the steps of handlers and to the saved responses.    *)

LEMMA ReplyStep ==
    ASSUME TypeOK, [Next]_vars
    PROVE  reply' = reply \/ \E r \in Requests : SaveReply(r)
  <1> USE DEF dbVars, input
  <1>1. ASSUME NEW r \in Requests, Send(r) \/ ServerStep(r) \/ Fault(r), ~SaveReply(r)
        PROVE  reply' = reply
    BY <1>1 DEF Send, ServerStep, Fault, Replay, StartHandler, CheckoutStep, DeductLine,
       LockService, SkipLine, AddPayment, SettleJob, CommitCheckout, DeadlockVictim,
       CommitRefused, InventoryStep, AdjustStock, CommitAdjustment, LoadItem, CommitItemUpdate,
       CommitItemDelete, VoidStep, FindTransaction, CommitVoid, LogAudit
  <1>2. vars' = vars => reply' = reply
    BY DEF vars
  <1>3. QED
    BY <1>1, <1>2 DEF Next, Quiet

\* A handler waits for a lock in the middle of its work only.
LEMMA VictimInHandler ==
    ASSUME TypeOK, NEW r \in Requests, DeadlockVictim(r)
    PROVE  pc[r] \in InHandler /\ pc' = [pc EXCEPT ![r] = "audit"]
  <1>1. Wanted(r) \in Rows
    BY DEF DeadlockVictim, WaitCycle, Waiting
  <1>2. pc[r] \in {"lines", "settle", "load"}
    <2>1. pc[r] \notin {"lines", "settle", "load"} => Wanted(r) = NoJob
      BY DEF Wanted
    <2>2. QED
      BY <1>1, <2>1, DataAssumption
  <1>3. QED
    BY <1>2 DEF DeadlockVictim, Goto, InHandler

\* Where its own step takes a request.
LEMMA OwnMove ==
    ASSUME TypeOK, NEW r \in Requests, Send(r) \/ ServerStep(r) \/ Fault(r)
    PROVE  /\ pc'[r] \in InFlight => pc[r] \in InFlight \/ Send(r)
           /\ pc'[r] \in InHandler => pc[r] \in InHandler \/ StartHandler(r)
           /\ pc'[r] = "save" => CommitCheckout(r) \/ Op(r) # "checkout"
           /\ pc[r] = "save" => SaveReply(r) \/ Fault(r)
  <1> DEFINE Goal == /\ pc'[r] \in InFlight => pc[r] \in InFlight \/ Send(r)
                     /\ pc'[r] \in InHandler => pc[r] \in InHandler \/ StartHandler(r)
                     /\ pc'[r] = "save" => CommitCheckout(r) \/ Op(r) # "checkout"
                     /\ pc[r] = "save" => SaveReply(r) \/ Fault(r)
  <1> USE DEF Goto, InHandler, InFlight
  <1>1. CASE Send(r)
    BY <1>1 DEF Send, TypeOK
  <1>2. CASE Replay(r) \/ StartHandler(r) \/ SaveReply(r)
    BY <1>2 DEF Replay, StartHandler, SaveReply, TypeOK
  <1>3. CASE \/ DeductLine(r) \/ LockService(r) \/ SkipLine(r) \/ AddPayment(r)
             \/ SettleJob(r) \/ CommitRefused(r)
    BY <1>3 DEF DeductLine, LockService, SkipLine, AddPayment, SettleJob, CommitRefused, TypeOK
  <1>4. CASE CommitCheckout(r)
    BY <1>4 DEF CommitCheckout, TypeOK
  <1>5. CASE DeadlockVictim(r)
    BY <1>5, VictimInHandler DEF TypeOK
  <1>6. CASE InventoryStep(r)
    BY <1>6 DEF InventoryStep, AdjustStock, CommitAdjustment, LoadItem, CommitItemUpdate,
                CommitItemDelete, TypeOK
  <1>7. CASE VoidStep(r) \/ LogAudit(r)
    BY <1>7 DEF VoidStep, FindTransaction, CommitVoid, LogAudit, TypeOK
  <1>8. CASE Fault(r)
    BY <1>8 DEF Fault, TypeOK
  <1>9. QED
    BY <1>1, <1>2, <1>3, <1>4, <1>5, <1>6, <1>7, <1>8 DEF ServerStep, CheckoutStep

LEMMA Steps ==
    ASSUME [Next]_vars
    PROVE  (\E r \in Requests : Send(r) \/ ServerStep(r) \/ Fault(r)) \/ UNCHANGED vars
  BY DEF Next, Quiet

-----------------------------------------------------------------------------
(* Saved responses.                                                         *)

LEMMA ReceiptStep == ReceiptInv /\ [Next]_vars => ReceiptInv'
  <1> SUFFICES ASSUME ReceiptInv, [Next]_vars PROVE ReceiptInv'
    OBVIOUS
  <1>1. TypeOK /\ TypeOK' /\ SavesAfterCommit /\ CachedReceiptIsCommitted
    BY TypeStep DEF ReceiptInv
  <1>2. \A q \in Requests : /\ sale[q] # "none" => sale'[q] # "none"
                            /\ Op(q)' = Op(q) /\ key'[q] = key[q]
    BY <1>1, Frame, RequestFixed
  <1>3. ASSUME NEW r \in Requests, Send(r) \/ ServerStep(r) \/ Fault(r), NEW q \in Requests,
               pc'[q] = "save", Op(q) = "checkout"
        PROVE  sale'[q] # "none"
    <2>1. CASE q # r
      BY <1>1, <1>2, <1>3, <2>1, Bystanders DEF Bystander, SavesAfterCommit
    <2>2. CASE q = r
      <3>1. CommitCheckout(r)
        BY <1>1, <1>3, <2>2, OwnMove
      <3>2. QED
        BY <1>1, <2>2, <3>1 DEF CommitCheckout, TypeOK
    <2>3. QED
      BY <2>1, <2>2
  <1>4. CASE UNCHANGED vars
    BY <1>1, <1>4 DEF vars, ReceiptInv, SavesAfterCommit, CachedReceiptIsCommitted, Op
  <1>5. CASE \E r \in Requests : Send(r) \/ ServerStep(r) \/ Fault(r)
    <2>1. SavesAfterCommit'
      BY <1>2, <1>3, <1>5 DEF SavesAfterCommit
    <2>2. ASSUME NEW k \in Keys, reply'[k] # NoReply, body'[k].op = "checkout"
          PROVE  key'[reply'[k]] = k /\ sale'[reply'[k]] # "none"
      <3>1. body' = body /\ key' = key
        BY <1>1, Frame
      <3>2. CASE reply'[k] = reply[k]
        <4>1. reply[k] \in Requests /\ key[reply[k]] = k /\ sale[reply[k]] # "none"
          BY <1>1, <2>2, <3>1, <3>2 DEF CachedReceiptIsCommitted, TypeOK
        <4>2. QED
          BY <1>2, <3>1, <3>2, <4>1
      <3>3. CASE reply'[k] # reply[k]
        <4>1. PICK r \in Requests : SaveReply(r)
          BY <1>1, <3>3, ReplyStep
        <4>2. key[r] = k /\ reply'[k] = r /\ pc[r] = "save"
          BY <1>1, <3>3, <4>1 DEF SaveReply, TypeOK
        <4>3. sale[r] # "none"
          BY <1>1, <2>2, <3>1, <4>2 DEF SavesAfterCommit, Op
        <4>4. QED
          BY <1>2, <3>1, <4>2, <4>3
      <3>4. QED
        BY <3>2, <3>3
    <2>3. QED
      BY <1>1, <2>1, <2>2 DEF ReceiptInv, CachedReceiptIsCommitted
  <1>6. QED
    BY <1>4, <1>5, Steps

\* A saved response to a checkout is that of a committed sale submitted under
\* its key, for any requests, keys and faults (idempotent, checkout).
THEOREM CachedReceiptHolds == Spec => []CachedReceiptIsCommitted
  <1>1. Init => ReceiptInv
    BY InitType DEF Init, ReceiptInv, SavesAfterCommit, CachedReceiptIsCommitted
  <1>2. ReceiptInv => CachedReceiptIsCommitted
    BY DEF ReceiptInv
  <1>3. QED
    BY <1>1, <1>2, ReceiptStep, PTL DEF Spec

-----------------------------------------------------------------------------
(* One sale per key.                                                        *)

\* The parts of PatienceInv.
OneAtATime == \A q, r \in Requests :
  q # r /\ key[q] = key[r] => pc[q] \notin InFlight \/ pc[r] \notin InFlight
SoldIsKnown == \A r \in Requests : sale[r] # "none" => pc[r] = "save" \/ reply[key[r]] # NoReply
LookedFirst == \A r \in Requests : pc[r] \in InHandler /\ Keyed(r) => reply[key[r]] = NoReply

LEMMA OneAtATimeStep ==
    ASSUME RetriesAfterAnswer, TypeOK, OneAtATime,
           NEW r \in Requests, Send(r) \/ ServerStep(r) \/ Fault(r)
    PROVE  OneAtATime'
  <1>1. key' = key
    BY Frame DEF Next
  <1>2. \A q \in Requests : q # r => pc'[q] = pc[q]
    BY Bystanders DEF Bystander
  <1>3. pc'[r] \in InFlight =>
          pc[r] \in InFlight \/ \A q \in Requests : key[q] = key[r] => pc[q] \notin InFlight
    <2>1. Patient
      BY DEF RetriesAfterAnswer
    <2>2. Send(r) => \A q \in Requests : key[q] = key[r] => pc[q] \notin InFlight
      BY <2>1 DEF Send, MaySend
    <2>3. pc'[r] \in InFlight => pc[r] \in InFlight \/ Send(r)
      BY OwnMove
    <2>4. QED
      BY <2>2, <2>3
  <1>4. ASSUME NEW q \in Requests, NEW p \in Requests, q # p, key[q] = key[p],
               pc'[q] \in InFlight, pc'[p] \in InFlight
        PROVE  FALSE
    <2>1. CASE q = r
      BY <1>2, <1>3, <1>4, <2>1 DEF OneAtATime
    <2>2. CASE p = r
      BY <1>2, <1>3, <1>4, <2>2 DEF OneAtATime
    <2>3. CASE q # r /\ p # r
      BY <1>2, <1>4, <2>3 DEF OneAtATime
    <2>4. QED
      BY <2>1, <2>2, <2>3
  <1>5. QED
    BY <1>1, <1>4 DEF OneAtATime

LEMMA SoldStep ==
    ASSUME RetriesAfterAnswer, TypeOK, TypeOK', SoldIsKnown,
           NEW r \in Requests, Send(r) \/ ServerStep(r) \/ Fault(r)
    PROVE  SoldIsKnown'
  <1>1. [Next]_vars
    BY DEF Next
  <1>2. key' = key
    BY <1>1, Frame
  <1>3. \A k \in Keys : reply[k] # NoReply => reply'[k] # NoReply
    BY <1>1, ReplyStep, PointOfSaleAssumption DEF SaveReply, TypeOK
  <1> SUFFICES ASSUME NEW q \in Requests, sale'[q] # "none"
               PROVE  pc'[q] = "save" \/ reply'[key[q]] # NoReply
    BY <1>2 DEF SoldIsKnown
  <1>4. key[q] \in Keys
    BY DEF TypeOK
  <1>5. CASE sale[q] = "none"
    <2>1. CommitCheckout(q)
      BY <1>1, <1>5, Frame
    <2>2. QED
      BY <2>1 DEF CommitCheckout, Goto, TypeOK
  <1>6. CASE sale[q] # "none" /\ reply[key[q]] # NoReply
    BY <1>3, <1>4, <1>6
  <1>7. CASE sale[q] # "none" /\ pc[q] = "save"
    <2>1. CASE q # r
      <3>1. pc'[q] = pc[q]
        BY <2>1, Bystanders DEF Bystander
      <3>2. QED
        BY <1>7, <3>1
    <2>2. CASE q = r
      <3>1. ~Fault(r)
        BY <1>7, <2>2 DEF Fault, RetriesAfterAnswer
      <3>2. SaveReply(r)
        BY <1>7, <2>2, <3>1, OwnMove
      <3>3. QED
        BY <1>4, <2>2, <3>2, PointOfSaleAssumption DEF SaveReply, TypeOK
    <2>3. QED
      BY <2>1, <2>2
  <1>8. QED
    BY <1>5, <1>6, <1>7 DEF SoldIsKnown

LEMMA LookedStep ==
    ASSUME TypeOK, TypeOK', OneAtATime, LookedFirst,
           NEW r \in Requests, Send(r) \/ ServerStep(r) \/ Fault(r)
    PROVE  LookedFirst'
  <1>1. [Next]_vars
    BY DEF Next
  <1>2. key' = key /\ \A q \in Requests : Keyed(q)' = Keyed(q)
    BY <1>1, Frame, RequestFixed DEF Keyed
  <1> SUFFICES ASSUME NEW q \in Requests, pc'[q] \in InHandler, Keyed(q)
               PROVE  reply'[key[q]] = NoReply
    BY <1>2 DEF LookedFirst
  <1>3. pc[q] \in InHandler \/ StartHandler(q)
    BY OwnMove, Bystanders DEF Bystander
  <1>4. reply[key[q]] = NoReply /\ pc[q] \in InFlight /\ pc[q] # "save"
    BY <1>3 DEF LookedFirst, StartHandler, InHandler, InFlight
  <1>5. ASSUME NEW p \in Requests, SaveReply(p) PROVE key[p] # key[q]
    BY <1>4, <1>5 DEF SaveReply, OneAtATime, InFlight
  <1>6. QED
    BY <1>1, <1>4, <1>5, ReplyStep DEF SaveReply, TypeOK

LEMMA PatienceStep ==
    ASSUME RetriesAfterAnswer
    PROVE  PatienceInv /\ [Next]_vars => PatienceInv'
  <1> SUFFICES ASSUME PatienceInv, [Next]_vars PROVE PatienceInv'
    OBVIOUS
  <1>1. TypeOK /\ TypeOK' /\ OneAtATime /\ SoldIsKnown /\ LookedFirst /\ OneSalePerKey
    BY TypeStep DEF PatienceInv, OneAtATime, SoldIsKnown, LookedFirst
  <1>2. CASE UNCHANGED vars
    BY <1>2 DEF vars, PatienceInv, OneSalePerKey, Keyed, Op, TypeOK
  <1>3. ASSUME NEW r \in Requests, Send(r) \/ ServerStep(r) \/ Fault(r)
        PROVE  OneAtATime' /\ SoldIsKnown' /\ LookedFirst' /\ OneSalePerKey'
    <2>1. OneAtATime' /\ SoldIsKnown' /\ LookedFirst'
      BY <1>1, <1>3, OneAtATimeStep, SoldStep, LookedStep
    <2>2. key' = key
      BY <1>1, Frame
    <2>3. ASSUME NEW q \in Requests, NEW p \in Requests, q # p, key[q] = key[p],
                 sale'[q] # "none", sale'[p] # "none", sale[q] = "none"
          PROVE  FALSE
      <3>1. CommitCheckout(q)
        BY <1>1, <2>3, Frame
      <3>2. pc[q] = "commit" /\ Keyed(q) /\ sale'[p] = sale[p]
        BY <1>1, <2>3, <3>1 DEF CommitCheckout, Keyed, TypeOK
      <3>3. reply[key[q]] = NoReply
        BY <1>1, <3>2 DEF LookedFirst, InHandler
      <3>4. pc[p] = "save"
        BY <1>1, <2>3, <3>2, <3>3 DEF SoldIsKnown
      <3>5. QED
        BY <1>1, <2>3, <3>2, <3>4 DEF OneAtATime, InFlight, InHandler
    <2>4. OneSalePerKey'
      BY <1>1, <2>2, <2>3 DEF OneSalePerKey
    <2>5. QED
      BY <2>1, <2>4
  <1>4. QED
    BY <1>1, <1>2, <1>3, Steps DEF PatienceInv, OneAtATime, SoldIsKnown, LookedFirst

\* Clients that wait for their answers never buy twice under one key, as long as
\* no fault falls between a commit and the saving of its response (idempotent).
THEOREM OneSalePerKeyHolds == ASSUME RetriesAfterAnswer PROVE Spec => []OneSalePerKey
  <1>1. Init => PatienceInv
    BY InitType DEF Init, PatienceInv, OneSalePerKey, InFlight, InHandler
  <1>2. PatienceInv /\ [Next]_vars => PatienceInv'
    BY PatienceStep
  <1>3. PatienceInv => OneSalePerKey
    BY DEF PatienceInv
  <1>4. QED
    BY <1>1, <1>2, <1>3, PTL DEF Spec

-----------------------------------------------------------------------------
(***************************************************************************)
(* PointOfSale implements AtomicShop when nobody submits the edit form:    *)
(* the commit of a handler is the request taking effect in one step, and   *)
(* every other step leaves committed data alone.  ShopInv says of a draft  *)
(* that it adds exactly the lines handled so far.                          *)
(***************************************************************************)

-----------------------------------------------------------------------------
(* Movements for a set of lines.                                            *)

LEMMA LinesFinite ==
    ASSUME NEW b \in Body, NEW i, NEW S \in SUBSET LinesOf(b, i)
    PROVE  S \in SUBSET Nat /\ IsFiniteSet(S) /\ Cardinality(S) \in Nat
  <1>1. Len(b.lines) \in Nat
    BY DEF Body
  <1>2. IsFiniteSet(1..Len(b.lines))
    BY <1>1, FS_Interval
  <1>3. S \in SUBSET (1..Len(b.lines))
    BY DEF LinesOf
  <1>4. IsFiniteSet(S)
    BY <1>2, <1>3, FS_Subset
  <1>5. QED
    BY <1>1, <1>3, <1>4, FS_CardinalityType

LEMMA AppendsNone ==
    ASSUME NEW r, NEW moves \in Seq(Move)
    PROVE  Appends(r, {}, moves, moves)
  BY FS_EmptySet DEF Appends

\* One more movement, for a line behind those of S.
LEMMA AppendsOne ==
    ASSUME NEW r, NEW S \in SUBSET Nat, IsFiniteSet(S), NEW k \in Nat,
           \A l \in S : l < k,
           NEW old \in Seq(Move), NEW new \in Seq(Move), Appends(r, S, old, new),
           NEW move \in Move, move.ref = r, move.line = k, move.change = Change(r, k)
    PROVE  Appends(r, S \cup {k}, old, Append(new, move))
  <1> DEFINE T == S \cup {k}
             longer == Append(new, move)
  <1>1. Cardinality(S) \in Nat /\ Len(old) \in Nat /\ Len(new) = Len(old) + Cardinality(S)
    BY FS_CardinalityType DEF Appends
  <1>2. Cardinality(T) = Cardinality(S) + 1
    <2>1. k \notin S
      OBVIOUS
    <2>2. QED
      BY <2>1, FS_AddElement
  <1>3. /\ Len(longer) = Len(new) + 1 /\ longer[Len(new) + 1] = move
        /\ \A m \in 1..Len(new) : longer[m] = new[m]
    OBVIOUS
  <1>4. ASSUME NEW n \in S
        PROVE  /\ longer[Len(old) + Cardinality({l \in T : l <= n})].ref = r
               /\ longer[Len(old) + Cardinality({l \in T : l <= n})].line = n
               /\ longer[Len(old) + Cardinality({l \in T : l <= n})].change = Change(r, n)
    <2> DEFINE U == {l \in S : l <= n}
    <2>1. {l \in T : l <= n} = U
      BY <1>4
    <2>2. IsFiniteSet(U) /\ Cardinality(U) <= Cardinality(S)
      BY FS_Subset
    <2>3. n \in U
      BY <1>4
    <2>4. Cardinality(U) \in Nat /\ Cardinality(U) # 0
      BY <2>2, <2>3, FS_EmptySet, FS_CardinalityType
    <2>5. /\ new[Len(old) + Cardinality(U)].ref = r
          /\ new[Len(old) + Cardinality(U)].line = n
          /\ new[Len(old) + Cardinality(U)].change = Change(r, n)
      BY <1>4 DEF Appends
    <2> HIDE DEF U
    <2>6. Len(old) + Cardinality(U) \in 1..Len(new)
      BY <1>1, <2>2, <2>4
    <2>7. longer[Len(old) + Cardinality(U)] = new[Len(old) + Cardinality(U)]
      BY <1>3, <2>6
    <2>8. QED
      BY <2>1, <2>5, <2>7
  <1>5. {l \in T : l <= k} = T
    <2>1. \A l \in T : l <= k
      OBVIOUS
    <2>2. QED
      BY <2>1
  <1>6. \A n \in T : n \in S \/ n = k
    OBVIOUS
  <1> HIDE DEF longer, T
  <1>7. Len(old) + Cardinality({l \in T : l <= k}) = Len(new) + 1
    <2>1. Cardinality({l \in T : l <= k}) = Cardinality(T)
      BY ONLY <1>5, Zenon
    <2>2. QED
      BY <1>1, <1>2, <2>1
  <1>8. longer[Len(old) + Cardinality({l \in T : l <= k})] = move
    BY <1>3, <1>7
  <1>9. Len(longer) = Len(old) + Cardinality(T)
    BY <1>1, <1>2, <1>3
  <1>10. Appends(r, T, old, longer)
    <2> SUFFICES ASSUME NEW n \in T
                 PROVE  LET m == longer[Len(old) + Cardinality({l \in T : l <= n})]
                        IN  m.ref = r /\ m.line = n /\ m.change = Change(r, n)
      BY <1>9 DEF Appends
    <2>1. CASE n \in S
      BY <1>4, <2>1
    <2>2. CASE n = k
      BY <1>8, <2>2
    <2>3. QED
      BY <1>6, <2>1, <2>2
  <1>11. QED
    BY <1>10 DEF longer, T

LEMMA HandledFinite ==
    ASSUME TypeOK, NEW r \in Requests, NEW i \in Products
    PROVE  Handled(r, i) \in SUBSET Nat /\ IsFiniteSet(Handled(r, i))
  <1>1. Handled(r, i) \in SUBSET LinesOf(body[key[r]], i)
    BY DEF Handled
  <1>2. body[key[r]] \in Body
    BY OpType
  <1>3. QED
    BY <1>1, <1>2, LinesFinite

\* Only the lines of a cart move a handler to its next line.
LEMMA NextKept ==
    ASSUME TypeOK, [Next]_vars, NEW q \in Requests,
           ~(DeductLine(q) \/ LockService(q) \/ SkipLine(q))
    PROVE  next'[q] = next[q]
  <1>1. ASSUME NEW r \in Requests, r # q, Send(r) \/ ServerStep(r) \/ Fault(r)
        PROVE  next'[q] = next[q]
    BY <1>1, Bystanders DEF Bystander
  <1>2. ASSUME Send(q) \/ ServerStep(q) \/ Fault(q)
        PROVE  next'[q] = next[q]
    BY <1>2 DEF Send, ServerStep, Fault, Replay, StartHandler, CheckoutStep, AddPayment, SettleJob,
       CommitCheckout, DeadlockVictim, CommitRefused, InventoryStep, AdjustStock,
       CommitAdjustment, LoadItem, CommitItemUpdate, CommitItemDelete, VoidStep,
       FindTransaction, CommitVoid, LogAudit, SaveReply
  <1>3. QED
    BY <1>1, <1>2 DEF Next, Quiet, vars

\* A step handles the line DeductLine deducts, and no other.
LEMMA HandledStep ==
    ASSUME TypeOK, HandlerProgress, [Next]_vars, NEW q \in Requests, NEW i \in Products
    PROVE  Handled(q, i)' = IF DeductLine(q) /\ Lines(q)[next[q]].id = i
                            THEN Handled(q, i) \cup {next[q]}
                            ELSE Handled(q, i)
  <1> DEFINE here == DeductLine(q) /\ Lines(q)[next[q]].id = i
             ls == LinesOf(body[key[q]], i)
  <1>1. /\ Handled(q, i)' = {n \in ls : Op(q) = "checkout" => n < next'[q]}
        /\ Handled(q, i) = {n \in ls : Op(q) = "checkout" => n < next[q]}
    BY RequestFixed DEF Handled
  <1>2. \A n \in ls : n \in Nat /\ Lines(q)[n].id = i
    BY LinesOfType
  <1>3. next[q] \in Nat
    BY DEF TypeOK
  <1>4. CASE DeductLine(q) \/ LockService(q) \/ SkipLine(q)
    <2>1. /\ Op(q) = "checkout" /\ next'[q] = next[q] + 1
          /\ next[q] \in 1..Len(Lines(q))
      BY <1>4 DEF DeductLine, LockService, SkipLine, HandlerProgress, TypeOK
    <2>2. CASE here
      <3>1. next[q] \in ls
        BY <2>1, <2>2 DEF LinesOf, Lines
      <3>2. QED
        BY <1>1, <1>2, <1>3, <2>1, <2>2, <3>1
    <2>3. CASE ~here
      <3>1. Lines(q)[next[q]].id # i
        BY <1>4, <2>3 DEF LockService, SkipLine, Rows
      <3>2. next[q] \notin ls
        BY <1>2, <3>1
      <3>3. QED
        BY <1>1, <1>2, <1>3, <2>1, <2>3, <3>2
    <2>4. QED
      BY <2>2, <2>3
  <1>5. CASE ~(DeductLine(q) \/ LockService(q) \/ SkipLine(q))
    <2>1. next'[q] = next[q]
      BY <1>5, NextKept
    <2>2. QED
      BY <1>1, <1>5, <2>1
  <1>6. QED
    BY <1>4, <1>5

-----------------------------------------------------------------------------
(* The invariant.                                                           *)

\* What DeductLine and AdjustStock add to a draft.
LEMMA AddsLine ==
    ASSUME IInv, TypeOK', NEW q \in Requests, NEW i \in Products, DraftsAddLines,
           NEW k \in Nat \ {0}, AppendMove(q, i, k, Change(q, k)), Change(q, k) \in Int,
           \A n \in Handled(q, i) : n < k,
           lock[i] = Free => Handled(q, i) = {}
    PROVE  Appends(q, Handled(q, i) \cup {k}, row'[i].moves, draft'[i].moves)
  <1>1. TypeOK /\ DraftExtendsRow /\ q # Free
    BY DEF IInv
  <1>2. PICK move \in Move :
          /\ move.ref = q /\ move.line = k /\ move.change = Change(q, k)
          /\ draft'[i].moves = Append(draft[i].moves, move)
    BY <1>1, AppendMoveEffect
  <1>3. lock[i] \in {Free, q} /\ row' = row
    BY <1>1, AppendMoveEffect
  <1>4. row[i].moves \in Seq(Move) /\ draft[i].moves \in Seq(Move)
    BY <1>1, DraftMoves
  <1>5. Appends(q, Handled(q, i), row[i].moves, draft[i].moves)
    <2>1. CASE lock[i] = q
      BY <2>1 DEF DraftsAddLines
    <2>2. CASE lock[i] = Free
      <3>1. draft[i] = row[i] /\ Handled(q, i) = {}
        BY <1>1, <2>2 DEF DraftExtendsRow
      <3>2. QED
        BY <1>4, <3>1, AppendsNone
    <2>3. QED
      BY <1>3, <2>1, <2>2
  <1>6. Handled(q, i) \in SUBSET Nat /\ IsFiniteSet(Handled(q, i))
    BY <1>1, HandledFinite
  <1>7. Appends(q, Handled(q, i) \cup {k}, row[i].moves, Append(draft[i].moves, move))
    BY <1>2, <1>4, <1>5, <1>6, AppendsOne
  <1>8. QED
    BY <1>2, <1>3, <1>7

\* A step that leaves q's lock, its draft and the row alone.
StillAdds(q, i) ==
    /\ lock[i] = q
    /\ row'[i].moves = row[i].moves
    /\ draft'[i].moves = draft[i].moves

LEMMA AddLinesStep ==
    ASSUME IInv, DraftsAddLines, [Next]_vars
    PROVE  DraftsAddLines'
  <1>1. /\ TypeOK /\ TypeOK' /\ HandlerProgress /\ DraftExtendsRow
        /\ LocksHeldByHandlers /\ DeductionsSoFar
    BY TypeStep DEF IInv
  <1> SUFFICES ASSUME NEW q \in Requests, NEW i \in Products, lock'[i] = q
               PROVE  Appends(q, Handled(q, i)', row'[i].moves, draft'[i].moves)
    <2>1. \A r \in Requests : \A n : Change(r, n)' = Change(r, n)
      BY <1>1, RequestFixed DEF Change
    <2> SUFFICES ASSUME NEW q \in Requests, NEW i \in Products, lock'[i] = q,
                        Appends(q, Handled(q, i)', row'[i].moves, draft'[i].moves)
                 PROVE  Appends(q, Handled(q, i), row[i].moves, draft[i].moves)'
      BY DEF DraftsAddLines
    <2>2. \A n : Change(q, n)' = Change(q, n)
      BY <2>1
    <2> HIDE DEF Handled
    <2>3. QED
      BY <2>2 DEF Appends
  <1> DEFINE here == DeductLine(q) /\ Lines(q)[next[q]].id = i
  <1>2. q # Free /\ i \in Rows
    BY DEF Rows
  <1>3. CASE here
    <2>1. /\ next[q] \in 1..Len(Lines(q)) /\ next[q] \in Nat \ {0}
          /\ -Lines(q)[next[q]].qty \in Int
      BY <1>1, <1>3, DeductLineType DEF TypeOK
    <2>2. Op(q) = "checkout" /\ pc[q] = "lines" /\ q \notin aborted
      BY <1>1, <1>3 DEF DeductLine, HandlerProgress
    <2>3. Change(q, next[q]) = -Lines(q)[next[q]].qty
      BY <2>2 DEF Change
    <2>4. AppendMove(q, i, next[q], -Lines(q)[next[q]].qty)
      BY <1>3 DEF DeductLine, AppendMove, dbVars
    <2>5. \A n \in Handled(q, i) : n < next[q] /\ lock[i] = q
      BY <1>1, <2>2 DEF Handled, DeductionsSoFar, Holding
    <2>6. Appends(q, Handled(q, i) \cup {next[q]}, row'[i].moves, draft'[i].moves)
      <3> DEFINE k == next[q]
      <3>1. k \in Nat \ {0} /\ AppendMove(q, i, k, Change(q, k)) /\ Change(q, k) \in Int
        BY <2>1, <2>3, <2>4
      <3>2. \A n \in Handled(q, i) : n < k
        BY <2>5
      <3>3. lock[i] = Free => Handled(q, i) = {}
        BY <1>2, <2>5
      <3> HIDE DEF k
      <3>4. Appends(q, Handled(q, i) \cup {k}, row'[i].moves, draft'[i].moves)
        BY <1>1, <3>1, <3>2, <3>3, AddsLine
      <3>5. QED
        BY <3>4 DEF k
    <2>7. QED
      BY <1>1, <1>3, <2>6, HandledStep
  <1>4. CASE AdjustStock(q) /\ Target(q) = i
    <2>1. /\ Op(q) = "adjust_stock" /\ pc[q] = "load"
          /\ AppendMove(q, i, 1, Lines(q)[1].qty)
      BY <1>4 DEF AdjustStock, AppendMove, dbVars
    <2>2. Lines(q)[1].qty \in Int /\ Len(Lines(q)) = 1 /\ Lines(q)[1].id = i
      BY <1>1, <1>4, <2>1, AdjustStockType, OpType DEF Op, Lines, Target
    <2>3. lock[i] # q
      BY <1>1, <1>2, <2>1 DEF LocksHeldByHandlers, Holding
    <2>4. lock[i] = Free /\ draft[i] = row[i]
      BY <1>1, <2>1, <2>3 DEF AppendMove, CanLock, DraftExtendsRow
    <2>5. Handled(q, i)' = {1}
      <3>1. Handled(q, i) = {1}
        BY <2>1, <2>2 DEF Handled, LinesOf, Lines
      <3>2. ~here
        BY <2>1 DEF DeductLine
      <3>3. QED
        BY <1>1, <3>1, <3>2, HandledStep
    <2>6. PICK move \in Move :
            /\ move.ref = q /\ move.line = 1 /\ move.change = Lines(q)[1].qty
            /\ draft'[i].moves = Append(draft[i].moves, move)
      BY <1>1, <2>1, <2>2, AppendMoveEffect
    <2>7. Change(q, 1) = Lines(q)[1].qty
      BY <2>1 DEF Change
    <2>8. row[i].moves \in Seq(Move) /\ row' = row
      BY <1>1, <2>1, <2>2, DraftMoves, AppendMoveEffect
    <2>9. Appends(q, {} \cup {1}, row[i].moves, Append(row[i].moves, move))
      <3>1. IsFiniteSet({}) /\ Appends(q, {}, row[i].moves, row[i].moves)
        BY <2>8, AppendsNone, FS_EmptySet
      <3>2. QED
        BY <2>6, <2>7, <2>8, <3>1, AppendsOne
    <2>10. {} \cup {1} = {1}
      OBVIOUS
    <2>11. QED
      BY <2>4, <2>5, <2>6, <2>8, <2>9, <2>10
  <1>5. CASE StillAdds(q, i) /\ ~here
    <2>1. Handled(q, i)' = Handled(q, i)
      BY <1>1, <1>5, HandledStep
    <2>2. QED
      BY <1>5, <2>1 DEF StillAdds, DraftsAddLines
  <1>6. ASSUME ~here, ~(AdjustStock(q) /\ Target(q) = i)
        PROVE  StillAdds(q, i)
    <2>1. CASE KeepItems
      BY <2>1 DEF KeepItems, StillAdds
    <2>2. ASSUME NEW r \in Requests, Publish(r)
          PROVE  StillAdds(q, i)
      BY <1>1, <1>2, <2>2, ReleaseKeeps DEF Publish, StillAdds
    <2>3. ASSUME NEW r \in Requests, Rollback(r)
          PROVE  StillAdds(q, i)
      BY <1>1, <1>2, <2>3, ReleaseKeeps DEF Rollback, StillAdds
    <2>4. ASSUME NEW r \in Requests, DeductLine(r)
          PROVE  StillAdds(q, i)
      <3> DEFINE x == Lines(r)[next[r]].id
                 n == -Lines(r)[next[r]].qty
      <3>1. x \in Products /\ n \in Int /\ next[r] \in Nat \ {0}
        BY <1>1, <2>4, DeductLineType DEF TypeOK
      <3>2. AppendMove(r, x, next[r], n)
        BY <2>4 DEF DeductLine, AppendMove, dbVars
      <3>3. x = i => r # q
        BY <1>6, <2>4
      <3> HIDE DEF x, n
      <3>4. /\ lock'[x] = r /\ row' = row
            /\ \A j \in Products \ {x} : lock'[j] = lock[j] /\ draft'[j] = draft[j]
        BY <1>1, <3>1, <3>2, AppendMoveEffect
      <3>5. QED
        BY <3>1, <3>3, <3>4 DEF StillAdds
    <2>5. ASSUME NEW r \in Requests, AdjustStock(r)
          PROVE  StillAdds(q, i)
      <3>1. Target(r) \in Products /\ Lines(r)[1].qty \in Int
        BY <1>1, <2>5, AdjustStockType
      <3>2. AppendMove(r, Target(r), 1, Lines(r)[1].qty)
        BY <2>5 DEF AdjustStock, AppendMove, dbVars
      <3>3. /\ lock'[Target(r)] = r /\ row' = row
            /\ \A j \in Products \ {Target(r)} : lock'[j] = lock[j] /\ draft'[j] = draft[j]
        BY <1>1, <3>1, <3>2, AppendMoveEffect
      <3>4. QED
        BY <1>6, <2>5, <3>1, <3>3 DEF StillAdds
    <2>6. ASSUME NEW r \in Requests, NEW item \in Item, Overwrite(r, item)
          PROVE  StillAdds(q, i)
      BY <1>1, <2>6, OverwriteEffect DEF StillAdds
    <2>7. QED
      BY <1>1, <2>1, <2>2, <2>3, <2>4, <2>5, <2>6, ItemSteps DEF ItemStep
  <1>7. QED
    BY <1>3, <1>4, <1>5, <1>6

\* An adjustment goes from its lock to its commit.
LEMMA AdjustmentMove ==
    ASSUME TypeOK, LocksHeldByHandlers, HandlerProgress, [Next]_vars,
           NEW q \in Requests, Op(q) = "adjust_stock"
    PROVE  /\ pc'[q] \in {"audit", "commit"} =>
                (pc[q] \in {"audit", "commit"} /\ ~CommitAdjustment(q) /\ ~Fault(q))
                \/ AdjustStock(q)
           /\ pc[q] \in {"save", "done", "failed"} => pc'[q] \in {"save", "done", "failed"}
           /\ ~DeadlockVictim(q)
  <1> DEFINE Goal == /\ pc'[q] \in {"audit", "commit"} =>
                          (pc[q] \in {"audit", "commit"} /\ ~CommitAdjustment(q) /\ ~Fault(q))
                          \/ AdjustStock(q)
                     /\ pc[q] \in {"save", "done", "failed"} =>
                          pc'[q] \in {"save", "done", "failed"}
  <1>1. ~DeadlockVictim(q)
    BY VictimRuns
  <1>2. ~(CommitAdjustment(q) \/ Fault(q)) \/ pc'[q] \in {"save", "failed"}
    BY DEF CommitAdjustment, Fault, Goto, TypeOK
  <1>3. ASSUME NEW r \in Requests, r # q, Send(r) \/ ServerStep(r) \/ Fault(r) PROVE Goal
    BY <1>2, <1>3, Bystanders DEF Bystander
  <1>4. ASSUME Send(q) \/ ServerStep(q) \/ Fault(q) PROVE Goal
    <2> USE DEF Goto, TypeOK
    <2>1. CASE AdjustStock(q) \/ Fault(q)
      BY <2>1 DEF AdjustStock, Fault
    <2>2. CASE Send(q) \/ Replay(q) \/ StartHandler(q) \/ SaveReply(q)
      BY <2>2 DEF Send, Replay, StartHandler, SaveReply
    <2>3. CASE LogAudit(q) \/ CommitAdjustment(q) \/ CommitRefused(q)
      BY <1>2, <2>3 DEF LogAudit, CommitAdjustment, CommitRefused
    <2>4. ~(\/ DeductLine(q) \/ LockService(q) \/ SkipLine(q) \/ AddPayment(q) \/ SettleJob(q)
            \/ CommitCheckout(q) \/ LoadItem(q) \/ CommitItemUpdate(q) \/ CommitItemDelete(q)
            \/ FindTransaction(q) \/ CommitVoid(q))
      BY DEF DeductLine, LockService, SkipLine, AddPayment, SettleJob, CommitCheckout, LoadItem,
             CommitItemUpdate, CommitItemDelete, FindTransaction, CommitVoid, HandlerProgress
    <2>5. QED
      BY <1>1, <1>4, <2>1, <2>2, <2>3, <2>4
         DEF ServerStep, CheckoutStep, InventoryStep, VoidStep
  <1>5. CASE UNCHANGED vars
    <2>1. pc' = pc
      BY <1>5 DEF vars
    <2>2. QED
      BY <1>1, <1>2, <2>1
  <1>6. QED
    BY <1>1, <1>3, <1>4, <1>5 DEF Next, Quiet

LEMMA HoldLocksStep ==
    ASSUME IInv, AdjustmentsHoldLocks, [Next]_vars
    PROVE  AdjustmentsHoldLocks'
  <1>1. TypeOK /\ LocksHeldByHandlers /\ HandlerProgress /\ DraftExtendsRow
    BY DEF IInv
  <1> SUFFICES ASSUME NEW q \in Requests, Op(q) = "adjust_stock", pc'[q] \in {"audit", "commit"}
               PROVE  lock'[Target(q)] = q
    BY <1>1, RequestFixed DEF AdjustmentsHoldLocks, Target
  <1>2. PICK i \in Products : i = Target(q)
    BY <1>1, TargetType
  <1>3. i \in Rows /\ q # Free
    BY DEF Rows
  <1>4. CASE AdjustStock(q)
    BY <1>1, <1>2, <1>3, <1>4 DEF AdjustStock, TypeOK
  <1>5. CASE pc[q] \in {"audit", "commit"} /\ ~CommitAdjustment(q) /\ ~Fault(q)
    <2>1. lock[i] = q
      BY <1>2, <1>5 DEF AdjustmentsHoldLocks
    <2>2. CASE KeepItems
      BY <1>2, <2>1, <2>2 DEF KeepItems
    <2>3. ASSUME NEW r \in Requests,
                 \/ Publish(r) /\ (CommitCheckout(r) \/ CommitAdjustment(r))
                 \/ Rollback(r) /\ (DeadlockVictim(r) \/ Fault(r))
          PROVE  lock'[i] = q
      <3>1. r # q
        BY <1>1, <1>5, <2>3, AdjustmentMove DEF CommitCheckout
      <3>2. Release(r)
        BY <2>3 DEF Publish, Rollback
      <3>3. QED
        BY <1>1, <1>3, <2>1, <3>1, <3>2, ReleaseKeeps
    <2>4. ASSUME NEW r \in Requests, NEW x \in Products, NEW k \in Nat \ {0}, NEW n \in Int,
                 AppendMove(r, x, k, n)
          PROVE  lock'[i] = q
      BY <1>1, <1>3, <2>1, <2>4, AppendMoveEffect
    <2>5. ASSUME NEW r \in Requests, NEW item \in Item, Overwrite(r, item)
          PROVE  lock'[i] = q
      BY <1>1, <2>1, <2>5, OverwriteEffect
    <2>6. QED
      BY <1>1, <1>2, <2>2, <2>3, <2>4, <2>5, ItemSteps DEF ItemStep
  <1>6. QED
    BY <1>1, <1>4, <1>5, AdjustmentMove

LEMMA AccountedStep ==
    ASSUME IInv, AdjustmentsAccountedFor, [Next]_vars
    PROVE  AdjustmentsAccountedFor'
  <1>1. /\ TypeOK /\ TypeOK' /\ DraftExtendsRow /\ HandlerProgress /\ LocksHeldByHandlers
    BY TypeStep DEF IInv
  <1> DEFINE Over(r) == pc'[r] \in {"save", "done", "failed"}
             Acc(i, m, r) == Over(r) \/ (lock'[i] = r /\ m > Len(row'[i].moves))
  <1> SUFFICES ASSUME NEW i \in Products, NEW m \in 1..Len(draft'[i].moves),
                      NEW r \in Requests, r = draft'[i].moves[m].ref, Op(r) = "adjust_stock"
               PROVE  Acc(i, m, r)
    <2>1. \A i \in Products : \A m \in 1..Len(draft'[i].moves) :
            draft'[i].moves[m].ref \in Requests
      BY <1>1, DraftMoves
    <2>2. \A q \in Requests : Op(q)' = Op(q)
      BY <1>1, RequestFixed
    <2>3. QED
      BY <2>1, <2>2 DEF AdjustmentsAccountedFor
  <1>2. /\ m \in Nat /\ i \in Rows
        /\ Len(row[i].moves) \in Nat /\ Len(draft[i].moves) \in Nat
        /\ draft[i].moves \in Seq(Move)
    <2>1. i \in Rows
      BY DEF Rows
    <2>2. QED
      BY <1>1, <2>1, DraftMoves
  <1>3. ASSUME m \in 1..Len(draft[i].moves), r = draft[i].moves[m].ref
        PROVE  Over(r) \/ (lock[i] = r /\ m > Len(row[i].moves))
    BY <1>1, <1>3, AdjustmentMove DEF AdjustmentsAccountedFor
  <1>4. CASE KeepItems
    BY <1>3, <1>4 DEF KeepItems
  <1>5. ASSUME NEW q \in Requests, Publish(q), CommitCheckout(q) \/ CommitAdjustment(q)
        PROVE  Acc(i, m, r)
    <2>1. draft' = draft /\ Release(q)
      BY <1>5 DEF Publish
    <2>2. CASE lock[i] # q
      <3>1. lock'[i] = lock[i] /\ row'[i] = row[i]
        BY <1>1, <1>2, <1>5, <2>1, <2>2, ReleaseKeeps DEF Publish
      <3>2. QED
        BY <1>3, <2>1, <3>1
    <2>3. CASE lock[i] = q
      <3>1. pc'[q] = "save"
        BY <1>1, <1>5 DEF CommitCheckout, CommitAdjustment, Goto, TypeOK
      <3>2. QED
        BY <1>3, <2>1, <2>3, <3>1
    <2>4. QED
      BY <2>2, <2>3
  <1>6. ASSUME NEW q \in Requests, Rollback(q)
        PROVE  Acc(i, m, r)
    <2>1. row' = row /\ Release(q)
      BY <1>6 DEF Rollback
    <2>2. CASE lock[i] # q
      <3>1. lock'[i] = lock[i] /\ draft'[i] = draft[i]
        BY <1>1, <1>2, <1>6, <2>1, <2>2, ReleaseKeeps DEF Rollback
      <3>2. QED
        BY <1>3, <2>1, <3>1
    <2>3. CASE lock[i] = q
      <3>1. draft'[i] = row[i]
        BY <1>6, <2>3 DEF Rollback
      <3>2. /\ m <= Len(row[i].moves) /\ m \in 1..Len(draft[i].moves)
            /\ r = draft[i].moves[m].ref
        BY <1>1, <1>2, <3>1 DEF DraftExtendsRow
      <3>3. QED
        BY <1>2, <1>3, <3>2
    <2>4. QED
      BY <2>2, <2>3
  <1>7. ASSUME NEW q \in Requests, NEW x \in Products, NEW k \in Nat \ {0}, NEW n \in Int,
               AppendMove(q, x, k, n)
        PROVE  Acc(i, m, r)
    <2>1. CASE x = i
      <3> AppendMove(q, i, k, n)
        BY <1>7, <2>1
      <3>1. PICK new \in Move : new.ref = q /\ draft'[i].moves = Append(draft[i].moves, new)
        BY <1>1, AppendMoveEffect
      <3>2. lock[i] \in {Free, q} /\ lock'[i] = q /\ row' = row
        BY <1>1, AppendMoveEffect
      <3>3. CASE m = Len(draft[i].moves) + 1
        <4>1. r = q
          BY <1>2, <3>1, <3>3
        <4>2. m > Len(row[i].moves)
          BY <1>1, <1>2, <3>3 DEF DraftExtendsRow
        <4>3. QED
          BY <3>2, <4>1, <4>2
      <3>4. CASE m # Len(draft[i].moves) + 1
        <4>1. m \in 1..Len(draft[i].moves) /\ r = draft[i].moves[m].ref
          BY <1>2, <3>1, <3>4
        <4>2. QED
          BY <1>3, <3>2, <4>1
      <3>5. QED
        BY <3>3, <3>4
    <2>2. CASE x # i
      <3>1. lock'[i] = lock[i] /\ draft'[i] = draft[i] /\ row' = row
        BY <1>1, <1>7, <2>2, AppendMoveEffect
      <3>2. QED
        BY <1>3, <3>1
    <2>3. QED
      BY <2>1, <2>2
  <1>8. ASSUME NEW q \in Requests, NEW item \in Item, Overwrite(q, item)
        PROVE  Acc(i, m, r)
    <2>1. lock'[i] = lock[i] /\ row'[i].moves = row[i].moves /\ draft'[i].moves = draft[i].moves
      BY <1>1, <1>8, OverwriteEffect
    <2>2. QED
      BY <1>3, <2>1
  <1>9. QED
    BY <1>1, <1>4, <1>5, <1>6, <1>7, <1>8, ItemSteps DEF ItemStep

LEMMA ActiveStep ==
    ASSUME TypeOK, DraftsKeepActive, [Next]_vars
    PROVE  DraftsKeepActive'
  <1> SUFFICES ASSUME NEW i \in Products PROVE draft'[i].active = row'[i].active
    BY DEF DraftsKeepActive
  <1>1. draft[i].active = row[i].active
    BY DEF DraftsKeepActive
  <1>2. CASE KeepItems
    BY <1>1, <1>2 DEF KeepItems
  <1>3. ASSUME NEW r \in Requests, Publish(r) \/ Rollback(r)
        PROVE  draft'[i].active = row'[i].active
    <2>1. draft'[i] \in {row[i], draft[i]} /\ row'[i] \in {row[i], draft[i]}
      BY <1>3 DEF Publish, Rollback
    <2>2. QED
      BY <1>1, <2>1
  <1>4. ASSUME NEW r \in Requests, NEW x \in Products, NEW k \in Nat \ {0}, NEW n \in Int,
               AppendMove(r, x, k, n)
        PROVE  draft'[i].active = row'[i].active
    <2>1. /\ row'[i] = row[i]
          /\ draft'[i] = IF i = x THEN Moved(i, r, k, n) ELSE draft[i]
      BY <1>4 DEF AppendMove, TypeOK
    <2>2. Moved(i, r, k, n).active = draft[i].active
      BY DEF Moved
    <2>3. QED
      BY <1>1, <2>1, <2>2
  <1>5. ASSUME NEW r \in Requests, NEW item \in Item, Overwrite(r, item)
        PROVE  draft'[i].active = row'[i].active
    <2>1. \/ row'[i] = item /\ draft'[i] = item
          \/ row'[i] = row[i] /\ draft'[i] = draft[i]
      BY <1>5 DEF Overwrite, WriteItem, TypeOK
    <2>2. QED
      BY <1>1, <2>1
  <1>6. QED
    BY <1>2, <1>3, <1>4, <1>5, ItemSteps DEF ItemStep

LEMMA ShopInvStep ==
    ASSUME NoItemEdits
    PROVE  ShopInv /\ [Next]_vars => ShopInv'
  <1> SUFFICES ASSUME ShopInv, [Next]_vars PROVE ShopInv'
    OBVIOUS
  <1>1. /\ IInv /\ TypeOK /\ BalanceInv /\ DraftsAddLines /\ AdjustmentsHoldLocks
        /\ AdjustmentsAccountedFor /\ DraftsKeepActive
    BY DEF ShopInv, IInv
  <1>2. IInv' /\ BalanceInv' /\ DraftsAddLines'
    BY <1>1, IInvStep, BalanceStep, AddLinesStep
  <1>3. AdjustmentsHoldLocks' /\ AdjustmentsAccountedFor' /\ DraftsKeepActive'
    BY <1>1, HoldLocksStep, AccountedStep, ActiveStep
  <1>4. QED
    BY <1>2, <1>3 DEF ShopInv

LEMMA InitShopInv == Init => ShopInv
  <1> SUFFICES ASSUME Init PROVE ShopInv
    OBVIOUS
  <1>1. IInv
    BY InitIInv
  <1>2. \A i \in Products : row[i] = NewItem(i) /\ draft[i] = NewItem(i) /\ NewItem(i).moves = <<>>
    BY DEF Init, NewItem
  <1>3. BalanceInv
    BY <1>2, NewItemBalanced DEF BalanceInv
  <1>4. \A r \in Requests, i \in Products : lock[i] # r
    BY DEF Init, Rows
  <1>5. QED
    BY <1>1, <1>2, <1>3, <1>4
       DEF ShopInv, DraftsAddLines, AdjustmentsHoldLocks, AdjustmentsAccountedFor,
           DraftsKeepActive, Init

-----------------------------------------------------------------------------
(* Every commit is the request taking effect alone.                         *)

\* The operators AtomicShop takes from ShopData are those of PointOfSale.
LEMMA SameData ==
    /\ \A S : Shop!Cardinality(S) = Cardinality(S)
    /\ \A b, i : Shop!LinesOf(b, i) = LinesOf(b, i)
    /\ \A i, item : Shop!Balanced(i, item) <=> Balanced(i, item)
    /\ \A i : Shop!NewItem(i) = NewItem(i)
  <1>1. \A S : Shop!Cardinality(S) = Cardinality(S)
    BY DEF Shop!Cardinality, Cardinality
  <1>2. \A b, i : Shop!LinesOf(b, i) = LinesOf(b, i)
    BY DEF Shop!LinesOf, LinesOf
  <1>3. \A i, item : Shop!Balanced(i, item) <=> Balanced(i, item)
    BY DEF Shop!Balanced, Balanced, Shop!StockAfter, StockAfter
  <1>4. \A i : Shop!NewItem(i) = NewItem(i)
    BY DEF Shop!NewItem, NewItem
  <1>5. QED
    BY <1>1, <1>2, <1>3, <1>4

\* Moves of AtomicShop, in the words of PointOfSale.
LEMMA MovesFrom ==
    ASSUME NEW r, NEW i, NEW sign, NEW ls, ls = LinesOf(body[key[r]], i),
           Appends(r, ls, row[i].moves, row'[i].moves),
           \A n \in ls : Change(r, n) = sign * Lines(r)[n].qty,
           \A m \in 1..Len(row[i].moves) : row'[i].moves[m] = row[i].moves[m],
           Balanced(i, row[i]) => Balanced(i, row'[i]),
           row'[i].active = row[i].active
    PROVE  Shop!Moves(r, i, sign)
  <1>1. Shop!LinesOf(Shop!BodyOf(r), i) = ls /\ Shop!BodyOf(r).lines = Lines(r)
    BY SameData DEF Shop!BodyOf, Lines
  <1>2. Shop!Cardinality(ls) = Cardinality(ls)
    BY SameData
  <1>3. \A n : Shop!Cardinality({l \in ls : l <= n}) = Cardinality({l \in ls : l <= n})
    BY SameData
  <1>4. Shop!Balanced(i, row[i]) => Shop!Balanced(i, row'[i])
    BY SameData
  <1>5. Len(row'[i].moves) = Len(row[i].moves) + Shop!Cardinality(ls)
    BY <1>2 DEF Appends
  <1>6. ASSUME NEW n \in ls
        PROVE  LET m == Len(row[i].moves) + Shop!Cardinality({l \in ls : l <= n})
               IN  /\ row'[i].moves[m].ref = r
                   /\ row'[i].moves[m].line = n
                   /\ row'[i].moves[m].change = sign * Lines(r)[n].qty
    <2> DEFINE U == {l \in ls : l <= n}
               m == Len(row[i].moves) + Cardinality(U)
    <2>1. /\ row'[i].moves[m].ref = r
          /\ row'[i].moves[m].line = n
          /\ row'[i].moves[m].change = Change(r, n)
      BY <1>6 DEF Appends
    <2>2. Shop!Cardinality(U) = Cardinality(U)
      BY <1>3
    <2> HIDE DEF U
    <2>3. Len(row[i].moves) + Shop!Cardinality(U) = m
      BY <2>2
    <2>4. Change(r, n) = sign * Lines(r)[n].qty
      BY <1>6
    <2> HIDE DEF m
    <2>5. LET k == Len(row[i].moves) + Shop!Cardinality(U)
          IN  /\ row'[i].moves[k].ref = r
              /\ row'[i].moves[k].line = n
              /\ row'[i].moves[k].change = sign * Lines(r)[n].qty
      BY <2>1, <2>3, <2>4
    <2>6. QED
      BY <2>5 DEF U
  <1>7. QED
    BY <1>1, <1>4, <1>5, <1>6 DEF Shop!Moves

\* The commit of r publishes its lines for product i, and nothing else.
LEMMA PublishMoves ==
    ASSUME ShopInv, BalanceInv', NEW r \in Requests, Publish(r), NEW i \in Products, NEW sign,
           \A n \in LinesOf(body[key[r]], i) :
             /\ Change(r, n) = sign * Lines(r)[n].qty
             /\ lock[i] = r /\ n \in Handled(r, i)
    PROVE  Shop!Moves(r, i, sign)
  <1> DEFINE ls == LinesOf(body[key[r]], i)
             old == row[i].moves
             new == row'[i].moves
  <1>1. TypeOK /\ DraftExtendsRow /\ Balanced(i, row'[i])
    BY DEF ShopInv, IInv, BalanceInv, Balanced, StockAfter
  <1>2. old \in Seq(Move) /\ Len(old) \in Nat
    BY <1>1 DEF TypeOK, Item
  <1>3. Handled(r, i) = ls
    BY DEF Handled
  <1>4. /\ Appends(r, ls, old, new)
        /\ \A m \in 1..Len(old) : new[m] = old[m]
        /\ row'[i].active = row[i].active
    <2>1. CASE lock[i] = r
      <3>1. row'[i] = draft[i]
        BY <2>1 DEF Publish
      <3>2. Appends(r, Handled(r, i), row[i].moves, draft[i].moves)
        BY <2>1 DEF ShopInv, DraftsAddLines
      <3>3. Appends(r, ls, old, new)
        BY <1>3, <3>1, <3>2
      <3>4. \A m \in 1..Len(old) : new[m] = old[m]
        BY <1>1, <3>1 DEF DraftExtendsRow
      <3>5. row'[i].active = row[i].active
        BY <3>1 DEF ShopInv, DraftsKeepActive
      <3>6. QED
        BY <3>3, <3>4, <3>5
    <2>2. CASE lock[i] # r
      <3>1. row'[i] = row[i] /\ ls = {}
        BY <2>2 DEF Publish
      <3>2. Appends(r, {}, old, old)
        BY <1>2, AppendsNone
      <3>3. QED
        BY <3>1, <3>2
    <2>3. QED
      BY <2>1, <2>2
  <1>5. \A n \in ls : Change(r, n) = sign * Lines(r)[n].qty
    OBVIOUS
  <1> HIDE DEF ls
  <1>6. ls = LinesOf(body[key[r]], i)
    BY DEF ls
  <1>7. QED
    BY <1>1, <1>4, <1>5, <1>6, MovesFrom

\* A committed sale's movements exist already, and no other request wrote them.
LEMMA CheckoutShop ==
    ASSUME ShopInv, BalanceInv', NEW r \in Requests, CommitCheckout(r)
    PROVE  Shop!Checkout(r)
  <1>1. TypeOK /\ HandlerProgress /\ DeductionsSoFar /\ SaleIsAtomic
    BY IInvAtomic DEF ShopInv, IInv
  <1>2. /\ pc[r] = "commit" /\ Op(r) = "checkout" /\ r \notin aborted /\ Publish(r)
        /\ sale' = [sale EXCEPT ![r] = "COMPLETED"]
        /\ jobs' = [j \in Jobs |-> IF j = JobOf(r) THEN Settled(jobs[j], j, r) ELSE jobs[j]]
        /\ key' = key /\ body' = body
    BY DEF CommitCheckout, input
  <1>3. sale[r] = "none"
    BY <1>1, <1>2 DEF HandlerProgress
  <1>4. ASSUME NEW i \in Products
        PROVE  Shop!Untouched(r, i) /\ Shop!Moves(r, i, -1)
    <2>1. Shop!Untouched(r, i)
      BY <1>1, <1>2, <1>3 DEF SaleIsAtomic, Shop!Untouched
    <2>2. ASSUME NEW n \in LinesOf(body[key[r]], i)
          PROVE  /\ Change(r, n) = (-1) * Lines(r)[n].qty
                 /\ lock[i] = r /\ n \in Handled(r, i)
      <3>1. n < next[r]
        <4>1. next[r] > Len(Lines(r)) /\ next[r] \in Nat
          BY <1>1, <1>2 DEF HandlerProgress, TypeOK
        <4>2. n \in Nat /\ n <= Len(Lines(r)) /\ Len(Lines(r)) \in Nat
          BY <1>1, LinesOfType
        <4>3. QED
          BY <4>1, <4>2
      <3>2. lock[i] = r
        BY <1>1, <1>2, <3>1 DEF DeductionsSoFar, Holding
      <3>3. n \in Handled(r, i)
        BY <3>1 DEF Handled
      <3>4. Lines(r)[n].qty \in Int
        <4>1. Lines(r)[n] \in Line
          BY <1>1, LinesOfType, OpType
        <4>2. QED
          BY <4>1 DEF Line
      <3>5. QED
        BY <1>2, <3>2, <3>3, <3>4 DEF Change
    <2>3. Shop!Moves(r, i, -1)
      BY <1>2, <2>2, PublishMoves
    <2>4. QED
      BY <2>1, <2>3
  <1>5. Shop!BodyOf(r).op = "checkout" /\ Shop!BodyOf(r).job = JobOf(r)
    BY <1>2 DEF Shop!BodyOf, Op, JobOf
  <1>6. jobs' = [j \in Jobs |->
                  IF j # Shop!BodyOf(r).job THEN jobs[j]
                  ELSE [paid |-> TRUE,
                        commissions |-> jobs[j].commissions \cup
                                        (IF j \in Assigned THEN {r} ELSE {})]]
    BY <1>2, <1>5 DEF Settled
  <1>7. QED
    BY <1>2, <1>3, <1>4, <1>5, <1>6 DEF Shop!Checkout

LEMMA AdjustmentShop ==
    ASSUME ShopInv, BalanceInv', NEW r \in Requests, CommitAdjustment(r)
    PROVE  Shop!AdjustStock(r)
  <1>1. /\ TypeOK /\ DraftExtendsRow /\ AdjustmentsHoldLocks /\ AdjustmentsAccountedFor
    BY DEF ShopInv, IInv
  <1>2. /\ pc[r] = "commit" /\ Op(r) = "adjust_stock" /\ Publish(r)
        /\ UNCHANGED <<sale, jobs, key, body>>
    BY DEF CommitAdjustment, input
  <1>3. /\ Target(r) \in Products /\ Lines(r)[1].qty \in Int /\ Len(Lines(r)) = 1
    BY <1>1, <1>2, TargetType, OpType DEF Op, Lines
  <1>4. ASSUME NEW i \in Products
        PROVE  Shop!Untouched(r, i) /\ Shop!Moves(r, i, 1)
    <2>1. Shop!Untouched(r, i)
      <3>1. ASSUME NEW m \in 1..Len(row[i].moves), row[i].moves[m].ref = r
            PROVE  FALSE
        <4>1. Len(row[i].moves) \in Nat /\ Len(draft[i].moves) \in Nat
          BY <1>1 DEF TypeOK, Item
        <4>2. m \in 1..Len(draft[i].moves) /\ draft[i].moves[m] = row[i].moves[m]
          BY <1>1, <4>1 DEF DraftExtendsRow
        <4>3. QED
          BY <1>1, <1>2, <3>1, <4>1, <4>2 DEF AdjustmentsAccountedFor
      <3>2. QED
        BY <3>1 DEF Shop!Untouched
    <2>2. ASSUME NEW n \in LinesOf(body[key[r]], i)
          PROVE  /\ Change(r, n) = 1 * Lines(r)[n].qty
                 /\ lock[i] = r /\ n \in Handled(r, i)
      <3>1. n = 1 /\ i = Target(r)
        BY <1>1, <1>3, LinesOfType DEF Target
      <3>2. lock[i] = r
        BY <1>1, <1>2, <3>1 DEF AdjustmentsHoldLocks
      <3>3. n \in Handled(r, i)
        BY <1>2 DEF Handled
      <3>4. QED
        BY <1>2, <1>3, <3>1, <3>2, <3>3 DEF Change
    <2>3. Shop!Moves(r, i, 1)
      BY <1>2, <2>2, PublishMoves
    <2>4. QED
      BY <2>1, <2>3
  <1>5. Shop!BodyOf(r).op = "adjust_stock"
    BY <1>2 DEF Shop!BodyOf, Op
  <1>6. QED
    BY <1>2, <1>4, <1>5 DEF Shop!AdjustStock

LEMMA ShopStep ==
    ASSUME NoItemEdits, ShopInv, [Next]_vars
    PROVE  [Shop!Next]_(Shop!vars)
  <1>1. TypeOK /\ BalanceInv'
    BY BalanceStep DEF ShopInv, IInv
  <1>2. ASSUME NEW r \in Requests, CommitCheckout(r) PROVE Shop!Next
    BY <1>1, <1>2, CheckoutShop DEF Shop!Next
  <1>3. ASSUME NEW r \in Requests, CommitAdjustment(r) PROVE Shop!Next
    BY <1>1, <1>3, AdjustmentShop DEF Shop!Next
  <1>4. ASSUME NEW r \in Requests, CommitItemDelete(r) PROVE Shop!Next
    <2>1. Shop!BodyOf(r).op = "delete_item" /\ Shop!BodyOf(r).lines[1].id = Target(r)
      BY <1>4 DEF CommitItemDelete, Shop!BodyOf, Op, Target, Lines
    <2>2. row' = [row EXCEPT ![Target(r)] = [row[Target(r)] EXCEPT !.active = FALSE]]
      BY <1>4 DEF CommitItemDelete, WriteItem
    <2>3. row' = [row EXCEPT ![Target(r)].active = FALSE]
      BY <2>2
    <2>4. UNCHANGED <<sale, jobs, key, body>>
      BY <1>4 DEF CommitItemDelete, input
    <2>5. Shop!DeleteItem(r)
      BY <2>1, <2>3, <2>4 DEF Shop!DeleteItem
    <2>6. QED
      BY <2>5 DEF Shop!Next
  <1>5. ASSUME NEW r \in Requests, CommitVoid(r) PROVE Shop!Next
    <2>1. /\ Op(r) = "void_transaction" /\ UNCHANGED <<row, jobs, key, body>>
          /\ \E t \in Transactions : sale' = [sale EXCEPT ![t] = "VOIDED"]
      BY <1>5 DEF CommitVoid, input
    <2>2. Shop!VoidTransaction(r)
      BY <2>1 DEF Shop!VoidTransaction, Shop!BodyOf, Op, Transactions
    <2>3. QED
      BY <2>2 DEF Shop!Next
  <1>6. ASSUME NEW r \in Requests, CommitItemUpdate(r) PROVE FALSE
    BY <1>1, <1>6, OpType DEF CommitItemUpdate, NoItemEdits, Op
  <1>7. ASSUME NEW r \in Requests,
               \/ Send(r) \/ Replay(r) \/ StartHandler(r) \/ SaveReply(r)
               \/ DeductLine(r) \/ LockService(r) \/ SkipLine(r) \/ AddPayment(r)
               \/ SettleJob(r) \/ DeadlockVictim(r) \/ CommitRefused(r) \/ AdjustStock(r)
               \/ LoadItem(r) \/ FindTransaction(r) \/ LogAudit(r) \/ Fault(r)
        PROVE  UNCHANGED <<row, sale, jobs, key, body>>
    BY <1>7 DEF Send, Replay, StartHandler, SaveReply, DeductLine, LockService, SkipLine,
                AddPayment, SettleJob, DeadlockVictim, CommitRefused, AdjustStock, LoadItem,
                FindTransaction, LogAudit, Fault, Rollback, dbVars, input
  <1>8. CASE UNCHANGED vars
    BY <1>8 DEF vars, Shop!vars
  <1>9. QED
    BY <1>2, <1>3, <1>4, <1>5, <1>6, <1>7, <1>8
       DEF Next, Quiet, ServerStep, CheckoutStep, InventoryStep, VoidStep, Shop!vars

\* The sales and inventory routers implement the atomic shop: every interleaving
\* of checkouts, adjustments, deletions and voids, with deadlocks and crashes,
\* commits what some order of the requests run one at a time would, as long as
\* nobody submits the edit form.
THEOREM AtomicShopImplemented == ASSUME NoItemEdits PROVE Spec => ImplementsAtomicShop
  <1>1. Init => Shop!Init
    BY SameData DEF Init, Shop!Init
  <1>2. ShopInv /\ [Next]_vars => ShopInv'
    BY ShopInvStep
  <1>3. ShopInv /\ [Next]_vars => [Shop!Next]_(Shop!vars)
    BY ShopStep
  <1>4. QED
    BY <1>1, <1>2, <1>3, InitShopInv, PTL DEF Spec, ImplementsAtomicShop, Shop!Spec
=============================================================================
