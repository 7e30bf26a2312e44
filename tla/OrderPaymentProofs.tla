------------------------- MODULE OrderPaymentProofs -------------------------
(***************************************************************************)
(* Proofs about OrderPayment, for any number of users, orders, plans,       *)
(* payments and goroutines, any prices and durations, and any clock.        *)
(***************************************************************************)
EXTENDS OrderPayment, SumLemmas, TLAPS

(***************************************************************************)
(* The three ways to pay are one step, PayAndApplyPlan or its replay, with  *)
(* a payment number and a method that are not empty, the method being       *)
(* "balance" exactly when the wallet pays.                                  *)
(***************************************************************************)
PayStep ==
    \E w \in Workers, o \in Orders, n \in PaymentNos \ {"none"}, m \in Methods \ {"none"}, b \in BOOLEAN :
        (b <=> m = "balance") /\ Idle(w) /\ PayAndApplyPlan(w, o, n, m, b)

ReplayStep ==
    \E w \in Workers, o \in Orders, n \in PaymentNos, b \in BOOLEAN :
        Idle(w) /\ ReplayPayment(w, o, n, b)

\* Every way to pay is one of the two
LEMMA PayForms ==
    ASSUME NEW w \in Requests, NEW o \in Orders
    PROVE  /\ \A n \in Payments : Pay(w, o, n, "gateway", FALSE) => PayStep \/ ReplayStep
           /\ Pay(w, o, "balance", "balance", TRUE) => PayStep \/ ReplayStep
           /\ Pay(w, o, "admin", "manual", FALSE) => PayStep \/ ReplayStep
<1>1. w \in Workers
  BY DEF Workers
<1>2. ASSUME NEW n \in PaymentNos \ {"none"}, NEW m \in Methods \ {"none"}, NEW b \in BOOLEAN,
             b <=> m = "balance", Pay(w, o, n, m, b)
      PROVE  PayStep \/ ReplayStep
  BY <1>1, <1>2 DEF Pay, PayStep, ReplayStep
<1>3. \A n \in Payments : n \in PaymentNos \ {"none"}
  BY OrderAssumption DEF PaymentNos
<1>4. "balance" \in PaymentNos \ {"none"} /\ "admin" \in PaymentNos \ {"none"}
  BY DEF PaymentNos
<1>5. {"gateway", "balance", "manual"} \subseteq Methods \ {"none"}
  BY DEF Methods
<1> QED
  BY <1>2, <1>3, <1>4, <1>5

\* The steps of Next, one disjunct per handler
LEMMA NextForms ==
    ASSUME TypeOK, Next
    PROVE  \/ \E o \in Orders, u \in Users, p \in Plans : Create(o, u, p)
           \/ \E o \in Orders, n \in Payments : GatewayCharge(o, n)
           \/ PayStep
           \/ ReplayStep
           \/ \E w \in Workers : MarkConverted(w)
           \/ \E w \in Workers : TrialLookupFails(w)
           \/ \E w \in Workers : AfterPlanApplied(w)
           \/ \E w \in Workers : MarkFulfillmentSynced(w)
           \/ \E w \in Workers : CompleteBalancePayment(w)
           \/ \E w \in Workers : SyncFails(w)
           \/ ListForRetry
           \/ RetryNext
           \/ Restart
           \/ \E o \in Orders : Cancel(o)
           \/ \E o \in Orders : Complete(o)
           \/ \E o \in Orders : \E amount \in 1..orders[o].pay : RefundToBalance(o, amount)
           \/ \E u \in Users, amount \in Adjustments : AdjustBalance(u, amount)
           \/ \E p \in Plans, state \in PlanStates : SetPlan(p, state)
           \/ Tick
<1>1. (\E w \in Requests, n \in Payments : HandleCallback(w, n)) => PayStep \/ ReplayStep
  <2> SUFFICES ASSUME NEW w \in Requests, NEW n \in Payments, HandleCallback(w, n)
               PROVE  PayStep \/ ReplayStep
    OBVIOUS
  <2>1. charges[n] \in Orders
    BY DEF HandleCallback, TypeOK
  <2> QED
    BY <2>1, PayForms DEF HandleCallback
<1>2. (\E w \in Requests, o \in Orders : CreateBalancePayment(w, o)) => PayStep \/ ReplayStep
  BY PayForms DEF CreateBalancePayment
<1>3. (\E w \in Requests, o \in Orders : AdminPay(w, o)) => PayStep \/ ReplayStep
  BY PayForms DEF AdminPay
<1>4. (\E o \in Orders : ExpirePending(o)) => \E o \in Orders : Cancel(o)
  BY DEF ExpirePending
<1>5. (\E w \in Workers : Sync(w)) =>
         \/ \E w \in Workers : MarkConverted(w)
         \/ \E w \in Workers : TrialLookupFails(w)
         \/ \E w \in Workers : AfterPlanApplied(w)
         \/ \E w \in Workers : MarkFulfillmentSynced(w)
         \/ \E w \in Workers : CompleteBalancePayment(w)
  BY DEF Sync
<1> QED
  BY <1>1, <1>2, <1>3, <1>4, <1>5, Zenon DEF Next

-----------------------------------------------------------------------------
(***************************************************************************)
(* Type correctness.                                                        *)
(***************************************************************************)
LEMMA TypeInit == Init => TypeOK
  BY OrderAssumption, WalletAssumption
  DEF Init, TypeOK, WalletInit, WalletTypeOK, NoOrder, OrderRecord, Statuses, PaymentNos,
      Methods, NoJob, Job, Steps

\* A guarded credit leaves every balance between zero and the largest value
LEMMA CreditType ==
    ASSUME WalletTypeOK, NEW u \in Users, NEW a \in Int, CreditAtomic(u, a)
    PROVE  WalletTypeOK'
  BY WalletAssumption DEF WalletTypeOK, CreditAtomic

\* A guarded debit leaves every balance between zero and the largest value
LEMMA DebitType ==
    ASSUME WalletTypeOK, NEW u \in Users, NEW a \in Int, DebitAtomic(u, a)
    PROVE  WalletTypeOK'
  BY WalletAssumption DEF WalletTypeOK, DebitAtomic

\* A goroutine that enters a sync of an order is well typed
LEMMA JobType ==
    ASSUME TypeOK, NEW w \in Workers, NEW o \in Orders, NEW b \in BOOLEAN, StartSync(w, o, b)
    PROVE  /\ jobs' \in [Workers -> Job]
           /\ \A x \in Workers : jobs'[x].step # "idle" => jobs'[x].order \in Orders
  BY DEF TypeOK, StartSync, FirstStep, Job, Steps

\* A payment leaves a row of the orders table well typed
LEMMA PaidRow ==
    ASSUME NEW r \in OrderRecord, NEW n \in PaymentNos, NEW m \in Methods
    PROVE  [r EXCEPT !.status = "paid", !.paymentNo = n, !.method = m, !.pending = TRUE] \in OrderRecord
  BY DEF OrderRecord, Statuses

\* A refund leaves a row well typed
LEMMA RefundedRow ==
    ASSUME NEW r \in OrderRecord, NEW a \in Nat
    PROVE  [r EXCEPT !.status = "refunded", !.refunded = a, !.pending = FALSE] \in OrderRecord
  BY DEF OrderRecord, Statuses

\* Clearing the flag leaves a row well typed
LEMMA SyncedRow ==
    ASSUME NEW r \in OrderRecord
    PROVE  [r EXCEPT !.pending = FALSE] \in OrderRecord
  BY DEF OrderRecord

\* A completion leaves a row well typed
LEMMA CompletedRow ==
    ASSUME NEW r \in OrderRecord
    PROVE  [r EXCEPT !.status = IF @ = "paid" THEN "completed" ELSE @] \in OrderRecord
  BY DEF OrderRecord, Statuses

\* Every step keeps the types: one case per action
LEMMA TypeStep == TypeOK /\ [Next]_vars => TypeOK'
<1> SUFFICES ASSUME TypeOK, [Next]_vars PROVE TypeOK'
  OBVIOUS
<1> USE DEF TypeOK
<1>1. ASSUME NEW o \in Orders, NEW u \in Users, NEW p \in Plans, Create(o, u, p)
      PROVE  TypeOK'
  <2>1. now + OrderExpiration \in Nat /\ Price[p] \in Nat
    BY OrderAssumption
  <2>2. [NoOrder EXCEPT !.status = "pending", !.user = u, !.plan = p, !.pay = Price[p],
                        !.expiredAt = now + OrderExpiration] \in OrderRecord
    BY <2>1 DEF NoOrder, OrderRecord, Statuses, PaymentNos, Methods
  <2> QED
    BY <1>1, <2>2 DEF Create, NoOrder, walletVars, syncVars, WalletTypeOK
<1>2. ASSUME NEW o \in Orders, NEW n \in Payments, GatewayCharge(o, n)
      PROVE  TypeOK'
  BY <1>2 DEF GatewayCharge, walletVars, orderVars, syncVars, WalletTypeOK
<1>3. ASSUME PayStep PROVE TypeOK'
  <2>1. PICK w \in Workers, o \in Orders, n \in PaymentNos \ {"none"}, m \in Methods \ {"none"},
             b \in BOOLEAN : PayAndApplyPlan(w, o, n, m, b)
    BY <1>3 DEF PayStep
  <2>2. orders[o].status = "pending" /\ orders[o].user \in Users /\ orders[o].plan \in Plans
        /\ orders[o].pay \in Nat
    BY <2>1 DEF PayAndApplyPlan, Payable, OrderRecord
  <2>3. WalletTypeOK'
    BY <2>1, <2>2, DebitType DEF PayAndApplyPlan, WalletTypeOK, walletVars
  <2>4. orders' \in [Orders -> OrderRecord]
        /\ \A x \in Orders : orders'[x].status # "absent" =>
              orders'[x].user \in Users /\ orders'[x].plan \in Plans
    <3>1. [orders[o] EXCEPT !.status = "paid", !.paymentNo = n, !.method = m, !.pending = TRUE]
             \in OrderRecord
      BY PaidRow
    <3> QED
      BY <2>1, <2>2, <3>1 DEF PayAndApplyPlan, OrderRecord
  <2>5. NewExpiry(orders[o].user, orders[o].plan) \in Nat
    BY <2>2, OrderAssumption DEF NewExpiry
  <2>6. expiresAt' \in [Users -> Nat] /\ applied' \in [Orders -> Nat] /\ debited' \in [Orders -> Nat]
    BY <2>1, <2>2, <2>5 DEF PayAndApplyPlan
  <2> QED
    BY <2>1, <2>3, <2>4, <2>6, JobType DEF PayAndApplyPlan
<1>4. ASSUME ReplayStep PROVE TypeOK'
  <2>1. PICK w \in Workers, o \in Orders, n \in PaymentNos, b \in BOOLEAN :
             ReplayPayment(w, o, n, b)
    BY <1>4 DEF ReplayStep
  <2>2. /\ jobs' \in [Workers -> Job]
        /\ \A x \in Workers : jobs'[x].step # "idle" => jobs'[x].order \in Orders
    <3>1. CASE StartSync(w, o, b)
      BY <3>1, JobType
    <3>2. CASE jobs' = [jobs EXCEPT ![w] = [step |-> "complete", order |-> o, complete |-> TRUE]]
      BY <3>2 DEF Job, Steps
    <3> QED
      BY <2>1, <3>1, <3>2 DEF ReplayPayment
  <2> QED
    BY <2>1, <2>2 DEF ReplayPayment, walletVars, orderVars, WalletTypeOK
<1>5. ASSUME NEW w \in Workers, MarkConverted(w) PROVE TypeOK'
  BY <1>5 DEF MarkConverted, walletVars, orderVars, WalletTypeOK, Job, Steps
<1>20. ASSUME NEW w \in Workers, TrialLookupFails(w) PROVE TypeOK'
  <2>1. unread' \in SUBSET Orders
    BY <1>20 DEF TrialLookupFails
  <2> QED
    BY <1>20, <2>1 DEF TrialLookupFails, walletVars, orderVars, WalletTypeOK, Job, Steps
<1>6. ASSUME NEW w \in Workers, AfterPlanApplied(w) PROVE TypeOK'
  BY <1>6 DEF AfterPlanApplied, walletVars, orderVars, WalletTypeOK, Job, Steps
<1>7. ASSUME NEW w \in Workers, MarkFulfillmentSynced(w) PROVE TypeOK'
  <2>1. orders' \in [Orders -> OrderRecord]
        /\ \A x \in Orders : orders'[x].status = orders[x].status
              /\ orders'[x].user = orders[x].user /\ orders'[x].plan = orders[x].plan
    <3>1. jobs[w].order \in Orders
      BY <1>7 DEF MarkFulfillmentSynced
    <3>2. [orders[jobs[w].order] EXCEPT !.pending = FALSE] \in OrderRecord
      BY <3>1, SyncedRow
    <3> QED
      BY <1>7, <3>1, <3>2 DEF MarkFulfillmentSynced, OrderRecord
  <2>2. /\ jobs' \in [Workers -> Job]
        /\ \A x \in Workers : jobs'[x].step # "idle" => jobs'[x].order \in Orders
    BY <1>7 DEF MarkFulfillmentSynced, Job, Steps, NoJob
  <2> QED
    BY <1>7, <2>1, <2>2 DEF MarkFulfillmentSynced, walletVars, WalletTypeOK
<1>8. ASSUME NEW w \in Workers, CompleteBalancePayment(w) PROVE TypeOK'
  <2>1. orders' \in [Orders -> OrderRecord]
        /\ \A x \in Orders : orders'[x].status # "absent" =>
              orders'[x].user \in Users /\ orders'[x].plan \in Plans
    <3>1. jobs[w].order \in Orders
      BY <1>8 DEF CompleteBalancePayment
    <3>2. [orders[jobs[w].order] EXCEPT !.status = IF @ = "paid" THEN "completed" ELSE @]
             \in OrderRecord
      <4>1. orders[jobs[w].order] \in OrderRecord
        BY <3>1
      <4> QED
        BY <4>1, CompletedRow
    <3> QED
      BY <1>8, <3>1, <3>2 DEF CompleteBalancePayment, OrderRecord
  <2>2. /\ jobs' \in [Workers -> Job]
        /\ \A x \in Workers : jobs'[x].step # "idle" => jobs'[x].order \in Orders
    BY <1>8 DEF CompleteBalancePayment, Job, Steps, NoJob
  <2> QED
    BY <1>8, <2>1, <2>2 DEF CompleteBalancePayment, walletVars, WalletTypeOK
<1>9. ASSUME NEW w \in Workers, SyncFails(w) PROVE TypeOK'
  BY <1>9 DEF SyncFails, walletVars, orderVars, WalletTypeOK, Job, Steps, NoJob
<1>10. ASSUME ListForRetry PROVE TypeOK'
  BY <1>10 DEF ListForRetry, ListPendingFulfillments, PendingFulfillments, walletVars,
     orderVars, WalletTypeOK
<1>11. ASSUME RetryNext PROVE TypeOK'
  <2>1. PICK o \in batch : batch' = batch \ {o} /\ StartSync(Scheduler, o, FALSE)
    BY <1>11 DEF RetryNext
  <2>2. Scheduler \in Workers /\ o \in Orders
    BY DEF Workers
  <2> QED
    BY <1>11, <2>1, <2>2, JobType DEF RetryNext, walletVars, orderVars, WalletTypeOK
<1>12. ASSUME Restart PROVE TypeOK'
  BY <1>12 DEF Restart, walletVars, orderVars, WalletTypeOK, Job, Steps, NoJob
<1>13. ASSUME NEW o \in Orders, Cancel(o) PROVE TypeOK'
  BY <1>13 DEF Cancel, AllowedFrom, OrderRecord, Statuses, walletVars, syncVars, WalletTypeOK
<1>14. ASSUME NEW o \in Orders, Complete(o) PROVE TypeOK'
  BY <1>14 DEF Complete, AllowedFrom, OrderRecord, Statuses, walletVars, syncVars, WalletTypeOK
<1>15. ASSUME NEW o \in Orders, NEW amount \in 1..orders[o].pay, RefundToBalance(o, amount)
       PROVE  TypeOK'
  <2>1. orders[o].user \in Users /\ orders[o].pay \in Nat
    BY <1>15 DEF RefundToBalance, Refundable, Settled, OrderRecord
  <2>2. WalletTypeOK'
    BY <1>15, <2>1, CreditType DEF RefundToBalance
  <2>3. orders' \in [Orders -> OrderRecord]
        /\ \A x \in Orders : orders'[x].status # "absent" =>
              orders'[x].user \in Users /\ orders'[x].plan \in Plans
    <3>1. [orders[o] EXCEPT !.status = "refunded", !.refunded = amount, !.pending = FALSE]
             \in OrderRecord
      <4>1. amount \in Nat
        BY <2>1
      <4> QED
        BY <4>1, RefundedRow
    <3> QED
      BY <1>15, <2>1, <3>1 DEF RefundToBalance, Refundable, Settled, OrderRecord
  <2>4. credited' \in [Orders -> Nat]
    BY <1>15, <2>1 DEF RefundToBalance
  <2> QED
    BY <1>15, <2>2, <2>3, <2>4 DEF RefundToBalance, syncVars
<1>16. ASSUME NEW u \in Users, NEW amount \in Adjustments, AdjustBalance(u, amount)
       PROVE  TypeOK'
  <2>1. amount \in Int /\ -amount \in Int
    BY OrderAssumption
  <2>2. WalletTypeOK'
    BY <1>16, <2>1, CreditType, DebitType DEF AdjustBalance, Adjust
  <2> QED
    BY <1>16, <2>1, <2>2 DEF AdjustBalance, orderVars, syncVars
<1>17. ASSUME NEW p \in Plans, NEW state \in PlanStates, SetPlan(p, state) PROVE TypeOK'
  BY <1>17, OrderAssumption DEF SetPlan, walletVars, orderVars, syncVars, WalletTypeOK
<1>18. ASSUME Tick PROVE TypeOK'
  BY <1>18 DEF Tick, walletVars, orderVars, syncVars, WalletTypeOK
<1>19. CASE UNCHANGED vars
  BY <1>19 DEF vars, walletVars, orderVars, syncVars, WalletTypeOK
<1> QED
  <2>1. CASE Next
    <3> HIDE DEF TypeOK
    <3> QED
      BY <2>1, NextForms, <1>1, <1>2, <1>3, <1>4, <1>5, <1>6, <1>7, <1>8, <1>9, <1>10, <1>11,
         <1>12, <1>13, <1>14, <1>15, <1>16, <1>17, <1>18, <1>20
  <2> QED
    BY <2>1, <1>19

(***************************************************************************)
(* Every reachable state is well typed; in particular no sequence of        *)
(* payments, refunds and adjustments overdraws a wallet or overflows the    *)
(* balance column.                                                          *)
(***************************************************************************)
THEOREM TypeCorrect == Spec => []TypeOK
  BY TypeInit, TypeStep, PTL DEF Spec

-----------------------------------------------------------------------------
(***************************************************************************)
(* The books of an order.                                                   *)
(***************************************************************************)
LEMMA BooksInit == Init => Books
  BY DEF Init, Books, NoOrder, Unpaid

\* Every step keeps the books of every order, whoever pays, refunds or closes it
LEMMA BooksStep == TypeOK /\ Books /\ [Next]_vars => Books'
<1> SUFFICES ASSUME TypeOK, Books, [Next]_vars PROVE Books'
  OBVIOUS
<1>1. ASSUME NEW o \in Orders, NEW u \in Users, NEW p \in Plans, Create(o, u, p)
      PROVE  Books'
  BY <1>1 DEF Create, Books, TypeOK, NoOrder, Unpaid
<1>2. ASSUME PayStep PROVE Books'
  <2>1. PICK w \in Workers, o \in Orders, n \in PaymentNos \ {"none"},
             m \in Methods \ {"none"}, b \in BOOLEAN :
             (b <=> m = "balance") /\ PayAndApplyPlan(w, o, n, m, b)
    BY <1>2 DEF PayStep
  <2>2. /\ orders[o].status = "pending"
        /\ orders' = [orders EXCEPT ![o] = [@ EXCEPT !.status = "paid", !.paymentNo = n,
                                                     !.method = m, !.pending = TRUE]]
        /\ applied' = [applied EXCEPT ![o] = @ + 1]
        /\ credited' = credited
    BY <2>1 DEF PayAndApplyPlan, Payable
  <2>3. debited' = [debited EXCEPT ![o] = IF m = "balance" THEN @ + orders[o].pay ELSE @]
    BY <2>1 DEF PayAndApplyPlan, TypeOK
  <2>4. applied[o] = 0 /\ debited[o] = 0 /\ credited[o] = 0 /\ orders[o].refunded = 0
    BY <2>2 DEF Books, Unpaid
  <2>5. orders[o].pay \in Nat
    BY DEF TypeOK, OrderRecord
  <2> QED
    BY <2>2, <2>3, <2>4, <2>5 DEF Books, TypeOK, Unpaid, OrderRecord
<1>3. ASSUME NEW w \in Workers, MarkFulfillmentSynced(w) PROVE Books'
  BY <1>3 DEF MarkFulfillmentSynced, Books, TypeOK, OrderRecord
<1>4. ASSUME NEW w \in Workers, CompleteBalancePayment(w) PROVE Books'
  BY <1>4 DEF CompleteBalancePayment, Books, TypeOK, OrderRecord, Unpaid
<1>5. ASSUME NEW o \in Orders, Cancel(o) PROVE Books'
  BY <1>5 DEF Cancel, AllowedFrom, Books, TypeOK, OrderRecord, Unpaid
<1>6. ASSUME NEW o \in Orders, Complete(o) PROVE Books'
  BY <1>6 DEF Complete, AllowedFrom, Books, TypeOK, OrderRecord, Unpaid
<1>7. ASSUME NEW o \in Orders, NEW amount \in 1..orders[o].pay, RefundToBalance(o, amount)
      PROVE  Books'
  <2>1. orders[o].status \in {"paid", "completed"} /\ orders[o].pay \in Nat
    BY <1>7 DEF RefundToBalance, Refundable, Settled, TypeOK, OrderRecord
  <2>2. credited[o] = 0
    BY <2>1 DEF Books
  <2> QED
    BY <1>7, <2>1, <2>2 DEF RefundToBalance, Books, TypeOK, OrderRecord, Unpaid
<1>8. CASE UNCHANGED orderVars
  BY <1>8 DEF orderVars, Books
<1>9. CASE Next
  <2>1. \/ \E o \in Orders, u \in Users, p \in Plans : Create(o, u, p)
        \/ PayStep
        \/ \E w \in Workers : MarkFulfillmentSynced(w)
        \/ \E w \in Workers : CompleteBalancePayment(w)
        \/ \E o \in Orders : Cancel(o)
        \/ \E o \in Orders : Complete(o)
        \/ \E o \in Orders : \E amount \in 1..orders[o].pay : RefundToBalance(o, amount)
        \/ UNCHANGED orderVars
    BY <1>9, NextForms, Zenon
    DEF GatewayCharge, ReplayStep, ReplayPayment, MarkConverted, TrialLookupFails,
        AfterPlanApplied, SyncFails,
        ListForRetry, RetryNext, Restart, AdjustBalance, SetPlan, Tick
  <2> QED
    BY <2>1, <1>1, <1>2, <1>3, <1>4, <1>5, <1>6, <1>7, <1>8
<1> QED
  BY <1>8, <1>9 DEF vars

-----------------------------------------------------------------------------
(***************************************************************************)
(* Fulfilment.  No step takes back what a goroutine that syncs an order     *)
(* relies on: that the order was paid, whose it is, that its hook has run   *)
(* and that its user is off trial.                                          *)
(***************************************************************************)
LEMMA PaidStays ==
    ASSUME TypeOK, [Next]_vars, NEW o \in Orders, orders[o].status \notin Unpaid
    PROVE  /\ orders'[o].status \notin Unpaid
           /\ orders'[o].user = orders[o].user
           /\ o \in provisioned => o \in provisioned'
<1> USE DEF TypeOK, Unpaid, OrderRecord
<1>1. CASE \E x \in Orders, u \in Users, p \in Plans : Create(x, u, p)
  BY <1>1 DEF Create, syncVars
<1>2. CASE PayStep
  BY <1>2 DEF PayStep, PayAndApplyPlan, Payable
<1>3. CASE \E w \in Workers : AfterPlanApplied(w)
  BY <1>3 DEF AfterPlanApplied, orderVars
<1>4. CASE \E w \in Workers : MarkFulfillmentSynced(w)
  BY <1>4 DEF MarkFulfillmentSynced
<1>5. CASE \E w \in Workers : CompleteBalancePayment(w)
  BY <1>5 DEF CompleteBalancePayment
<1>6. CASE \E x \in Orders : Cancel(x)
  BY <1>6 DEF Cancel, AllowedFrom, syncVars
<1>7. CASE \E x \in Orders : Complete(x)
  BY <1>7 DEF Complete, syncVars
<1>8. CASE \E x \in Orders : \E amount \in 1..orders[x].pay : RefundToBalance(x, amount)
  BY <1>8 DEF RefundToBalance, syncVars
<1>9. CASE UNCHANGED <<orders, provisioned>>
  BY <1>9
<1> QED
  <2> HIDE DEF TypeOK, Unpaid, OrderRecord
  <2>1. CASE Next
    <3>1. \/ \E x \in Orders, u \in Users, p \in Plans : Create(x, u, p)
          \/ PayStep
          \/ \E w \in Workers : AfterPlanApplied(w)
          \/ \E w \in Workers : MarkFulfillmentSynced(w)
          \/ \E w \in Workers : CompleteBalancePayment(w)
          \/ \E x \in Orders : Cancel(x)
          \/ \E x \in Orders : Complete(x)
          \/ \E x \in Orders : \E amount \in 1..orders[x].pay : RefundToBalance(x, amount)
          \/ UNCHANGED <<orders, provisioned>>
      BY <2>1, NextForms, Zenon
      DEF GatewayCharge, ReplayStep, ReplayPayment, MarkConverted, TrialLookupFails, SyncFails,
          ListForRetry, RetryNext, Restart, AdjustBalance, SetPlan, Tick, orderVars, syncVars
    <3> QED
      BY <3>1, <1>1, <1>2, <1>3, <1>4, <1>5, <1>6, <1>7, <1>8, <1>9
  <2> QED
    BY <2>1, <1>9 DEF vars, orderVars, syncVars

\* A trial that has ended does not come back
LEMMA TrialStays ==
    ASSUME TypeOK, [Next]_vars, NEW u \in Users, trial[u] # "active"
    PROVE  trial'[u] # "active"
<1>1. CASE \E w \in Workers : MarkConverted(w)
  BY <1>1 DEF MarkConverted, TypeOK
<1>2. CASE UNCHANGED trial
  BY <1>2
<1>3. CASE Next
  <2>1. (\E w \in Workers : MarkConverted(w)) \/ UNCHANGED trial
    BY <1>3, NextForms, Zenon
    DEF Create, GatewayCharge, PayStep, PayAndApplyPlan, ReplayStep, ReplayPayment,
        TrialLookupFails, AfterPlanApplied, MarkFulfillmentSynced, CompleteBalancePayment, SyncFails, ListForRetry,
        RetryNext, Restart, Cancel, Complete, RefundToBalance, AdjustBalance, SetPlan, Tick,
        syncVars
  <2> QED
    BY <2>1, <1>1, <1>2
<1> QED
  BY <1>2, <1>3 DEF vars, syncVars

\* What is known of the trial of a paid order stays so
LEMMA EndedStays ==
    ASSUME TypeOK, [Next]_vars, NEW o \in Orders, orders[o].status \notin Unpaid, TrialEnded(o)
    PROVE  TrialEnded(o)'
<1>1. orders[o].user \in Users
  BY DEF TypeOK, Unpaid
<1>2. orders'[o].user = orders[o].user
  BY PaidStays
<1>3. trial'[orders[o].user] # "active" \/ unread' = unread \/ o \in unread'
  <2>1. CASE Next
    <3>1. \/ \E w \in Workers : MarkConverted(w)
          \/ \E w \in Workers : TrialLookupFails(w)
          \/ UNCHANGED unread
      BY <2>1, NextForms, Zenon
      DEF Create, GatewayCharge, PayStep, PayAndApplyPlan, ReplayStep, ReplayPayment,
          AfterPlanApplied, MarkFulfillmentSynced, CompleteBalancePayment, SyncFails,
          ListForRetry, RetryNext, Restart, Cancel, Complete, RefundToBalance,
          AdjustBalance, SetPlan, Tick, syncVars
    <3>2. ASSUME NEW w \in Workers, MarkConverted(w)
          PROVE  trial'[orders[o].user] # "active" \/ o \in unread'
      BY <1>1, <3>2, TrialStays DEF MarkConverted, TrialEnded, TypeOK
    <3>3. ASSUME NEW w \in Workers, TrialLookupFails(w)
          PROVE  trial'[orders[o].user] # "active" \/ o \in unread'
      BY <3>3 DEF TrialLookupFails, TrialEnded
    <3> QED
      BY <3>1, <3>2, <3>3
  <2> QED
    BY <2>1 DEF vars, syncVars
<1> QED
  BY <1>1, <1>2, <1>3, TrialStays DEF TrialEnded

JobBooks(w) ==
    jobs[w].step # "idle" =>
        LET o == jobs[w].order IN
        /\ orders[o].status \notin Unpaid
        /\ jobs[w].step \in {"hook", "mark"} => TrialEnded(o)
        /\ jobs[w].step = "mark" => o \in provisioned

\* At first nobody syncs and nothing is listed
LEMMA SyncInit == Init => SyncBooks /\ SyncedMeansProvisioned
  BY DEF Init, SyncBooks, SyncedMeansProvisioned, NoOrder, NoJob, Settled

\* What holds of a goroutine holds of it after any step that leaves it alone
LEMMA JobStays ==
    ASSUME TypeOK, SyncBooks, [Next]_vars, NEW w \in Workers, jobs'[w] = jobs[w]
    PROVE  JobBooks(w)'
<1> SUFFICES ASSUME jobs[w].step # "idle"
             PROVE  LET o == jobs[w].order IN
                    /\ orders'[o].status \notin Unpaid
                    /\ jobs[w].step \in {"hook", "mark"} => TrialEnded(o)'
                    /\ jobs[w].step = "mark" => o \in provisioned'
  BY DEF JobBooks
<1> DEFINE o == jobs[w].order
<1>1. o \in Orders /\ orders[o].status \notin Unpaid
  BY DEF TypeOK, SyncBooks
<1>3. /\ orders'[o].status \notin Unpaid
      /\ o \in provisioned => o \in provisioned'
  BY <1>1, PaidStays
<1>4. jobs[w].step \in {"hook", "mark"} => TrialEnded(o)
  BY DEF SyncBooks
<1>5. jobs[w].step = "mark" => o \in provisioned
  BY DEF SyncBooks
<1> QED
  BY <1>1, <1>3, <1>4, <1>5, EndedStays

\* What the scheduler has listed stays paid
LEMMA BatchStays ==
    ASSUME TypeOK, SyncBooks, [Next]_vars, NEW o \in batch
    PROVE  orders'[o].status \notin Unpaid
  BY PaidStays DEF TypeOK, SyncBooks

\* Every step keeps what is known of every goroutine that syncs
LEMMA JobsStep == TypeOK /\ SyncBooks /\ [Next]_vars => \A w \in Workers : JobBooks(w)'
<1> SUFFICES ASSUME TypeOK, SyncBooks, [Next]_vars, NEW x \in Workers PROVE JobBooks(x)'
  OBVIOUS
<1>1. CASE jobs'[x] = jobs[x]
  BY <1>1, JobStays
<1>2. CASE jobs'[x].step = "idle"
  BY <1>2 DEF JobBooks
<1>3. ASSUME PayStep PROVE JobBooks(x)'
  <2>1. PICK w \in Workers, o \in Orders, n \in PaymentNos \ {"none"},
             m \in Methods \ {"none"}, b \in BOOLEAN : PayAndApplyPlan(w, o, n, m, b)
    BY <1>3 DEF PayStep
  <2>2. CASE x = w
    BY <2>1, <2>2 DEF PayAndApplyPlan, StartSync, FirstStep, JobBooks, TypeOK, Unpaid, OrderRecord
  <2>3. CASE x # w
    BY <2>1, <2>3, <1>1 DEF PayAndApplyPlan, StartSync, TypeOK
  <2> QED
    BY <2>2, <2>3
<1>4. ASSUME ReplayStep PROVE JobBooks(x)'
  <2>1. PICK w \in Workers, o \in Orders, n \in PaymentNos, b \in BOOLEAN :
             ReplayPayment(w, o, n, b)
    BY <1>4 DEF ReplayStep
  <2>2. CASE x = w
    BY <2>1, <2>2
    DEF ReplayPayment, StartSync, FirstStep, JobBooks, TypeOK, Unpaid, Settled, orderVars
  <2>3. CASE x # w
    BY <2>1, <2>3, <1>1 DEF ReplayPayment, StartSync, TypeOK
  <2> QED
    BY <2>2, <2>3
<1>5. ASSUME NEW w \in Workers, MarkConverted(w) PROVE JobBooks(x)'
  <2>1. CASE x = w
    <3> DEFINE o == jobs[w].order
    <3>1. o \in Orders /\ orders[o].status \notin Unpaid
      BY <1>5 DEF MarkConverted, TypeOK, SyncBooks
    <3>2. orders[o].user \in Users
      BY <3>1 DEF TypeOK, Unpaid
    <3>3. trial'[orders[o].user] # "active"
      BY <1>5, <3>2 DEF MarkConverted, TypeOK
    <3>4. jobs'[x].step = "hook" /\ jobs'[x].order = o /\ orders' = orders
      BY <1>5, <2>1 DEF MarkConverted, TypeOK, Job, orderVars
    <3> QED
      BY <3>1, <3>3, <3>4 DEF JobBooks, TrialEnded
  <2>2. CASE x # w
    BY <1>5, <2>2, <1>1 DEF MarkConverted, TypeOK
  <2> QED
    BY <2>1, <2>2
<1>12. ASSUME NEW w \in Workers, TrialLookupFails(w) PROVE JobBooks(x)'
  <2>1. CASE x = w
    <3> DEFINE o == jobs[w].order
    <3>1. o \in Orders /\ orders[o].status \notin Unpaid
      BY <1>12 DEF TrialLookupFails, TypeOK, SyncBooks
    <3>2. /\ jobs'[x].step = "hook" /\ jobs'[x].order = o /\ orders' = orders
          /\ trial' = trial /\ (trial[orders[o].user] = "active" => o \in unread')
      BY <1>12, <2>1 DEF TrialLookupFails, TypeOK, Job, orderVars
    <3> QED
      BY <3>1, <3>2 DEF JobBooks, TrialEnded
  <2>2. CASE x # w
    BY <1>12, <2>2, <1>1 DEF TrialLookupFails, TypeOK
  <2> QED
    BY <2>1, <2>2
<1>6. ASSUME NEW w \in Workers, AfterPlanApplied(w) PROVE JobBooks(x)'
  <2>1. CASE x = w
    <3> DEFINE o == jobs[w].order
    <3>1. orders[o].status \notin Unpaid /\ TrialEnded(o)
      BY <1>6 DEF AfterPlanApplied, SyncBooks
    <3>2. jobs'[x].step = "mark" /\ jobs'[x].order = o /\ orders' = orders /\ trial' = trial
          /\ unread' = unread /\ o \in provisioned'
      BY <1>6, <2>1 DEF AfterPlanApplied, TypeOK, Job, orderVars
    <3> QED
      BY <3>1, <3>2 DEF JobBooks, TrialEnded
  <2>2. CASE x # w
    BY <1>6, <2>2, <1>1 DEF AfterPlanApplied, TypeOK
  <2> QED
    BY <2>1, <2>2
<1>7. ASSUME NEW w \in Workers, MarkFulfillmentSynced(w) PROVE JobBooks(x)'
  <2>1. CASE x = w /\ jobs[w].complete
    <3> DEFINE o == jobs[w].order
    <3>1. o \in Orders /\ orders[o].status \notin Unpaid
      BY <1>7 DEF MarkFulfillmentSynced, TypeOK, SyncBooks
    <3>2. jobs'[x].step = "complete" /\ jobs'[x].order = o
      BY <1>7, <2>1 DEF MarkFulfillmentSynced, TypeOK, Job
    <3>3. orders'[o].status \notin Unpaid
      BY <3>1, PaidStays
    <3> QED
      BY <3>2, <3>3 DEF JobBooks
  <2>2. CASE x = w /\ ~jobs[w].complete
    BY <1>7, <2>2, <1>2 DEF MarkFulfillmentSynced, TypeOK, NoJob
  <2>3. CASE x # w
    BY <1>7, <2>3, <1>1 DEF MarkFulfillmentSynced, TypeOK
  <2> QED
    BY <2>1, <2>2, <2>3
<1>8. ASSUME NEW w \in Workers, CompleteBalancePayment(w) \/ SyncFails(w) PROVE JobBooks(x)'
  <2>1. jobs' = [jobs EXCEPT ![w] = NoJob]
    BY <1>8 DEF CompleteBalancePayment, SyncFails
  <2> QED
    BY <2>1, <1>1, <1>2 DEF TypeOK, NoJob
<1>9. ASSUME RetryNext PROVE JobBooks(x)'
  <2>1. PICK o \in batch : StartSync(Scheduler, o, FALSE)
    BY <1>9 DEF RetryNext
  <2>2. orders'[o].status \notin Unpaid
    BY BatchStays
  <2>3. CASE x = Scheduler
    BY <2>1, <2>2, <2>3 DEF StartSync, FirstStep, JobBooks, TypeOK
  <2>4. CASE x # Scheduler
    BY <2>1, <2>4, <1>1 DEF StartSync, TypeOK
  <2> QED
    BY <2>3, <2>4
<1>10. ASSUME Restart PROVE JobBooks(x)'
  BY <1>10, <1>2 DEF Restart, NoJob
<1>11. CASE Next
  <2>1. \/ PayStep
        \/ ReplayStep
        \/ \E w \in Workers : MarkConverted(w)
        \/ \E w \in Workers : TrialLookupFails(w)
        \/ \E w \in Workers : AfterPlanApplied(w)
        \/ \E w \in Workers : MarkFulfillmentSynced(w)
        \/ \E w \in Workers : CompleteBalancePayment(w)
        \/ \E w \in Workers : SyncFails(w)
        \/ RetryNext
        \/ Restart
        \/ UNCHANGED jobs
    BY <1>11, NextForms, Zenon
    DEF Create, GatewayCharge, ListForRetry, Cancel, Complete, RefundToBalance, AdjustBalance,
        SetPlan, Tick, syncVars
  <2> QED
    BY <2>1, <1>1, <1>3, <1>4, <1>5, <1>6, <1>7, <1>8, <1>9, <1>10, <1>12
<1> QED
  BY <1>1, <1>11 DEF vars, syncVars

\* Every step keeps what is known of the orders the scheduler has listed
LEMMA BatchStep == TypeOK /\ SyncBooks /\ [Next]_vars => \A o \in batch' : orders'[o].status \notin Unpaid
<1> SUFFICES ASSUME TypeOK, SyncBooks, [Next]_vars, NEW o \in batch'
             PROVE  orders'[o].status \notin Unpaid
  OBVIOUS
<1>1. CASE o \in batch
  BY <1>1, BatchStays
<1>2. CASE ListForRetry
  BY <1>2 DEF ListForRetry, ListPendingFulfillments, PendingFulfillments, Settled, Unpaid, orderVars
<1>3. CASE Next /\ ~ListForRetry
  <2>1. batch' \subseteq batch
    BY <1>3, NextForms
    DEF Create, GatewayCharge, PayStep, PayAndApplyPlan, ReplayStep, ReplayPayment, MarkConverted,
        TrialLookupFails, AfterPlanApplied, MarkFulfillmentSynced, CompleteBalancePayment, SyncFails,
        RetryNext, Restart, Cancel, Complete, RefundToBalance, AdjustBalance, SetPlan, Tick,
        syncVars
  <2> QED
    BY <2>1, <1>1
<1> QED
  BY <1>1, <1>2, <1>3 DEF vars, syncVars

\* The flag is cleared only behind the work: an order without it has had it done
LEMMA SyncedStep ==
    TypeOK /\ Books /\ SyncBooks /\ SyncedMeansProvisioned /\ [Next]_vars => SyncedMeansProvisioned'
<1> SUFFICES ASSUME TypeOK, Books, SyncBooks, SyncedMeansProvisioned, [Next]_vars,
                    NEW o \in Orders, orders'[o].status \in Settled, ~orders'[o].pending
             PROVE  o \in provisioned' /\ TrialEnded(o)'
  BY DEF SyncedMeansProvisioned
<1>1. CASE orders[o].status \notin Unpaid /\ o \in provisioned /\ TrialEnded(o)
  BY <1>1, PaidStays, EndedStays
<1>2. CASE orders[o].status \in Settled /\ ~orders[o].pending
  BY <1>1, <1>2 DEF SyncedMeansProvisioned, Settled, Unpaid
<1>3. ASSUME PayStep PROVE o \in provisioned' /\ TrialEnded(o)'
  <2>1. PICK w \in Workers, x \in Orders, n \in PaymentNos \ {"none"},
             m \in Methods \ {"none"}, b \in BOOLEAN : PayAndApplyPlan(w, x, n, m, b)
    BY <1>3 DEF PayStep
  <2>2. o # x
    BY <2>1 DEF PayAndApplyPlan, TypeOK, OrderRecord
  <2>3. orders'[o] = orders[o]
    BY <2>1, <2>2 DEF PayAndApplyPlan, TypeOK
  <2> QED
    BY <2>3, <1>2
<1>4. ASSUME NEW w \in Workers, MarkFulfillmentSynced(w)
      PROVE  o \in provisioned' /\ TrialEnded(o)'
  <2>1. CASE o = jobs[w].order
    BY <1>1, <1>4, <2>1 DEF MarkFulfillmentSynced, SyncBooks
  <2>2. CASE o # jobs[w].order
    BY <1>2, <1>4, <2>2 DEF MarkFulfillmentSynced, TypeOK
  <2> QED
    BY <2>1, <2>2
<1>5. ASSUME NEW w \in Workers, CompleteBalancePayment(w)
      PROVE  o \in provisioned' /\ TrialEnded(o)'
  <2>1. orders'[o].pending = orders[o].pending
        /\ (orders[o].status \notin Settled => orders'[o].status = orders[o].status)
    BY <1>5 DEF CompleteBalancePayment, TypeOK, OrderRecord, Settled
  <2> QED
    BY <2>1, <1>2
<1>6. ASSUME NEW x \in Orders, Cancel(x)
      PROVE  o \in provisioned' /\ TrialEnded(o)'
  <2>1. orders'[o] = orders[o]
    BY <1>6 DEF Cancel, TypeOK, OrderRecord, Settled
  <2> QED
    BY <2>1, <1>2
<1>7. ASSUME NEW x \in Orders, Complete(x)
      PROVE  o \in provisioned' /\ TrialEnded(o)'
  <2>1. orders'[o].pending = orders[o].pending
        /\ (orders[o].status \notin Settled => orders'[o].status = orders[o].status)
    BY <1>7 DEF Complete, AllowedFrom, TypeOK, OrderRecord, Settled
  <2> QED
    BY <2>1, <1>2
<1>8. ASSUME NEW x \in Orders, NEW a \in 1..orders[x].pay, RefundToBalance(x, a)
      PROVE  o \in provisioned' /\ TrialEnded(o)'
  <2>1. orders'[o] = orders[o]
    BY <1>8 DEF RefundToBalance, TypeOK, OrderRecord, Settled
  <2> QED
    BY <2>1, <1>2
<1>9. ASSUME NEW x \in Orders, NEW u \in Users, NEW p \in Plans, Create(x, u, p)
      PROVE  o \in provisioned' /\ TrialEnded(o)'
  <2>1. orders'[o] = orders[o]
    BY <1>9 DEF Create, NoOrder, TypeOK, Settled
  <2> QED
    BY <2>1, <1>2
<1>10. CASE UNCHANGED orders
  BY <1>2, <1>10
<1>11. CASE Next
  <2>1. \/ \E x \in Orders, u \in Users, p \in Plans : Create(x, u, p)
        \/ PayStep
        \/ \E w \in Workers : MarkFulfillmentSynced(w)
        \/ \E w \in Workers : CompleteBalancePayment(w)
        \/ \E x \in Orders : Cancel(x)
        \/ \E x \in Orders : Complete(x)
        \/ \E x \in Orders : \E a \in 1..orders[x].pay : RefundToBalance(x, a)
        \/ UNCHANGED orders
    BY <1>11, NextForms, Zenon
    DEF GatewayCharge, ReplayStep, ReplayPayment, MarkConverted, TrialLookupFails,
        AfterPlanApplied, SyncFails,
        ListForRetry, RetryNext, Restart, AdjustBalance, SetPlan, Tick, orderVars
  <2> QED
    BY <2>1, <1>3, <1>4, <1>5, <1>6, <1>7, <1>8, <1>9, <1>10
<1> QED
  BY <1>10, <1>11 DEF vars, orderVars

-----------------------------------------------------------------------------
(***************************************************************************)
(* The inductive invariant: types, the books of every order, and what every *)
(* goroutine that syncs an order relies on.                                 *)
(***************************************************************************)
LEMMA Inductive == Spec => []IInv
<1>1. Init => IInv
  BY TypeInit, BooksInit, SyncInit DEF IInv
<1>2. IInv /\ [Next]_vars => IInv'
  <2> SUFFICES ASSUME IInv, [Next]_vars PROVE IInv'
    OBVIOUS
  <2>1. TypeOK' /\ Books' /\ SyncedMeansProvisioned'
    BY TypeStep, BooksStep, SyncedStep DEF IInv
  <2>2. SyncBooks'
    BY JobsStep, BatchStep DEF IInv, SyncBooks, JobBooks
  <2> QED
    BY <2>1, <2>2 DEF IInv
<1> QED
  BY <1>1, <1>2, PTL DEF Spec

(***************************************************************************)
(* Whatever callbacks, wallet payments and administrators race for an       *)
(* order, PayAndApplyPlan applies its plan and debits its price once.       *)
(***************************************************************************)
THEOREM PaymentExactlyOnce == Spec => []PaidOnce
<1>1. IInv => PaidOnce
  BY DEF IInv, TypeOK, OrderRecord, Statuses, Books, Unpaid, Settled, PaidOnce
<1> QED
  BY <1>1, Inductive, PTL

(***************************************************************************)
(* RefundToBalance is a terminal operation: whatever amounts administrators *)
(* ask for and however often, an order gives back what its row records, and *)
(* never more than was paid.                                                *)
(***************************************************************************)
THEOREM RefundAtMostOnce == Spec => []RefundedOnce
<1>1. IInv => RefundedOnce
  BY DEF IInv, TypeOK, OrderRecord, Books, RefundedOnce
<1> QED
  BY <1>1, Inductive, PTL

(***************************************************************************)
(* fulfillment_pending is cleared only behind work that was done, with any  *)
(* number of goroutines in syncFulfillment, failing or cut off anywhere;    *)
(* only a sync that could not read the trial leaves one running.            *)
(***************************************************************************)
THEOREM NoLostFulfilment == Spec => []SyncedMeansProvisioned
<1>1. IInv => SyncedMeansProvisioned
  BY DEF IInv
<1> QED
  BY <1>1, Inductive, PTL

-----------------------------------------------------------------------------
\* What PaymentKept says of one order in one step
Kept(o) ==
    /\ orders'[o].paymentNo = orders[o].paymentNo
    /\ orders'[o].method = orders[o].method
    /\ orders'[o].user = orders[o].user
    /\ orders'[o].pay = orders[o].pay

\* Every step keeps the recorded payment of a paid order
LEMMA KeptStep ==
    ASSUME IInv, [Next]_vars, NEW o \in Orders, orders[o].paymentNo # "none"
    PROVE  Kept(o)
<1>1. orders[o].status \notin Unpaid
  BY DEF IInv, Books
<1> USE DEF IInv, TypeOK, Unpaid, OrderRecord, Kept
<1>2. CASE \E x \in Orders, u \in Users, p \in Plans : Create(x, u, p)
  BY <1>1, <1>2 DEF Create
<1>3. CASE PayStep
  BY <1>1, <1>3 DEF PayStep, PayAndApplyPlan, Payable
<1>4. CASE \E w \in Workers : MarkFulfillmentSynced(w)
  BY <1>4 DEF MarkFulfillmentSynced
<1>5. CASE \E w \in Workers : CompleteBalancePayment(w)
  BY <1>5 DEF CompleteBalancePayment
<1>6. CASE \E x \in Orders : Cancel(x) \/ Complete(x)
  <2>1. ASSUME NEW x \in Orders, Cancel(x) PROVE Kept(o)
    BY <2>1 DEF Cancel
  <2>2. ASSUME NEW x \in Orders, Complete(x) PROVE Kept(o)
    BY <2>2 DEF Complete
  <2> QED
    BY <1>6, <2>1, <2>2
<1>7. CASE \E x \in Orders : \E a \in 1..orders[x].pay : RefundToBalance(x, a)
  BY <1>7 DEF RefundToBalance
<1>8. CASE UNCHANGED orders
  BY <1>8
<1> QED
  <2> HIDE DEF TypeOK, Unpaid, OrderRecord, Kept
  <2>1. CASE Next
    <3>1. TypeOK
      BY DEF IInv
    <3>2. \/ \E x \in Orders, u \in Users, p \in Plans : Create(x, u, p)
          \/ PayStep
          \/ \E w \in Workers : MarkFulfillmentSynced(w)
          \/ \E w \in Workers : CompleteBalancePayment(w)
          \/ \E x \in Orders : Cancel(x) \/ Complete(x)
          \/ \E x \in Orders : \E a \in 1..orders[x].pay : RefundToBalance(x, a)
          \/ UNCHANGED orders
      BY <2>1, <3>1, NextForms, Zenon
      DEF GatewayCharge, ReplayStep, ReplayPayment, MarkConverted, TrialLookupFails,
        AfterPlanApplied, SyncFails,
          ListForRetry, RetryNext, Restart, AdjustBalance, SetPlan, Tick, orderVars
    <3> QED
      BY <3>2, <1>2, <1>3, <1>4, <1>5, <1>6, <1>7, <1>8
  <2> QED
    BY <2>1, <1>8 DEF vars, orderVars

(***************************************************************************)
(* A payment, once recorded, is never replaced: no replay, late callback or *)
(* second way of paying changes who paid an order, how, and how much.       *)
(***************************************************************************)
THEOREM PaymentNeverReplaced == Spec => PaymentKept
<1>1. IInv /\ [Next]_vars => \A o \in Orders : orders[o].paymentNo # "none" => Kept(o)
  BY KeptStep
<1> QED
  BY <1>1, Inductive, PTL DEF Spec, PaymentKept, Kept

-----------------------------------------------------------------------------
(***************************************************************************)
(* Refinement: the order tables keep the shop's promise.  The values that   *)
(* the promise sees of the tables, and of their next state.                 *)
(***************************************************************************)
phaseOf == [o \in Orders |-> Phase(orders[o].status)]
priceOf == [o \in Orders |-> orders[o].pay]

\* How the promise sees each status
LEMMA Phases ==
    /\ Phase("absent") = "none"
    /\ Phase("pending") = "open"
    /\ Phase("paid") = "settled" /\ Phase("completed") = "settled"
    /\ Phase("cancelled") = "closed"
    /\ Phase("refunded") = "returned"
  BY DEF Phase, Settled

\* The initial states map to initial states of the promise
LEMMA PromiseInit == Init => Promise!Init
<1> SUFFICES ASSUME Init PROVE Promise!Init
  OBVIOUS
<1>1. \A o \in Orders : orders[o].status = "absent" /\ orders[o].pay = 0
  BY DEF Init, NoOrder
<1>2. phaseOf = [o \in Orders |-> "none"]
  BY <1>1, Phases DEF phaseOf
<1>3. priceOf = [o \in Orders |-> 0]
  BY <1>1 DEF priceOf
<1> QED
  BY <1>2, <1>3 DEF Promise!Init, Init, phaseOf, priceOf

\* A step that changes neither phase nor price of any order, and none of the
\* books, is one the promise does not see
LEMMA PromiseStutter ==
    ASSUME \A o \in Orders : /\ Phase(orders'[o].status) = Phase(orders[o].status)
                             /\ orders'[o].pay = orders[o].pay,
           UNCHANGED <<applied, debited, credited>>
    PROVE  UNCHANGED Promise!vars
<1>1. phaseOf' = phaseOf /\ priceOf' = priceOf
  BY DEF phaseOf, priceOf
<1> QED
  BY <1>1 DEF Promise!vars, phaseOf, priceOf

\* Every step maps to a step of the promise or to a stuttering one
LEMMA PromiseStep == IInv /\ [Next]_vars => [Promise!Next]_(Promise!vars)
<1> SUFFICES ASSUME IInv, [Next]_vars PROVE [Promise!Next]_(Promise!vars)
  OBVIOUS
<1>1. ASSUME NEW o \in Orders, NEW u \in Users, NEW p \in Plans, Create(o, u, p)
      PROVE  Promise!Next
  <2>1. orders \in [Orders -> OrderRecord] /\ Price[p] \in Nat
    BY OrderAssumption DEF IInv, TypeOK
  <2>2. /\ orders[o].status = "absent" /\ orders'[o].status = "pending" /\ orders'[o].pay = Price[p]
        /\ \A x \in Orders : x # o => orders'[x] = orders[x]
    BY <1>1, <2>1 DEF Create, NoOrder
  <2>3. phaseOf[o] = "none" /\ phaseOf' = [phaseOf EXCEPT ![o] = "open"]
    BY <2>2, Phases DEF phaseOf
  <2>4. priceOf'[o] \in Nat /\ priceOf' = [priceOf EXCEPT ![o] = priceOf'[o]]
    BY <2>1, <2>2 DEF priceOf
  <2>5. Promise!Open(o)
    BY <1>1, <2>3, <2>4 DEF Promise!Open, Create, phaseOf, priceOf
  <2> QED
    BY <2>5 DEF Promise!Next
<1>2. ASSUME PayStep PROVE Promise!Next
  <2>1. PICK w \in Workers, o \in Orders, n \in PaymentNos \ {"none"},
             m \in Methods \ {"none"}, b \in BOOLEAN : PayAndApplyPlan(w, o, n, m, b)
    BY <1>2 DEF PayStep
  <2>2. orders \in [Orders -> OrderRecord] /\ orders[o].pay \in Nat
    BY DEF IInv, TypeOK, OrderRecord
  <2>3. /\ orders[o].status = "pending" /\ orders'[o].status = "paid"
        /\ orders'[o].pay = orders[o].pay
        /\ \A x \in Orders : x # o => orders'[x] = orders[x]
    BY <2>1, <2>2 DEF PayAndApplyPlan, Payable, OrderRecord
  <2>4. applied[o] = 0 /\ debited[o] = 0 /\ applied \in [Orders -> Nat] /\ debited \in [Orders -> Nat]
    BY <2>3 DEF IInv, TypeOK, Books, Unpaid
  <2>5. phaseOf[o] = "open" /\ phaseOf' = [phaseOf EXCEPT ![o] = "settled"]
    BY <2>3, Phases DEF phaseOf
  <2>6. priceOf' = priceOf /\ priceOf[o] = orders[o].pay
    BY <2>3 DEF priceOf
  <2>7. applied' = [applied EXCEPT ![o] = 1] /\ credited' = credited
    BY <2>1, <2>4 DEF PayAndApplyPlan
  <2>8. debited' \in {debited, [debited EXCEPT ![o] = priceOf[o]]}
    BY <2>1, <2>2, <2>4, <2>6 DEF PayAndApplyPlan
  <2>9. Promise!Settle(o)
    BY <2>5, <2>6, <2>7, <2>8 DEF Promise!Settle, phaseOf, priceOf
  <2> QED
    BY <2>9 DEF Promise!Next
<1>3. ASSUME NEW w \in Workers, MarkFulfillmentSynced(w) PROVE UNCHANGED Promise!vars
  BY <1>3, PromiseStutter DEF MarkFulfillmentSynced, IInv, TypeOK, OrderRecord
<1>4. ASSUME NEW w \in Workers, CompleteBalancePayment(w) PROVE UNCHANGED Promise!vars
  <2>1. \A o \in Orders : /\ orders'[o].pay = orders[o].pay
                          /\ \/ orders'[o].status = orders[o].status
                             \/ orders[o].status = "paid" /\ orders'[o].status = "completed"
    BY <1>4 DEF CompleteBalancePayment, IInv, TypeOK, OrderRecord
  <2> QED
    BY <1>4, <2>1, PromiseStutter DEF CompleteBalancePayment, Phase, Settled
<1>5. ASSUME NEW o \in Orders, Cancel(o) PROVE Promise!Next
  <2>1. /\ orders[o].status = "pending" /\ orders'[o].status = "cancelled"
        /\ \A x \in Orders : orders'[x].pay = orders[x].pay
        /\ \A x \in Orders : x # o => orders'[x] = orders[x]
    BY <1>5 DEF Cancel, AllowedFrom, IInv, TypeOK, OrderRecord
  <2>2. phaseOf[o] = "open" /\ phaseOf' = [phaseOf EXCEPT ![o] = "closed"] /\ priceOf' = priceOf
    BY <2>1, Phases DEF phaseOf, priceOf, Settled
  <2>3. Promise!Close(o)
    BY <1>5, <2>2 DEF Promise!Close, Cancel, phaseOf, priceOf
  <2> QED
    BY <2>3 DEF Promise!Next
<1>6. ASSUME NEW o \in Orders, Complete(o) PROVE UNCHANGED Promise!vars
  <2>1. \A x \in Orders : /\ orders'[x].pay = orders[x].pay
                          /\ \/ orders'[x].status = orders[x].status
                             \/ orders[x].status = "paid" /\ orders'[x].status = "completed"
    BY <1>6 DEF Complete, AllowedFrom, IInv, TypeOK, OrderRecord
  <2> QED
    BY <1>6, <2>1, PromiseStutter DEF Complete, Phase, Settled
<1>7. ASSUME NEW o \in Orders, NEW a \in 1..orders[o].pay, RefundToBalance(o, a)
      PROVE  Promise!Next
  <2>1. /\ orders[o].status \in Settled /\ orders'[o].status = "refunded"
        /\ \A x \in Orders : orders'[x].pay = orders[x].pay
        /\ \A x \in Orders : x # o => orders'[x] = orders[x]
    BY <1>7 DEF RefundToBalance, Refundable, IInv, TypeOK, OrderRecord
  <2>2. credited[o] = 0 /\ credited \in [Orders -> Nat] /\ orders[o].pay \in Nat
    BY <2>1 DEF Settled, IInv, Books, TypeOK, OrderRecord
  <2>3. credited' = [credited EXCEPT ![o] = a]
    <3>1. a \in Nat /\ 0 + a = a
      BY <2>2
    <3> QED
      BY <1>7, <2>2, <3>1 DEF RefundToBalance
  <2>4. phaseOf[o] = "settled" /\ phaseOf' = [phaseOf EXCEPT ![o] = "returned"]
        /\ priceOf' = priceOf /\ a \in 1..priceOf[o]
    BY <2>1, Phases DEF phaseOf, priceOf, Settled
  <2>5. Promise!Return(o)
    BY <1>7, <2>3, <2>4 DEF Promise!Return, RefundToBalance, phaseOf, priceOf
  <2> QED
    BY <2>5 DEF Promise!Next
<1>8. CASE UNCHANGED orderVars
  BY <1>8, PromiseStutter DEF orderVars
<1>9. CASE Next
  <2>1. TypeOK
    BY DEF IInv
  <2>2. \/ \E o \in Orders, u \in Users, p \in Plans : Create(o, u, p)
        \/ PayStep
        \/ \E w \in Workers : MarkFulfillmentSynced(w)
        \/ \E w \in Workers : CompleteBalancePayment(w)
        \/ \E o \in Orders : Cancel(o)
        \/ \E o \in Orders : Complete(o)
        \/ \E o \in Orders : \E a \in 1..orders[o].pay : RefundToBalance(o, a)
        \/ UNCHANGED orderVars
    BY <1>9, <2>1, NextForms, Zenon
    DEF GatewayCharge, ReplayStep, ReplayPayment, MarkConverted, TrialLookupFails,
        AfterPlanApplied, SyncFails,
        ListForRetry, RetryNext, Restart, AdjustBalance, SetPlan, Tick
  <2> QED
    BY <2>2, <1>1, <1>2, <1>3, <1>4, <1>5, <1>6, <1>7, <1>8
<1> QED
  BY <1>8, <1>9 DEF vars

(***************************************************************************)
(* The order, payment and refund code implements OrderPromise: every        *)
(* behaviour of the tables, of the goroutines racing on them and of the     *)
(* restarts is one in which each order is settled or closed once, granted   *)
(* once, and returned at most once for at most its price.                   *)
(***************************************************************************)
THEOREM ImplementsPromise == Spec => KeepsPromise
<1>1. Spec => []IInv
  BY Inductive
<1> QED
  BY <1>1, PromiseInit, PromiseStep, PTL DEF Spec, KeepsPromise, Promise!Spec

-----------------------------------------------------------------------------
(***************************************************************************)
(* The account of a user: what the wallet paid and got back, and the days   *)
(* that were paid for.  A step changes one order, and so each of the three  *)
(* sums by what that order contributes to it.                               *)
(***************************************************************************)
Spent(u) == SumFunctionOnSet([o \in Orders |-> orders[o].pay], WalletPaid(u))
Returned(u) == SumFunctionOnSet([o \in Orders |-> orders[o].refunded], RefundedTo(u))

SpentOn(o, u) == IF o \in WalletPaid(u) THEN orders[o].pay ELSE 0
ReturnedFor(o, u) == IF o \in RefundedTo(u) THEN orders[o].refunded ELSE 0
DaysOf(o, u) == IF o \in PaidOrders(u) THEN Duration[orders[o].plan] ELSE 0

\* Only the row of order d may change
OnlyOrder(d) == \A o \in Orders \ {d} : orders'[o] = orders[o]

\* What the sums are taken over is finite, and what they add are numbers
LEMMA SumsOverOrders ==
    ASSUME TypeOK, NEW u \in Users
    PROVE  /\ IsFiniteSet(WalletPaid(u)) /\ IsFiniteSet(RefundedTo(u)) /\ IsFiniteSet(PaidOrders(u))
           /\ \A o \in WalletPaid(u) : orders[o].pay \in Nat
           /\ \A o \in RefundedTo(u) : orders[o].refunded \in Nat
           /\ \A o \in PaidOrders(u) : Duration[orders[o].plan] \in Nat
<1>1. /\ WalletPaid(u) \subseteq Orders /\ RefundedTo(u) \subseteq Orders
      /\ PaidOrders(u) \subseteq Orders
  BY DEF WalletPaid, RefundedTo, PaidOrders
<1>2. IsFiniteSet(WalletPaid(u)) /\ IsFiniteSet(RefundedTo(u)) /\ IsFiniteSet(PaidOrders(u))
  BY <1>1, OrderAssumption, FS_Subset
<1>3. \A o \in Orders : orders[o].pay \in Nat /\ orders[o].refunded \in Nat
  BY DEF TypeOK, OrderRecord
<1>4. \A o \in PaidOrders(u) : orders[o].plan \in Plans
  BY DEF TypeOK, PaidOrders, Settled
<1> QED
  BY <1>1, <1>2, <1>3, <1>4, OrderAssumption

LEMMA SumsType ==
    ASSUME TypeOK, NEW u \in Users
    PROVE  /\ Spent(u) \in Nat /\ Returned(u) \in Nat /\ PaidDays(u) \in Nat
           /\ \A o \in Orders : SpentOn(o, u) \in Nat /\ ReturnedFor(o, u) \in Nat /\ DaysOf(o, u) \in Nat
<1>1. /\ \A o \in WalletPaid(u) : [x \in Orders |-> orders[x].pay][o] \in Nat
      /\ \A o \in RefundedTo(u) : [x \in Orders |-> orders[x].refunded][o] \in Nat
      /\ \A o \in PaidOrders(u) : [x \in Orders |-> Duration[orders[x].plan]][o] \in Nat
  BY SumsOverOrders DEF WalletPaid, RefundedTo, PaidOrders
<1>2. Spent(u) \in Nat /\ Returned(u) \in Nat /\ PaidDays(u) \in Nat
  BY <1>1, SumsOverOrders, SumNat DEF Spent, Returned, PaidDays
<1>3. \A o \in Orders : SpentOn(o, u) \in Nat /\ ReturnedFor(o, u) \in Nat /\ DaysOf(o, u) \in Nat
  BY SumsOverOrders DEF SpentOn, ReturnedFor, DaysOf
<1> QED
  BY <1>2, <1>3

\* Each sum moves by what the changed order contributes
LEMMA SpentNext ==
    ASSUME TypeOK, TypeOK', NEW d \in Orders, OnlyOrder(d), NEW u \in Users
    PROVE  Spent(u)' = Spent(u) - SpentOn(d, u) + SpentOn(d, u)'
<1> DEFINE g == [o \in Orders |-> orders[o].pay]
           h == [o \in Orders |-> orders'[o].pay]
           S == WalletPaid(u)
           T == WalletPaid(u)'
<1>1. IsFiniteSet(S) /\ \A o \in Orders : orders[o].pay \in Int /\ orders'[o].pay \in Int
  BY SumsOverOrders DEF TypeOK, OrderRecord
<1>2. OneApart(S, g, T, h, d)
  BY <1>1 DEF OneApart, OnlyOrder, WalletPaid
<1>3. Share(d, g, S) = SpentOn(d, u) /\ Share(d, h, T) = SpentOn(d, u)'
  BY DEF Share, SpentOn
<1>4. Spent(u) = SumFunctionOnSet(g, S) /\ Spent(u)' = SumFunctionOnSet(h, T)
  BY DEF Spent
<1> HIDE DEF g, h, S, T
<1> QED
  BY <1>2, <1>3, <1>4, SumNext

LEMMA ReturnedNext ==
    ASSUME TypeOK, TypeOK', NEW d \in Orders, OnlyOrder(d), NEW u \in Users
    PROVE  Returned(u)' = Returned(u) - ReturnedFor(d, u) + ReturnedFor(d, u)'
<1> DEFINE g == [o \in Orders |-> orders[o].refunded]
           h == [o \in Orders |-> orders'[o].refunded]
           S == RefundedTo(u)
           T == RefundedTo(u)'
<1>1. IsFiniteSet(S) /\ \A o \in Orders : orders[o].refunded \in Int /\ orders'[o].refunded \in Int
  BY SumsOverOrders DEF TypeOK, OrderRecord
<1>2. OneApart(S, g, T, h, d)
  BY <1>1 DEF OneApart, OnlyOrder, RefundedTo
<1>3. Share(d, g, S) = ReturnedFor(d, u) /\ Share(d, h, T) = ReturnedFor(d, u)'
  BY DEF Share, ReturnedFor
<1>4. Returned(u) = SumFunctionOnSet(g, S) /\ Returned(u)' = SumFunctionOnSet(h, T)
  BY DEF Returned
<1> HIDE DEF g, h, S, T
<1> QED
  BY <1>2, <1>3, <1>4, SumNext

LEMMA PaidDaysNext ==
    ASSUME TypeOK, TypeOK', NEW d \in Orders, OnlyOrder(d), NEW u \in Users
    PROVE  PaidDays(u)' = PaidDays(u) - DaysOf(d, u) + DaysOf(d, u)'
<1> DEFINE g == [o \in Orders |-> Duration[orders[o].plan]]
           h == [o \in Orders |-> Duration[orders'[o].plan]]
           S == PaidOrders(u)
           T == PaidOrders(u)'
<1>1. /\ IsFiniteSet(S) /\ \A o \in S : Duration[orders[o].plan] \in Int
      /\ \A o \in T : Duration[orders'[o].plan] \in Int
  <2>1. \A o \in T : orders'[o].plan \in Plans
    BY DEF TypeOK, PaidOrders, Settled
  <2> QED
    BY <2>1, SumsOverOrders, OrderAssumption
<1>2. OneApart(S, g, T, h, d)
  BY <1>1 DEF OneApart, OnlyOrder, PaidOrders
<1>3. Share(d, g, S) = DaysOf(d, u) /\ Share(d, h, T) = DaysOf(d, u)'
  BY DEF Share, DaysOf
<1>4. PaidDays(u) = SumFunctionOnSet(g, S) /\ PaidDays(u)' = SumFunctionOnSet(h, T)
  BY DEF PaidDays
<1> HIDE DEF g, h, S, T
<1> QED
  BY <1>2, <1>3, <1>4, SumNext

\* The two properties, with the sums named
LEMMA AccountForms ==
    /\ BalanceExplained <=>
         \A u \in Users : balance[u] = audited[u] /\ balance[u] = adjusted[u] - Spent(u) + Returned(u)
    /\ BalanceExplained' <=>
         \A u \in Users : /\ balance'[u] = audited'[u]
                          /\ balance'[u] = adjusted'[u] - Spent(u)' + Returned(u)'
  BY DEF BalanceExplained, Spent, Returned

LEMMA TimeForms ==
    /\ PaidTimeKept <=>
         \A u \in Users : expiresAt[u] >= PaidDays(u) /\ expiresAt[u] <= now + PaidDays(u)
    /\ PaidTimeKept' <=>
         \A u \in Users : expiresAt'[u] >= PaidDays(u)' /\ expiresAt'[u] <= now' + PaidDays(u)'
  BY DEF PaidTimeKept

\* The three sums stay as they are
SumsKept == \A u \in Users : Spent(u)' = Spent(u) /\ Returned(u)' = Returned(u) /\ PaidDays(u)' = PaidDays(u)

\* The row of d counts for its owner as before: it is unpaid still, or paid as before
CountsAsBefore(d) ==
    \/ orders[d].status \in Unpaid /\ orders'[d].status \in Unpaid
    \/ /\ orders[d].status \notin Unpaid /\ orders'[d].status \notin Unpaid
       /\ orders[d].status = "refunded" <=> orders'[d].status = "refunded"
       /\ orders'[d].user = orders[d].user /\ orders'[d].plan = orders[d].plan
       /\ orders'[d].pay = orders[d].pay /\ orders'[d].method = orders[d].method
       /\ orders'[d].refunded = orders[d].refunded

LEMMA SumsKeptByOrder ==
    ASSUME TypeOK, TypeOK', NEW d \in Orders, OnlyOrder(d), CountsAsBefore(d)
    PROVE  SumsKept
<1>1. orders[d].status \in Statuses /\ orders'[d].status \in Statuses
  BY DEF TypeOK, OrderRecord
<1>2. ASSUME NEW u \in Users
      PROVE  /\ d \in WalletPaid(u)' <=> d \in WalletPaid(u)
             /\ d \in RefundedTo(u)' <=> d \in RefundedTo(u)
             /\ d \in PaidOrders(u)' <=> d \in PaidOrders(u)
  BY <1>1 DEF CountsAsBefore, WalletPaid, RefundedTo, PaidOrders, Settled, Unpaid, Statuses
<1>3. ASSUME NEW u \in Users
      PROVE  /\ SpentOn(d, u)' = SpentOn(d, u)
             /\ ReturnedFor(d, u)' = ReturnedFor(d, u)
             /\ DaysOf(d, u)' = DaysOf(d, u)
  <2>1. /\ d \in WalletPaid(u) => orders[d].status \notin Unpaid
        /\ d \in RefundedTo(u) => orders[d].status \notin Unpaid
        /\ d \in PaidOrders(u) => orders[d].status \notin Unpaid
    BY DEF WalletPaid, RefundedTo, PaidOrders, Settled, Unpaid
  <2> QED
    BY <1>2, <2>1 DEF SpentOn, ReturnedFor, DaysOf, CountsAsBefore
<1>4. ASSUME NEW u \in Users
      PROVE  Spent(u)' = Spent(u) /\ Returned(u)' = Returned(u) /\ PaidDays(u)' = PaidDays(u)
  <2>1. /\ Spent(u) \in Nat /\ Returned(u) \in Nat /\ PaidDays(u) \in Nat
        /\ SpentOn(d, u) \in Nat /\ ReturnedFor(d, u) \in Nat /\ DaysOf(d, u) \in Nat
    BY SumsType
  <2>2. Spent(u)' = Spent(u) - SpentOn(d, u) + SpentOn(d, u)
    BY <1>3, SpentNext
  <2>3. Returned(u)' = Returned(u) - ReturnedFor(d, u) + ReturnedFor(d, u)
    BY <1>3, ReturnedNext
  <2>4. PaidDays(u)' = PaidDays(u) - DaysOf(d, u) + DaysOf(d, u)
    BY <1>3, PaidDaysNext
  <2> QED
    BY <2>1, <2>2, <2>3, <2>4
<1> QED
  BY <1>4 DEF SumsKept

\* The steps that neither pay nor refund: one order at most changes, and counts as before
LEMMA SumsKeptUntouched ==
    ASSUME UNCHANGED orders PROVE SumsKept
  BY DEF SumsKept, Spent, Returned, PaidDays, WalletPaid, RefundedTo, PaidOrders

LEMMA AccountsKept ==
    ASSUME BalanceExplained, PaidTimeKept, SumsKept, UNCHANGED <<walletVars, adjusted, expiresAt, now>>
    PROVE  BalanceExplained' /\ PaidTimeKept'
  BY AccountForms, TimeForms DEF SumsKept, walletVars

\* A payment from the wallet takes the price, every payment adds the plan's days
LEMMA PayAccounts ==
    ASSUME TypeOK, TypeOK', BalanceExplained, PaidTimeKept, PayStep
    PROVE  BalanceExplained' /\ PaidTimeKept'
<1>1. PICK w \in Workers, o \in Orders, n \in PaymentNos \ {"none"}, m \in Methods \ {"none"},
           b \in BOOLEAN : (b <=> m = "balance") /\ PayAndApplyPlan(w, o, n, m, b)
  BY DEF PayStep
<1>2. /\ orders[o].status = "pending" /\ orders[o].user \in Users /\ orders[o].plan \in Plans
      /\ orders[o].pay \in Nat
  BY <1>1 DEF PayAndApplyPlan, Payable, TypeOK, OrderRecord
<1>3. /\ OnlyOrder(o) /\ orders'[o].status = "paid" /\ orders'[o].method = m
      /\ orders'[o].user = orders[o].user /\ orders'[o].plan = orders[o].plan
      /\ orders'[o].pay = orders[o].pay
  BY <1>1 DEF PayAndApplyPlan, OnlyOrder, TypeOK, OrderRecord
<1>4. /\ UNCHANGED <<adjusted, now>>
      /\ expiresAt' = [expiresAt EXCEPT ![orders[o].user] = NewExpiry(orders[o].user, orders[o].plan)]
      /\ IF b THEN DebitAtomic(orders[o].user, orders[o].pay) ELSE UNCHANGED <<balance, audited>>
  BY <1>1 DEF PayAndApplyPlan, walletVars
<1>5. ASSUME NEW u \in Users
      PROVE  /\ balance'[u] = audited'[u] /\ balance'[u] = adjusted'[u] - Spent(u)' + Returned(u)'
             /\ expiresAt'[u] >= PaidDays(u)' /\ expiresAt'[u] <= now' + PaidDays(u)'
  <2> DEFINE mine == orders[o].user = u
             p == orders[o].pay
             days == Duration[orders[o].plan]
  <2>1. /\ o \notin WalletPaid(u) /\ o \notin RefundedTo(u) /\ o \notin PaidOrders(u)
        /\ o \in WalletPaid(u)' <=> mine /\ b
        /\ o \notin RefundedTo(u)'
        /\ o \in PaidOrders(u)' <=> mine
    BY <1>1, <1>2, <1>3 DEF WalletPaid, RefundedTo, PaidOrders, Settled
  <2>2. /\ SpentOn(o, u) = 0 /\ ReturnedFor(o, u) = 0 /\ DaysOf(o, u) = 0
        /\ SpentOn(o, u)' = IF mine /\ b THEN p ELSE 0
        /\ ReturnedFor(o, u)' = 0
        /\ DaysOf(o, u)' = IF mine THEN days ELSE 0
    BY <1>3, <2>1 DEF SpentOn, ReturnedFor, DaysOf
  <2>3. /\ Spent(u) \in Nat /\ Returned(u) \in Nat /\ PaidDays(u) \in Nat
        /\ balance[u] \in Int /\ audited[u] \in Int /\ adjusted[u] \in Int
        /\ expiresAt[u] \in Nat /\ now \in Nat /\ p \in Nat /\ days \in Nat
    BY <1>2, SumsType, OrderAssumption DEF TypeOK, WalletTypeOK
  <2>4. /\ Spent(u)' = Spent(u) + (IF mine /\ b THEN p ELSE 0)
        /\ Returned(u)' = Returned(u)
        /\ PaidDays(u)' = PaidDays(u) + (IF mine THEN days ELSE 0)
    BY <1>3, <2>2, <2>3, SpentNext, ReturnedNext, PaidDaysNext
  <2>5. /\ balance[u] = audited[u] /\ balance[u] = adjusted[u] - Spent(u) + Returned(u)
        /\ expiresAt[u] >= PaidDays(u) /\ expiresAt[u] <= now + PaidDays(u)
    BY AccountForms, TimeForms
  <2>6. /\ balance'[u] = balance[u] - (IF mine /\ b THEN p ELSE 0)
        /\ audited'[u] = audited[u] - (IF mine /\ b THEN p ELSE 0)
    BY <1>2, <1>4, <2>3 DEF DebitAtomic, TypeOK, WalletTypeOK
  <2>7. expiresAt'[u] = IF mine THEN NewExpiry(u, orders[o].plan) ELSE expiresAt[u]
    BY <1>2, <1>4 DEF TypeOK
  <2>8. adjusted'[u] = adjusted[u] /\ now' = now
    BY <1>4
  <2>9. NewExpiry(u, orders[o].plan) = (IF expiresAt[u] > now THEN expiresAt[u] ELSE now) + days
    BY DEF NewExpiry
  <2> HIDE DEF mine, p, days
  <2>10. balance'[u] = audited'[u]
    BY <2>5, <2>6
  <2>11. balance'[u] = adjusted'[u] - Spent(u)' + Returned(u)'
    <3>1. CASE mine /\ b
      <4>1. balance'[u] = balance[u] - p /\ Spent(u)' = Spent(u) + p
        BY <2>4, <2>6, <3>1
      <4> QED
        BY <2>3, <2>4, <2>5, <2>8, <4>1
    <3>2. CASE ~(mine /\ b)
      <4>1. balance'[u] = balance[u] /\ Spent(u)' = Spent(u)
        BY <2>3, <2>4, <2>6, <3>2
      <4> QED
        BY <2>4, <2>5, <2>8, <4>1
    <3> QED
      BY <3>1, <3>2
  <2>12. expiresAt'[u] >= PaidDays(u)' /\ expiresAt'[u] <= now' + PaidDays(u)'
    <3>1. CASE mine
      <4>1. /\ PaidDays(u)' = PaidDays(u) + days
            /\ expiresAt'[u] = (IF expiresAt[u] > now THEN expiresAt[u] ELSE now) + days
        BY <2>4, <2>7, <2>9, <3>1
      <4> QED
        BY <2>3, <2>5, <2>8, <4>1
    <3>2. CASE ~mine
      <4>1. PaidDays(u)' = PaidDays(u) /\ expiresAt'[u] = expiresAt[u]
        BY <2>3, <2>4, <2>7, <3>2
      <4> QED
        BY <2>5, <2>8, <4>1
    <3> QED
      BY <3>1, <3>2
  <2> QED
    BY <2>10, <2>11, <2>12
<1> QED
  BY <1>5, AccountForms, TimeForms

\* A refund gives back what it records
LEMMA RefundAccounts ==
    ASSUME TypeOK, TypeOK', BalanceExplained, PaidTimeKept,
           NEW o \in Orders, NEW amount \in 1..orders[o].pay, RefundToBalance(o, amount)
    PROVE  BalanceExplained' /\ PaidTimeKept'
<1>1. /\ orders[o].status \in Settled /\ orders[o].user \in Users /\ orders[o].pay \in Nat
      /\ amount \in Nat
  BY DEF RefundToBalance, Refundable, TypeOK, OrderRecord, Settled
<1>2. /\ OnlyOrder(o) /\ orders'[o].status = "refunded" /\ orders'[o].refunded = amount
      /\ orders'[o].user = orders[o].user /\ orders'[o].plan = orders[o].plan
      /\ orders'[o].pay = orders[o].pay /\ orders'[o].method = orders[o].method
  BY DEF RefundToBalance, OnlyOrder, TypeOK, OrderRecord
<1>3. UNCHANGED <<adjusted, now, expiresAt>> /\ CreditAtomic(orders[o].user, amount)
  BY DEF RefundToBalance
<1>4. ASSUME NEW u \in Users
      PROVE  /\ balance'[u] = audited'[u] /\ balance'[u] = adjusted'[u] - Spent(u)' + Returned(u)'
             /\ PaidDays(u)' = PaidDays(u)
  <2> DEFINE mine == orders[o].user = u
  <2>1. /\ o \in WalletPaid(u)' <=> o \in WalletPaid(u)
        /\ o \in PaidOrders(u)' <=> o \in PaidOrders(u)
        /\ o \notin RefundedTo(u)
        /\ o \in RefundedTo(u)' <=> mine
    BY <1>1, <1>2 DEF WalletPaid, RefundedTo, PaidOrders, Settled
  <2>2. /\ SpentOn(o, u)' = SpentOn(o, u) /\ DaysOf(o, u)' = DaysOf(o, u)
        /\ ReturnedFor(o, u) = 0 /\ ReturnedFor(o, u)' = IF mine THEN amount ELSE 0
    BY <1>2, <2>1 DEF SpentOn, ReturnedFor, DaysOf
  <2>3. /\ Spent(u) \in Nat /\ Returned(u) \in Nat /\ PaidDays(u) \in Nat
        /\ SpentOn(o, u) \in Nat /\ DaysOf(o, u) \in Nat
        /\ balance[u] \in Int /\ audited[u] \in Int /\ adjusted[u] \in Int
    BY SumsType DEF TypeOK, WalletTypeOK
  <2>4. Spent(u)' = Spent(u) - SpentOn(o, u) + SpentOn(o, u)
    BY <1>2, <2>2, SpentNext
  <2>5. PaidDays(u)' = PaidDays(u) - DaysOf(o, u) + DaysOf(o, u)
    BY <1>2, <2>2, PaidDaysNext
  <2>6. Returned(u)' = Returned(u) - 0 + (IF mine THEN amount ELSE 0)
    BY <1>2, <2>2, ReturnedNext
  <2>7. balance[u] = audited[u] /\ balance[u] = adjusted[u] - Spent(u) + Returned(u)
    BY AccountForms
  <2>8. /\ balance'[u] = balance[u] + (IF mine THEN amount ELSE 0)
        /\ audited'[u] = audited[u] + (IF mine THEN amount ELSE 0)
    BY <1>1, <1>3, <2>3 DEF CreditAtomic, TypeOK, WalletTypeOK
  <2>9. adjusted'[u] = adjusted[u]
    BY <1>3
  <2> HIDE DEF mine
  <2>10. Spent(u)' = Spent(u) /\ PaidDays(u)' = PaidDays(u)
    BY <2>3, <2>4, <2>5
  <2>11. balance'[u] = adjusted'[u] - Spent(u)' + Returned(u)'
    <3>1. CASE mine
      <4>1. balance'[u] = balance[u] + amount /\ Returned(u)' = Returned(u) + amount
        BY <1>1, <2>3, <2>6, <2>8, <3>1
      <4> QED
        BY <1>1, <2>3, <2>7, <2>9, <2>10, <4>1
    <3>2. CASE ~mine
      <4>1. balance'[u] = balance[u] /\ Returned(u)' = Returned(u)
        BY <2>3, <2>6, <2>8, <3>2
      <4> QED
        BY <2>7, <2>9, <2>10, <4>1
    <3> QED
      BY <3>1, <3>2
  <2> QED
    BY <2>7, <2>8, <2>10, <2>11
<1> QED
  BY <1>3, <1>4, AccountForms, TimeForms

\* An adjustment moves the balance, the audit rows and the adjustment rows alike
LEMMA AdjustAccounts ==
    ASSUME TypeOK, BalanceExplained, PaidTimeKept,
           NEW v \in Users, NEW amount \in Adjustments, AdjustBalance(v, amount)
    PROVE  BalanceExplained' /\ PaidTimeKept'
<1>1. amount \in Int
  BY OrderAssumption
<1>2. SumsKept /\ UNCHANGED <<expiresAt, now>>
  BY SumsKeptUntouched DEF AdjustBalance, orderVars
<1>3. /\ balance' = [balance EXCEPT ![v] = @ + amount]
      /\ audited' = [audited EXCEPT ![v] = @ + amount]
      /\ adjusted' = [adjusted EXCEPT ![v] = @ + amount]
  BY <1>1 DEF AdjustBalance, Adjust, CreditAtomic, DebitAtomic, TypeOK, WalletTypeOK
<1>4. ASSUME NEW u \in Users
      PROVE  balance'[u] = audited'[u] /\ balance'[u] = adjusted'[u] - Spent(u)' + Returned(u)'
  <2>1. /\ Spent(u) \in Nat /\ Returned(u) \in Nat
        /\ balance[u] \in Int /\ audited[u] \in Int /\ adjusted[u] \in Int
    BY SumsType DEF TypeOK, WalletTypeOK
  <2>2. balance[u] = audited[u] /\ balance[u] = adjusted[u] - Spent(u) + Returned(u)
    BY AccountForms
  <2>3. Spent(u)' = Spent(u) /\ Returned(u)' = Returned(u)
    BY <1>2 DEF SumsKept
  <2>4. CASE u = v
    <3>1. /\ balance'[u] = balance[u] + amount /\ audited'[u] = audited[u] + amount
          /\ adjusted'[u] = adjusted[u] + amount
      BY <1>3, <2>4 DEF TypeOK, WalletTypeOK
    <3>2. balance'[u] = audited'[u]
      BY <2>2, <3>1
    <3> QED
      BY <1>1, <2>1, <2>2, <2>3, <3>1, <3>2
  <2>5. CASE u # v
    <3>1. balance'[u] = balance[u] /\ audited'[u] = audited[u] /\ adjusted'[u] = adjusted[u]
      BY <1>3, <2>5 DEF TypeOK, WalletTypeOK
    <3> QED
      BY <2>2, <2>3, <3>1
  <2> QED
    BY <2>4, <2>5
<1>5. PaidTimeKept'
  BY <1>2, TimeForms DEF SumsKept
<1> QED
  BY <1>4, <1>5, AccountForms

LEMMA TickAccounts ==
    ASSUME TypeOK, BalanceExplained, PaidTimeKept, Tick
    PROVE  BalanceExplained' /\ PaidTimeKept'
<1>1. SumsKept /\ UNCHANGED <<walletVars, adjusted, expiresAt>> /\ now' = now + 1
  BY SumsKeptUntouched DEF Tick, orderVars
<1>2. BalanceExplained'
  BY <1>1, AccountForms DEF SumsKept, walletVars
<1>3. ASSUME NEW u \in Users PROVE expiresAt'[u] >= PaidDays(u)' /\ expiresAt'[u] <= now' + PaidDays(u)'
  <2>1. expiresAt[u] >= PaidDays(u) /\ expiresAt[u] <= now + PaidDays(u)
    BY TimeForms
  <2>2. expiresAt[u] \in Nat /\ now \in Nat /\ PaidDays(u) \in Nat
    BY SumsType DEF TypeOK
  <2>3. PaidDays(u)' = PaidDays(u) /\ expiresAt'[u] = expiresAt[u]
    BY <1>1 DEF SumsKept
  <2> QED
    BY <1>1, <2>1, <2>2, <2>3
<1> QED
  BY <1>2, <1>3, TimeForms

\* Every step keeps the account of every user: one case per handler
LEMMA AccountsStep ==
    TypeOK /\ TypeOK' /\ BalanceExplained /\ PaidTimeKept /\ [Next]_vars
        => BalanceExplained' /\ PaidTimeKept'
<1> SUFFICES ASSUME TypeOK, TypeOK', BalanceExplained, PaidTimeKept, [Next]_vars
             PROVE  BalanceExplained' /\ PaidTimeKept'
  OBVIOUS
<1> DEFINE AccountsKeptNow == BalanceExplained' /\ PaidTimeKept'
<1>1. ASSUME NEW o \in Orders, NEW u \in Users, NEW p \in Plans, Create(o, u, p) PROVE AccountsKeptNow
  <2>1. OnlyOrder(o) /\ CountsAsBefore(o)
    BY <1>1 DEF Create, OnlyOrder, CountsAsBefore, TypeOK, NoOrder, Unpaid
  <2> QED
    BY <1>1, <2>1, SumsKeptByOrder, AccountsKept DEF Create
<1>2. ASSUME NEW w \in Workers, MarkFulfillmentSynced(w) PROVE AccountsKeptNow
  <2>1. jobs[w].order \in Orders
    BY <1>2 DEF MarkFulfillmentSynced, TypeOK
  <2>2. OnlyOrder(jobs[w].order) /\ CountsAsBefore(jobs[w].order)
    BY <1>2, <2>1 DEF MarkFulfillmentSynced, OnlyOrder, CountsAsBefore, TypeOK, OrderRecord
  <2> QED
    BY <1>2, <2>1, <2>2, SumsKeptByOrder, AccountsKept DEF MarkFulfillmentSynced
<1>3. ASSUME NEW w \in Workers, CompleteBalancePayment(w) PROVE AccountsKeptNow
  <2>1. jobs[w].order \in Orders
    BY <1>3 DEF CompleteBalancePayment, TypeOK
  <2> DEFINE d == jobs[w].order
  <2>2. orders \in [Orders -> OrderRecord] /\ orders[d] \in OrderRecord
    BY <2>1 DEF TypeOK
  <2>3. orders' = [orders EXCEPT ![d] =
                      [orders[d] EXCEPT !.status = IF @ = "paid" THEN "completed" ELSE @]]
    BY <1>3 DEF CompleteBalancePayment
  <2>4. OnlyOrder(d)
    BY <2>1, <2>2, <2>3 DEF OnlyOrder
  <2>5. orders'[d] = [orders[d] EXCEPT !.status = IF @ = "paid" THEN "completed" ELSE @]
    BY <2>1, <2>2, <2>3
  <2>6. CountsAsBefore(d)
    BY <2>2, <2>5 DEF CountsAsBefore, OrderRecord, Unpaid
  <2> QED
    BY <1>3, <2>1, <2>4, <2>6, SumsKeptByOrder, AccountsKept DEF CompleteBalancePayment
<1>4. ASSUME NEW o \in Orders, Cancel(o) PROVE AccountsKeptNow
  <2>1. OnlyOrder(o) /\ CountsAsBefore(o)
    BY <1>4 DEF Cancel, AllowedFrom, OnlyOrder, CountsAsBefore, TypeOK, OrderRecord, Unpaid
  <2> QED
    BY <1>4, <2>1, SumsKeptByOrder, AccountsKept DEF Cancel
<1>5. ASSUME NEW o \in Orders, Complete(o) PROVE AccountsKeptNow
  <2>1. OnlyOrder(o) /\ CountsAsBefore(o)
    BY <1>5 DEF Complete, AllowedFrom, OnlyOrder, CountsAsBefore, TypeOK, OrderRecord, Unpaid
  <2> QED
    BY <1>5, <2>1, SumsKeptByOrder, AccountsKept DEF Complete
<1>6. ASSUME NEW o \in Orders, NEW n \in Payments, GatewayCharge(o, n) PROVE AccountsKeptNow
  BY <1>6, SumsKeptUntouched, AccountsKept DEF GatewayCharge, orderVars
<1>7. ASSUME ReplayStep PROVE AccountsKeptNow
  <2>1. UNCHANGED <<walletVars, orderVars, expiresAt, adjusted, now>>
    BY <1>7 DEF ReplayStep, ReplayPayment
  <2> QED
    BY <2>1, SumsKeptUntouched, AccountsKept DEF orderVars
<1>8. ASSUME NEW w \in Workers, MarkConverted(w) \/ TrialLookupFails(w) \/ AfterPlanApplied(w) \/ SyncFails(w)
      PROVE  AccountsKeptNow
  BY <1>8, SumsKeptUntouched, AccountsKept
  DEF MarkConverted, TrialLookupFails, AfterPlanApplied, SyncFails, orderVars
<1>9. ASSUME ListForRetry \/ RetryNext \/ Restart PROVE AccountsKeptNow
  BY <1>9, SumsKeptUntouched, AccountsKept DEF ListForRetry, RetryNext, Restart, orderVars
<1>10. ASSUME NEW p \in Plans, NEW state \in PlanStates, SetPlan(p, state) PROVE AccountsKeptNow
  BY <1>10, SumsKeptUntouched, AccountsKept DEF SetPlan, orderVars
<1>11. CASE UNCHANGED vars
  BY <1>11, SumsKeptUntouched, AccountsKept DEF vars, orderVars
<1>12. ASSUME PayStep PROVE AccountsKeptNow
  BY <1>12, PayAccounts
<1>13. ASSUME NEW o \in Orders, NEW amount \in 1..orders[o].pay, RefundToBalance(o, amount)
       PROVE  AccountsKeptNow
  BY <1>13, RefundAccounts
<1>14. ASSUME NEW u \in Users, NEW amount \in Adjustments, AdjustBalance(u, amount) PROVE AccountsKeptNow
  BY <1>14, AdjustAccounts
<1>15. ASSUME Tick PROVE AccountsKeptNow
  BY <1>15, TickAccounts
<1>16. ASSUME Next PROVE AccountsKeptNow
  <2> HIDE DEF AccountsKeptNow
  <2> QED
    BY <1>16, NextForms, <1>1, <1>2, <1>3, <1>4, <1>5, <1>6, <1>7, <1>8, <1>9, <1>10, <1>12, <1>13,
       <1>14, <1>15
<1> QED
  BY <1>11, <1>16

\* A user without orders has an account of zeros
LEMMA AccountsInit == Init => BalanceExplained /\ PaidTimeKept
<1> SUFFICES ASSUME Init PROVE BalanceExplained /\ PaidTimeKept
  OBVIOUS
<1>1. \A u \in Users : WalletPaid(u) = {} /\ RefundedTo(u) = {} /\ PaidOrders(u) = {}
  BY DEF Init, NoOrder, WalletPaid, RefundedTo, PaidOrders, Settled
<1>2. \A u \in Users : Spent(u) = 0 /\ Returned(u) = 0 /\ PaidDays(u) = 0
  BY <1>1, SumEmpty DEF Spent, Returned, PaidDays
<1>3. \A u \in Users : balance[u] = 0 /\ audited[u] = 0 /\ adjusted[u] = 0 /\ expiresAt[u] = 0
  BY DEF Init, WalletInit
<1>4. now = 0
  BY DEF Init
<1>5. ASSUME NEW u \in Users
      PROVE  /\ balance[u] = audited[u] /\ balance[u] = adjusted[u] - Spent(u) + Returned(u)
             /\ expiresAt[u] >= PaidDays(u) /\ expiresAt[u] <= now + PaidDays(u)
  <2>1. Spent(u) = 0 /\ Returned(u) = 0 /\ PaidDays(u) = 0
    BY <1>2
  <2> QED
    BY <1>3, <1>4, <2>1
<1> QED
  BY <1>5, AccountForms, TimeForms

LEMMA AccountsInductive == Spec => [](TypeOK /\ BalanceExplained /\ PaidTimeKept)
  BY TypeInit, TypeStep, AccountsInit, AccountsStep, PTL DEF Spec

(***************************************************************************)
(* The balance column is explained by the other tables for every user:      *)
(* PayAndApplyPlan, RefundToBalance and the administrator's adjustments     *)
(* move it together with the order, refund and audit rows they write.       *)
(***************************************************************************)
THEOREM BalanceExplainedByOrders == Spec => []BalanceExplained
  BY AccountsInductive, PTL

(***************************************************************************)
(* No paid day is lost and none given away: PayAndApplyPlan stacks the      *)
(* plan's days on the later of now and the current expiry, so that the      *)
(* account lasts for all the days of its paid orders, in whatever order     *)
(* they were paid, and for no more than those from now on.                  *)
(***************************************************************************)
THEOREM PaidTimeNeverLost == Spec => []PaidTimeKept
  BY AccountsInductive, PTL
=============================================================================
