---------------------------- MODULE OrderPayment ----------------------------
(***************************************************************************)
(* Orders, their payment and their fulfilment.                              *)
(*                                                                          *)
(* An order is created pending, is paid by a gateway callback (delivered    *)
(* at least once, and possibly late), from the wallet, or by an             *)
(* administrator, and is completed, cancelled or refunded.  Payment, wallet *)
(* debit and plan activation commit in one database transaction             *)
(* (PayAndApplyPlan); the runtime work that follows (marking the trial      *)
(* converted, creating the user's proxies) runs outside it, may fail or be  *)
(* cut short by a restart, and is retried by the commercial scheduler.      *)
(*                                                                          *)
(* A handler that fails or that has nothing to do changes no state and is   *)
(* not a step.  A handler that reads an order, checks its status and then   *)
(* runs a guarded statement or transaction that checks it again is one step *)
(* (the second check decides), enabled as late as the handler may stall.    *)
(***************************************************************************)
EXTENDS Wallet, FiniteSets, FiniteSetsExt

CONSTANTS
    Orders,           \* order ids, in the order in which they are created
    Plans,            \* commercial plans
    Payments,         \* payment numbers issued by the gateways
    Requests,         \* request goroutines that may be syncing at a time
    Scheduler,        \* the goroutine of planchange.Scheduler
    Price,            \* plan price in cents
    Duration,         \* plan duration in days
    OrderExpiration,  \* how long an order may be paid
    RetryLimit,       \* orders per retry pass (100 in the code)
    PlanStates,       \* what administrators turn plans into
    Adjustments,      \* amounts an administrator adjusts a wallet by
    MaxTime           \* bound on the clock

ASSUME OrderAssumption ==
    /\ Orders \subseteq Nat \ {0} /\ IsFiniteSet(Orders)
    /\ Price \in [Plans -> Nat]
    /\ Duration \in [Plans -> Nat]
    /\ OrderExpiration \in Nat
    /\ RetryLimit \in Nat \ {0}
    /\ PlanStates \subseteq {"active", "inactive", "deleted"}
    /\ Adjustments \subseteq Int
    /\ MaxTime \in Nat
    /\ Scheduler \notin Requests
    /\ {"none", "admin", "balance"} \cap Payments = {}

Workers == Requests \cup {Scheduler}

Statuses == {"absent", "pending", "paid", "completed", "cancelled", "refunded"}
Settled  == {"paid", "completed"}
\* "none" is an empty column, "admin" is ADMIN-<id>, "balance" any BALANCE-<nanos>
PaymentNos == Payments \cup {"none", "admin", "balance"}
Methods == {"none", "gateway", "balance", "manual"}
Steps == {"idle", "trial", "hook", "mark", "complete"}

VARIABLES
    now,         \* the clock
    orders,      \* table orders
    plans,       \* table commercial_plans: on sale, withdrawn or deleted
    expiresAt,   \* users.expires_at
    trial,       \* table trials: a user's trial
    jobs,        \* per goroutine, the syncFulfillment call it is in
    batch,       \* orders listed by the scheduler and not yet reached
    charges,     \* order of every charge a gateway has taken (external)
    applied,     \* history: how often an order's plan was applied to its user
    debited,     \* history: sum of an order's purchase rows in the audit table
    credited,    \* history: sum of an order's refund rows in the audit table
    provisioned, \* history: orders whose runtime hook ran after the payment
    adjusted,    \* history: sum of a user's adjustment rows
    unread       \* history: orders whose sync could not read a trial still running

orderVars == <<orders, applied, debited, credited>>
syncVars  == <<trial, jobs, batch, provisioned, unread>>
vars == <<walletVars, orderVars, syncVars, now, plans, expiresAt, charges, adjusted>>

\* A row of table orders; 0 and "none" are the columns' zero values
OrderRecord ==
    [status: Statuses, user: Users \cup {0}, plan: Plans \cup {0}, pay: Nat,
     paymentNo: PaymentNos, method: Methods, expiredAt: Nat,
     pending: BOOLEAN, refunded: Nat]

NoOrder == [status |-> "absent", user |-> 0, plan |-> 0, pay |-> 0,
            paymentNo |-> "none", method |-> "none", expiredAt |-> 0,
            pending |-> FALSE, refunded |-> 0]

\* A syncFulfillment call: its order, where it is, and whether it belongs to a
\* wallet payment, which completes the order afterwards
Job == [step: Steps, order: Orders \cup {0}, complete: BOOLEAN]
NoJob == [step |-> "idle", order |-> 0, complete |-> FALSE]

TypeOK ==
    /\ WalletTypeOK
    /\ now \in Nat
    /\ orders \in [Orders -> OrderRecord]
    /\ \A o \in Orders : orders[o].status # "absent" =>
            orders[o].user \in Users /\ orders[o].plan \in Plans
    /\ plans \in [Plans -> {"active", "inactive", "deleted"}]
    /\ expiresAt \in [Users -> Nat]
    /\ trial \in [Users -> {"none", "active", "converted"}]
    /\ jobs \in [Workers -> Job]
    /\ \A w \in Workers : jobs[w].step # "idle" => jobs[w].order \in Orders
    /\ batch \in SUBSET Orders
    /\ charges \in [Payments -> Orders \cup {0}]
    /\ applied \in [Orders -> Nat]
    /\ debited \in [Orders -> Nat]
    /\ credited \in [Orders -> Nat]
    /\ provisioned \in SUBSET Orders
    /\ adjusted \in [Users -> Int]
    /\ unread \in SUBSET Orders

-----------------------------------------------------------------------------
\* trials of the users that took one before the first order; no subscription yet
Init ==
    /\ WalletInit
    /\ now = 0
    /\ orders = [o \in Orders |-> NoOrder]
    /\ plans = [p \in Plans |-> "active"]
    /\ expiresAt = [u \in Users |-> 0]
    /\ trial \in [Users -> {"none", "active"}]
    /\ jobs = [w \in Workers |-> NoJob]
    /\ batch = {}
    /\ charges = [n \in Payments |-> 0]
    /\ applied = [o \in Orders |-> 0]
    /\ debited = [o \in Orders |-> 0]
    /\ credited = [o \in Orders |-> 0]
    /\ provisioned = {}
    /\ adjusted = [u \in Users |-> 0]
    /\ unread = {}

Idle(w) == jobs[w].step = "idle"

\* A mutated form of FirstStep: the runtime work is skipped
FirstStepForgetsHook == "mark"

\* The worker enters syncFulfillment, which begins with the trial
FirstStep == "trial"
StartSync(w, o, complete) ==
    jobs' = [jobs EXCEPT ![w] = [step |-> FirstStep, order |-> o, complete |-> complete]]

-----------------------------------------------------------------------------
(***************************************************************************)
(* order.Service.Create: a pending order for a plan on sale, for the plan's *)
(* price; coupons are refused and no balance is reserved.                   *)
(***************************************************************************)
Create(o, u, p) ==
    /\ orders[o].status = "absent"
    /\ \A x \in Orders : x < o => orders[x].status # "absent"
    /\ plans[p] = "active"
    /\ orders' = [orders EXCEPT ![o] =
          [NoOrder EXCEPT !.status = "pending", !.user = u, !.plan = p,
                          !.pay = Price[p], !.expiredAt = now + OrderExpiration]]
    /\ UNCHANGED <<walletVars, applied, debited, credited, syncVars, now, plans,
                   expiresAt, charges, adjusted>>

(***************************************************************************)
(* A customer pays at a gateway (external).  CreatePayment hands out the    *)
(* payment while the order is pending and its amount is positive; the       *)
(* customer may pay it at any later time, and more than one of them.        *)
(***************************************************************************)
GatewayCharge(o, n) ==
    /\ orders[o].status # "absent"
    /\ orders[o].pay > 0
    /\ charges[n] = 0
    /\ charges' = [charges EXCEPT ![n] = o]
    /\ UNCHANGED <<walletVars, orderVars, syncVars, now, plans, expiresAt, adjusted>>

\* A mutated form of Payable: a paid order can be paid again
PayableAgain(o) ==
    /\ orders[o].status \in {"pending", "paid"}
    /\ now <= orders[o].expiredAt
    /\ plans[orders[o].plan] # "deleted"

\* What PayAndApplyPlan requires of a pending order
Payable(o) ==
    /\ orders[o].status = "pending"
    /\ now <= orders[o].expiredAt
    /\ plans[orders[o].plan] # "deleted"

\* A mutated form of NewExpiry: the days left are forgotten
NewExpiryFromNow(u, p) == now + Duration[p]

\* The plan's days count from the later of now and the current expiry
NewExpiry(u, p) == (IF expiresAt[u] > now THEN expiresAt[u] ELSE now) + Duration[p]

(***************************************************************************)
(* PayAndApplyPlan on a pending order, one transaction: the order is paid,  *)
(* the wallet is debited when it pays, the plan's days are added to the     *)
(* later of now and the current expiry, and the runtime work is recorded as *)
(* pending.  Pay then enters syncFulfillment.  A missing plan, an expired   *)
(* order or a refused debit rolls everything back.                          *)
(***************************************************************************)
PayAndApplyPlan(w, o, paymentNo, method, useBalance) ==
    /\ Payable(o)
    /\ orders' = [orders EXCEPT ![o] =
          [@ EXCEPT !.status = "paid", !.paymentNo = paymentNo, !.method = method,
                    !.pending = TRUE]]
    /\ \/ /\ useBalance
          /\ DebitAtomic(orders[o].user, orders[o].pay)
          /\ debited' = [debited EXCEPT ![o] = @ + orders[o].pay]
       \/ ~useBalance /\ UNCHANGED <<walletVars, debited>>
    /\ expiresAt' = [expiresAt EXCEPT ![orders[o].user] =
                        NewExpiry(orders[o].user, orders[o].plan)]
    /\ applied' = [applied EXCEPT ![o] = @ + 1]
    /\ provisioned' = provisioned \ {o}
    /\ StartSync(w, o, useBalance)
    /\ UNCHANGED <<credited, trial, batch, now, plans, charges, adjusted, unread>>

(***************************************************************************)
(* PayAndApplyPlan on an order that is already paid by the same payment (or *)
(* from the wallet, for a second wallet payment): nothing is applied again, *)
(* but Pay enters syncFulfillment if the runtime work is still pending, and *)
(* a wallet payment goes on to complete the order in any case.              *)
(***************************************************************************)
ReplayPayment(w, o, paymentNo, useBalance) ==
    /\ orders[o].status \in Settled
    /\ orders[o].paymentNo = paymentNo \/ (useBalance /\ orders[o].method = "balance")
    /\ \/ orders[o].pending /\ StartSync(w, o, useBalance)
       \/ /\ ~orders[o].pending /\ useBalance
          /\ jobs' = [jobs EXCEPT ![w] = [step |-> "complete", order |-> o, complete |-> TRUE]]
    /\ UNCHANGED <<walletVars, orderVars, trial, batch, provisioned, now, plans,
                   expiresAt, charges, adjusted, unread>>

Pay(w, o, paymentNo, method, useBalance) ==
    /\ Idle(w)
    /\ \/ PayAndApplyPlan(w, o, paymentNo, method, useBalance)
       \/ ReplayPayment(w, o, paymentNo, useBalance)

\* HandleCallback for a charge the gateway took: delivered any number of times.
\* The amount it carries is the order's, which never changes.
HandleCallback(w, n) ==
    /\ charges[n] # 0
    /\ Pay(w, charges[n], n, "gateway", FALSE)

\* CreatePayment with method "balance"
CreateBalancePayment(w, o) == Pay(w, o, "balance", "balance", TRUE)

\* UpdateStatus(paid) by an administrator
AdminPay(w, o) == Pay(w, o, "admin", "manual", FALSE)

-----------------------------------------------------------------------------
(***************************************************************************)
(* syncFulfillment, step by step: mark the trial converted, run the hook    *)
(* that creates the user's proxies, clear the flag.  Any step may fail and  *)
(* abandon the rest (SyncFails), except that a trial that cannot be read is *)
(* taken for none: the sync goes on and leaves it as it is.                 *)
(***************************************************************************)
MarkConverted(w) ==
    LET u == orders[jobs[w].order].user IN
    /\ jobs[w].step = "trial"
    /\ trial' = [trial EXCEPT ![u] = IF @ = "none" THEN @ ELSE "converted"]
    /\ unread' = {o \in unread : orders[o].user # u}
    /\ jobs' = [jobs EXCEPT ![w].step = "hook"]
    /\ UNCHANGED <<walletVars, orderVars, batch, provisioned, now, plans,
                   expiresAt, charges, adjusted>>

\* Any error of GetByUserID is answered ErrTrialNotFound, which the sync ignores
TrialLookupFails(w) ==
    /\ jobs[w].step = "trial"
    /\ jobs' = [jobs EXCEPT ![w].step = "hook"]
    /\ unread' = unread \cup {o \in {jobs[w].order} : trial[orders[o].user] = "active"}
    /\ UNCHANGED <<walletVars, orderVars, trial, batch, provisioned, now, plans,
                   expiresAt, charges, adjusted>>

AfterPlanApplied(w) ==
    /\ jobs[w].step = "hook"
    /\ provisioned' = provisioned \cup {jobs[w].order}
    /\ jobs' = [jobs EXCEPT ![w].step = "mark"]
    /\ UNCHANGED <<walletVars, orderVars, trial, batch, now, plans, expiresAt,
                   charges, adjusted, unread>>

MarkFulfillmentSynced(w) ==
    /\ jobs[w].step = "mark"
    /\ orders' = [orders EXCEPT ![jobs[w].order].pending = FALSE]
    /\ jobs' = [jobs EXCEPT ![w] = IF @.complete THEN [@ EXCEPT !.step = "complete"]
                                                 ELSE NoJob]
    /\ UNCHANGED <<walletVars, applied, debited, credited, trial, batch, provisioned,
                   now, plans, expiresAt, charges, adjusted, unread>>

SyncFails(w) ==
    /\ ~Idle(w)
    /\ jobs' = [jobs EXCEPT ![w] = NoJob]
    /\ UNCHANGED <<walletVars, orderVars, trial, batch, provisioned, now, plans,
                   expiresAt, charges, adjusted, unread>>

\* createBalancePayment ends with Complete, whose error it ignores
CompleteBalancePayment(w) ==
    /\ jobs[w].step = "complete"
    /\ orders' = [orders EXCEPT ![jobs[w].order].status =
                                IF @ = "paid" THEN "completed" ELSE @]
    /\ jobs' = [jobs EXCEPT ![w] = NoJob]
    /\ UNCHANGED <<walletVars, applied, debited, credited, trial, batch, provisioned,
                   now, plans, expiresAt, charges, adjusted, unread>>

\* A mutated form of PendingFulfillments: completed orders are not listed
PaidFulfillments == {o \in Orders : orders[o].pending /\ orders[o].status = "paid"}

\* Orders that ListPendingFulfillments returns: the first RetryLimit of them by id
PendingFulfillments == {o \in Orders : orders[o].pending /\ orders[o].status \in Settled}
ListPendingFulfillments ==
    {o \in PendingFulfillments :
        Cardinality({x \in PendingFulfillments : x < o}) < RetryLimit}

(***************************************************************************)
(* RetryPendingFulfillments, once a minute: list, then sync one by one in   *)
(* the order of the ids, whatever became of an order since it was listed.   *)
(***************************************************************************)
ListForRetry ==
    /\ Idle(Scheduler) /\ batch = {}
    /\ ListPendingFulfillments # {}
    /\ batch' = ListPendingFulfillments
    /\ UNCHANGED <<walletVars, orderVars, trial, jobs, provisioned, now, plans,
                   expiresAt, charges, adjusted, unread>>

RetryNext ==
    /\ Idle(Scheduler)
    /\ \E o \in batch :
          /\ \A x \in batch : o <= x
          /\ batch' = batch \ {o}
          /\ StartSync(Scheduler, o, FALSE)
    /\ UNCHANGED <<walletVars, orderVars, trial, provisioned, now, plans,
                   expiresAt, charges, adjusted, unread>>

\* The process stops and starts again: goroutines are gone, tables stay
Restart ==
    /\ jobs' = [w \in Workers |-> NoJob]
    /\ batch' = {}
    /\ UNCHANGED <<walletVars, orderVars, trial, provisioned, now, plans,
                   expiresAt, charges, adjusted, unread>>

-----------------------------------------------------------------------------
\* A mutated form of AllowedFrom: any status may be left
AllowedFromAny(status) == {"pending", "paid", "completed"}

\* From which status the guarded UPDATE of UpdateStatus accepts a new one
AllowedFrom(status) ==
    CASE status = "cancelled" -> {"pending"}
      [] status = "paid"      -> {"pending"}
      [] status = "completed" -> {"paid"}
      [] status = "refunded"  -> Settled

\* Cancel; there is nothing to return, since Create reserves no balance
Cancel(o) ==
    /\ orders[o].status \in AllowedFrom("cancelled")
    /\ orders' = [orders EXCEPT ![o].status = "cancelled"]
    /\ UNCHANGED <<walletVars, applied, debited, credited, syncVars, now, plans,
                   expiresAt, charges, adjusted>>

\* ExpirePendingOrders, for one order of its list
ExpirePending(o) ==
    /\ now > orders[o].expiredAt
    /\ Cancel(o)

\* Complete, and UpdateStatus(completed)
Complete(o) ==
    /\ orders[o].status \in AllowedFrom("completed")
    /\ orders' = [orders EXCEPT ![o].status = "completed"]
    /\ UNCHANGED <<walletVars, applied, debited, credited, syncVars, now, plans,
                   expiresAt, charges, adjusted>>

\* A mutated form of Refundable: a refunded order can be refunded again
RefundableAgain(o) == orders[o].status \in Settled \cup {"refunded"}

(***************************************************************************)
(* RefundToBalance, one transaction: a paid or completed order is refunded  *)
(* in whole or in part to the wallet, once, whatever it was paid with.      *)
(***************************************************************************)
Refundable(o) == orders[o].status \in Settled
RefundToBalance(o, amount) ==
    /\ Refundable(o)
    /\ amount <= orders[o].pay
    /\ orders' = [orders EXCEPT ![o] =
          [@ EXCEPT !.status = "refunded", !.refunded = amount, !.pending = FALSE]]
    /\ CreditAtomic(orders[o].user, amount)
    /\ credited' = [credited EXCEPT ![o] = @ + amount]
    /\ UNCHANGED <<applied, debited, syncVars, now, plans, expiresAt, charges, adjusted>>

AdjustBalance(u, amount) ==
    /\ Adjust(u, amount)
    /\ adjusted' = [adjusted EXCEPT ![u] = @ + amount]
    /\ UNCHANGED <<orderVars, syncVars, now, plans, expiresAt, charges>>

\* plan.Service.SetActive and Delete (which leaves the orders of the plan alone)
SetPlan(p, state) ==
    /\ plans[p] # "deleted" /\ plans[p] # state
    /\ plans' = [plans EXCEPT ![p] = state]
    /\ UNCHANGED <<walletVars, orderVars, syncVars, now, expiresAt, charges, adjusted>>

Tick ==
    /\ now < MaxTime
    /\ now' = now + 1
    /\ UNCHANGED <<walletVars, orderVars, syncVars, plans, expiresAt, charges, adjusted>>

-----------------------------------------------------------------------------
\* syncFulfillment and what follows it, in whichever goroutine runs it
Sync(w) ==
    \/ MarkConverted(w)
    \/ TrialLookupFails(w)
    \/ AfterPlanApplied(w)
    \/ MarkFulfillmentSynced(w)
    \/ CompleteBalancePayment(w)

Next ==
    \/ \E o \in Orders, u \in Users, p \in Plans : Create(o, u, p)
    \/ \E o \in Orders, n \in Payments : GatewayCharge(o, n)
    \/ \E w \in Requests, n \in Payments : HandleCallback(w, n)
    \/ \E w \in Requests, o \in Orders : CreateBalancePayment(w, o)
    \/ \E w \in Requests, o \in Orders : AdminPay(w, o)
    \/ \E w \in Workers : Sync(w)
    \/ \E w \in Workers : SyncFails(w)
    \/ ListForRetry
    \/ RetryNext
    \/ Restart
    \/ \E o \in Orders : Cancel(o)
    \/ \E o \in Orders : ExpirePending(o)
    \/ \E o \in Orders : Complete(o)
    \/ \E o \in Orders : \E amount \in 1..orders[o].pay : RefundToBalance(o, amount)
    \/ \E u \in Users, amount \in Adjustments : AdjustBalance(u, amount)
    \/ \E p \in Plans, state \in PlanStates : SetPlan(p, state)
    \/ Tick

Spec == Init /\ [][Next]_vars

(***************************************************************************)
(* Fairness.  planchange.Scheduler runs a pass when the process starts and  *)
(* then every minute, so a pass that restarts keep cutting short is still   *)
(* begun again and again; a step of syncFulfillment can fail, but not every *)
(* time it is tried: the failures it retries are transient.                 *)
(***************************************************************************)
Fairness ==
    /\ WF_vars(ListForRetry)
    /\ SF_vars(RetryNext)
    /\ SF_vars(MarkConverted(Scheduler) \/ TrialLookupFails(Scheduler))
    /\ SF_vars(AfterPlanApplied(Scheduler))
    /\ SF_vars(MarkFulfillmentSynced(Scheduler))

FairSpec == Spec /\ Fairness

-----------------------------------------------------------------------------
(***************************************************************************)
(* Payment is exactly-once, whatever callbacks, wallet payments and         *)
(* administrators race for an order: the plan was applied once if the order *)
(* was ever paid and never otherwise, and the wallet rows of the order add  *)
(* up to its price if the wallet paid it and to nothing otherwise.          *)
(***************************************************************************)
PaidOnce ==
    \A o \in Orders :
        /\ applied[o] = IF orders[o].status \in Settled \cup {"refunded"} THEN 1 ELSE 0
        /\ debited[o] = IF orders[o].method = "balance" THEN orders[o].pay ELSE 0

(***************************************************************************)
(* A refund is one terminal operation per order: the refund rows of an      *)
(* order add up to the amount recorded on it, never to more than was paid,  *)
(* and an order that is not refunded has none.                              *)
(***************************************************************************)
RefundedOnce ==
    \A o \in Orders :
        /\ credited[o] = orders[o].refunded
        /\ credited[o] <= orders[o].pay
        /\ orders[o].status = "refunded" <=> credited[o] > 0

\* The orders of u that the wallet paid, and the ones refunded to it
WalletPaid(u) == {o \in Orders : /\ orders[o].user = u /\ orders[o].method = "balance"
                                 /\ orders[o].status \in Settled \cup {"refunded"}}
RefundedTo(u) == {o \in Orders : orders[o].user = u /\ orders[o].status = "refunded"}

(***************************************************************************)
(* The balance column is explained by the other tables: what was adjusted,  *)
(* less the price of every order the wallet paid, plus every refund; and    *)
(* the audit rows add up to it.                                             *)
(***************************************************************************)
BalanceExplained ==
    \A u \in Users :
        /\ balance[u] = audited[u]
        /\ balance[u] = adjusted[u]
              - SumFunctionOnSet([o \in Orders |-> orders[o].pay], WalletPaid(u))
              + SumFunctionOnSet([o \in Orders |-> orders[o].refunded], RefundedTo(u))

\* The orders of u that were ever paid, and their days
PaidOrders(u) == {o \in Orders : orders[o].user = u /\ orders[o].status \in Settled \cup {"refunded"}}
PaidDays(u) == SumFunctionOnSet([o \in Orders |-> Duration[orders[o].plan]], PaidOrders(u))

(***************************************************************************)
(* No paid day is lost and none is given away, in whatever order a user's   *)
(* orders are paid: they stack on the current expiry, so that the account   *)
(* is valid for at least the days paid for, and expires no later than those *)
(* days after now.                                                          *)
(***************************************************************************)
PaidTimeKept ==
    \A u \in Users :
        /\ expiresAt[u] >= PaidDays(u)
        /\ expiresAt[u] <= now + PaidDays(u)

(***************************************************************************)
(* The user of an order is off trial, or the trial could not be read when   *)
(* the order was synced.                                                    *)
(***************************************************************************)
TrialEnded(o) == trial[orders[o].user] # "active" \/ o \in unread

(***************************************************************************)
(* fulfillment_pending is cleared only by work that was done: a paid order  *)
(* without it had its runtime hook run after its payment, although several  *)
(* goroutines may sync one order and any of them may be cut short anywhere; *)
(* and its user is no longer on trial, unless a sync of this very order     *)
(* could not read the trial (trial.MarkConverted answers any error with     *)
(* ErrTrialNotFound, which syncFulfillment takes for a user without one).   *)
(***************************************************************************)
SyncedMeansProvisioned ==
    \A o \in Orders :
        orders[o].status \in Settled /\ ~orders[o].pending =>
            o \in provisioned /\ TrialEnded(o)

(***************************************************************************)
(* The strengthening that makes the invariants above inductive.  Books:     *)
(* what the columns of an order say together, status by status.             *)
(***************************************************************************)
Unpaid == {"absent", "pending", "cancelled"}

Books ==
    \A o \in Orders :
        /\ orders[o].status \in Unpaid =>
              /\ orders[o].method = "none" /\ orders[o].paymentNo = "none"
              /\ ~orders[o].pending
              /\ applied[o] = 0 /\ debited[o] = 0
        /\ orders[o].status \notin Unpaid =>
              /\ orders[o].method # "none" /\ orders[o].paymentNo # "none"
              /\ applied[o] = 1
              /\ debited[o] = IF orders[o].method = "balance" THEN orders[o].pay ELSE 0
        /\ orders[o].status # "refunded" => credited[o] = 0 /\ orders[o].refunded = 0
        /\ orders[o].status = "refunded" =>
              credited[o] = orders[o].refunded /\ credited[o] \in 1..orders[o].pay

(***************************************************************************)
(* SyncBooks: a goroutine syncs, or the scheduler has listed, only orders   *)
(* that were paid; what it has done by the step it is at stays done.        *)
(***************************************************************************)
SyncBooks ==
    /\ \A o \in batch : orders[o].status \notin Unpaid
    /\ \A w \in Workers : jobs[w].step # "idle" =>
          LET o == jobs[w].order IN
          /\ orders[o].status \notin Unpaid
          /\ jobs[w].step \in {"hook", "mark"} => TrialEnded(o)
          /\ jobs[w].step = "mark" => o \in provisioned

IInv == TypeOK /\ Books /\ SyncBooks /\ SyncedMeansProvisioned

(***************************************************************************)
(* Once paid, an order keeps the payment that paid it: no later callback,   *)
(* wallet payment or administrator replaces its payment number, method,     *)
(* owner or amount.                                                         *)
(***************************************************************************)
PaymentKept ==
    [][\A o \in Orders : orders[o].paymentNo # "none" =>
          /\ orders'[o].paymentNo = orders[o].paymentNo
          /\ orders'[o].method = orders[o].method
          /\ orders'[o].user = orders[o].user
          /\ orders'[o].pay = orders[o].pay]_vars

(***************************************************************************)
(* Runtime work that was recorded as pending is eventually done, through    *)
(* failures of its steps and restarts of the process.                       *)
(***************************************************************************)
EventuallySynced ==
    \A o \in Orders : orders[o].pending ~> ~orders[o].pending

-----------------------------------------------------------------------------
(***************************************************************************)
(* What an order promises: OrderPromise, read off the tables.               *)
(***************************************************************************)
Phase(status) ==
    CASE status = "absent"    -> "none"
      [] status = "pending"   -> "open"
      [] status \in Settled   -> "settled"
      [] status = "cancelled" -> "closed"
      [] status = "refunded"  -> "returned"

Promise == INSTANCE OrderPromise WITH
    phase    <- [o \in Orders |-> Phase(orders[o].status)],
    price    <- [o \in Orders |-> orders[o].pay],
    granted  <- applied,
    taken    <- debited,
    returned <- credited

\* The order tables implement the promise (PayAndApplyPlan, RefundToBalance
\* and the guarded status updates taken together).
KeepsPromise == Promise!Spec
=============================================================================
