---------------------------- MODULE Subscription ----------------------------
(***************************************************************************)
(* The subscription of one user: purchases extend it, the user pauses and   *)
(* resumes it, changes to a dearer plan at once and to a cheaper one when   *)
(* the paid time is over.  The expiry, the plan and the wallet are columns  *)
(* of one users row; pauses and the pending downgrade have tables of their  *)
(* own.                                                                     *)
(*                                                                          *)
(* Pause and Resume are several statements without a transaction, and save  *)
(* the whole row they read first.  A purchase (PayAndApplyPlan), an upgrade *)
(* (UpgradeAndDebit) and a due downgrade (ApplyDueDowngrade) are one        *)
(* transaction each, the upgrade after a quote that was computed earlier.   *)
(* Time is counted in ticks, TicksPerDay of them to a day, because a pause  *)
(* keeps whole days only.  A request is short against a tick; an operation  *)
(* of tick t comes after the instant t, so that "After(now)" is > now and   *)
(* "Before(now)" is <= now.  Traffic quotas are left out.                   *)
(***************************************************************************)
EXTENDS Integers, Sequences, FiniteSets, FiniteSetsExt

CONSTANTS
    Plans,             \* commercial_plans, by id
    NoPlan,            \* current_plan_id = 0
    Price,             \* Price[p]: the plan's price
    Duration,          \* Duration[p]: its days
    Requests,          \* requests that can be under way at once
    TicksPerDay,       \* how finely a day is divided
    MaxDuration,       \* Config.MaxDuration, in days
    MaxPerCycle,       \* Config.MaxPerCycle
    CycleDays,         \* the 30 days of getRemainingPausesInCycle
    Balance,           \* what the wallet holds at first
    MaxTime,           \* bound: the clock stops here
    MaxBuys,           \* bound: purchases
    MaxPauses,         \* bound: rows of subscription_pauses
    MaxOffSale         \* bound: plans that are off sale or deleted at a time

ASSUME SubscriptionAssumption ==
    /\ NoPlan \notin Plans
    /\ Price \in [Plans -> Nat]
    /\ Duration \in [Plans -> Nat \ {0}]
    /\ TicksPerDay \in Nat \ {0}
    /\ {MaxDuration, MaxPerCycle, CycleDays, Balance} \subseteq Nat
    /\ {MaxTime, MaxBuys, MaxPauses, MaxOffSale} \subseteq Nat

VARIABLES
    now,       \* time.Now(), in ticks
    user,      \* expires_at, current_plan_* and balance of the users row
    pauses,    \* subscription_pauses, oldest first
    pending,   \* the user's row of pending_downgrades, unique by user_id
    catalogue, \* of every plan, whether it is on sale, off sale or deleted
    ordered,   \* the plan of the order that was paid last
    req,       \* per request, where it stands and what it has read
    buys,      \* purchases made so far
    owed,      \* history: the ticks paid for less the ticks served
    due,       \* history: the plan the user paid for last
    surplus,   \* history: ticks that overlapping or half-made pauses and resumes left in
               \* both tables, less those over which they saved an older row
    displaced  \* history: since the last purchase or upgrade the plan was replaced by an
               \* older row, or by a downgrade that came due during a pause

historyVars == <<owed, due, surplus, displaced>>
subscriptionVars == <<now, user, pauses, pending, catalogue, ordered, req, buys, historyVars>>

\* expires_at IS NULL: the subscription, if there is one, does not end
Nil == -1

\* permanentPauseRemainingDays
PermanentRemainingDays == -1

NoDowngrade == [from |-> NoPlan, to |-> NoPlan, at |-> 0]
Idle == [at |-> "idle"]

UserRow == [expires: Nat \cup {Nil}, plan: Plans \cup {NoPlan}, price: Nat, days: Nat, balance: Nat]
SubscriptionPause == [at: Nat, days: Nat \cup {PermanentRemainingDays}, autoResume: Nat, resumed: BOOLEAN]
PendingDowngrade == [from: Plans, to: Plans, at: Nat]

Request ==
    {Idle}
    \cup [at: {"pausing"}]
    \cup [at: {"stopping"}, row: UserRow]
    \cup [at: {"resuming"}, row: UserRow, pause: Nat]
    \cup [at: {"closing"}, pause: Nat]
    \cup [at: {"upgrading", "downgrading"}, from: Plans, to: Plans]

SubscriptionTypeOK ==
    /\ now \in Nat
    /\ user \in UserRow
    /\ pauses \in Seq(SubscriptionPause)
    /\ pending \in PendingDowngrade \cup {NoDowngrade}
    /\ catalogue \in [Plans -> {"active", "inactive", "deleted"}]
    /\ ordered \in Plans \cup {NoPlan}
    /\ req \in [Requests -> Request]
    /\ buys \in Nat
    /\ owed \in Int
    /\ due \in Plans \cup {NoPlan}
    /\ surplus \in Int
    /\ displaced \in BOOLEAN

\* A registered user without a subscription
SubscriptionInit ==
    /\ now = 0
    /\ user = [expires |-> Nil, plan |-> NoPlan, price |-> 0, days |-> 0, balance |-> Balance]
    /\ pauses = << >>
    /\ pending = NoDowngrade
    /\ catalogue = [p \in Plans |-> "active"]
    /\ ordered = NoPlan
    /\ req = [r \in Requests |-> Idle]
    /\ buys = 0
    /\ owed = 0
    /\ due = NoPlan
    /\ surplus = 0
    /\ displaced = FALSE

\* ExpiresAt.After(now), of a subscription that ends
Running == user.expires # Nil /\ user.expires > now

\* The time that is left in a users row
TicksLeft(row) == IF row.expires # Nil /\ row.expires > now THEN row.expires - now ELSE 0

\* The time that a pause keeps for the user
TicksKept(pause) == IF pause.days > 0 THEN pause.days * TicksPerDay ELSE 0

\* int(ExpiresAt.Sub(now).Hours() / 24)
WholeDays(t) == (t - now) \div TicksPerDay

(***************************************************************************)
(* Pause and resume                                                         *)
(***************************************************************************)

OpenPauses == {i \in DOMAIN pauses : ~pauses[i].resumed}

\* GetActivePause: the latest one that was not resumed
ActivePause == CHOOSE i \in OpenPauses : \A j \in OpenPauses : j <= i

\* the cycle began CycleDays before the expiry, but not before the user did
CycleStart ==
    LET start == user.expires - CycleDays * TicksPerDay
    IN IF user.expires = Nil \/ start < 0 THEN 0 ELSE start

PausesInCycle == {i \in DOMAIN pauses : pauses[i].at >= CycleStart /\ pauses[i].at <= now}

CanPause ==
    /\ user.expires = Nil \/ user.expires > now
    /\ OpenPauses = {}
    /\ Cardinality(PausesInCycle) < MaxPerCycle

\* A mutated form of RemainingDays: a part of a day counts as a day
RemainingDaysRoundedUp(expires) ==
    IF expires = Nil THEN PermanentRemainingDays
    ELSE IF expires <= now THEN 0 ELSE WholeDays(expires) + 1

\* The days Pause writes down: at least one
RemainingDays(expires) ==
    IF expires = Nil THEN PermanentRemainingDays
    ELSE IF expires <= now THEN 0
    ELSE IF WholeDays(expires) < 1 THEN 1 ELSE WholeDays(expires)

CheckPause(r) ==
    /\ req[r] = Idle
    /\ CanPause
    /\ Len(pauses) < MaxPauses
    /\ req' = [req EXCEPT ![r] = [at |-> "pausing"]]
    /\ UNCHANGED <<now, user, pauses, pending, catalogue, ordered, buys, historyVars>>

\* reads the row again and creates the record of the pause
RecordPause(r) ==
    /\ req[r].at = "pausing"
    /\ pauses' = Append(pauses,
           [at |-> now, days |-> RemainingDays(user.expires),
            autoResume |-> now + MaxDuration * TicksPerDay, resumed |-> FALSE])
    /\ req' = [req EXCEPT ![r] = [at |-> "stopping", row |-> user]]
    /\ UNCHANGED <<now, user, pending, catalogue, ordered, buys, historyVars>>

\* saves the whole row read before, with the expiry set to now
StopSubscription(r) ==
    /\ req[r].at = "stopping"
    /\ user' = [req[r].row EXCEPT !.expires = now]
    /\ req' = [req EXCEPT ![r] = Idle]
    /\ surplus' = surplus + TicksLeft(req[r].row) - TicksLeft(user)
    /\ displaced' = (displaced \/ req[r].row.plan # user.plan)
    /\ UNCHANGED <<now, pauses, pending, catalogue, ordered, buys, owed, due>>

ReadPause(r) ==
    /\ req[r] = Idle
    /\ OpenPauses # {}
    /\ req' = [req EXCEPT ![r] = [at |-> "resuming", row |-> user, pause |-> ActivePause]]
    /\ UNCHANGED <<now, user, pauses, pending, catalogue, ordered, buys, historyVars>>

\* A mutated form of ResumedExpiry: the days are counted from the pause on
ResumedExpiryFromPause(pause) ==
    IF pause.days >= 0 THEN pause.at + pause.days * TicksPerDay ELSE Nil

\* the expiry Resume writes
ResumedExpiry(pause) ==
    IF pause.days >= 0 THEN now + pause.days * TicksPerDay ELSE Nil

RestoreSubscription(r) ==
    /\ req[r].at = "resuming"
    /\ user' = [req[r].row EXCEPT !.expires = ResumedExpiry(pauses[req[r].pause])]
    /\ req' = [req EXCEPT ![r] = [at |-> "closing", pause |-> req[r].pause]]
    /\ surplus' = surplus - TicksLeft(user)
    /\ displaced' = (displaced \/ req[r].row.plan # user.plan)
    /\ UNCHANGED <<now, pauses, pending, catalogue, ordered, buys, owed, due>>

ClosePause(r) ==
    /\ req[r].at = "closing"
    /\ pauses' = [pauses EXCEPT ![req[r].pause].resumed = TRUE]
    /\ req' = [req EXCEPT ![r] = Idle]
    /\ surplus' = IF req[r].pause \in OpenPauses THEN surplus ELSE surplus + TicksKept(pauses[req[r].pause])
    /\ UNCHANGED <<now, user, pending, catalogue, ordered, buys, owed, due, displaced>>

\* AutoResumePaused resumes the user of every open pause that is due
AutoResume(r) ==
    /\ \E i \in OpenPauses : pauses[i].autoResume <= now
    /\ ReadPause(r)

(***************************************************************************)
(* Plan changes                                                             *)
(***************************************************************************)

(***************************************************************************)
(* currentPlan: what the users row says, or the order that was paid last if *)
(* the row names no plan.  It fails when the plan has been deleted.         *)
(***************************************************************************)
CurrentPlan == IF user.plan # NoPlan THEN user.plan ELSE ordered
PlanKnown == CurrentPlan \in Plans /\ catalogue[CurrentPlan] # "deleted"
CurrentPrice == IF user.plan # NoPlan THEN user.price ELSE Price[ordered]
CurrentDays == IF user.days > 0 THEN user.days ELSE Duration[CurrentPlan]

\* CalculateChange: the subscription runs, on a known plan, and the other plan
\* is on sale; says whether the change would be an upgrade
CalculateChange(new, upgrade) ==
    /\ Running
    /\ PlanKnown /\ CurrentPlan # new
    /\ catalogue[new] = "active"
    /\ upgrade <=> Price[new] > CurrentPrice

QuoteUpgrade(r, new) ==
    /\ req[r] = Idle
    /\ CalculateChange(new, TRUE)
    /\ req' = [req EXCEPT ![r] = [at |-> "upgrading", from |-> CurrentPlan, to |-> new]]
    /\ UNCHANGED <<now, user, pauses, pending, catalogue, ordered, buys, historyVars>>

\* PlanProration
PlanProration(old, new, remaining, total) == ((new - old) * remaining) \div total

\* What UpgradeAndDebit debits
UpgradeCost(new) == PlanProration(CurrentPrice, Price[new], WholeDays(user.expires), CurrentDays)

\* A mutated form of UpgradeRefused: the wallet is not looked at
UpgradeRefusedUnlessDearer(q) ==
    ~Running \/ ~PlanKnown \/ CurrentPlan # q.from \/ catalogue[q.to] # "active" \/ Price[q.to] <= CurrentPrice

UpgradeRefused(q) ==
    \/ ~Running
    \/ ~PlanKnown \/ CurrentPlan # q.from
    \/ catalogue[q.to] # "active"
    \/ Price[q.to] <= CurrentPrice
    \/ UpgradeCost(q.to) > user.balance

\* UpgradeAndDebit, one transaction
UpgradeAndDebit(r) ==
    LET new == req[r].to IN
    /\ req[r].at = "upgrading"
    /\ req' = [req EXCEPT ![r] = Idle]
    /\ \/ /\ UpgradeRefused(req[r])
          /\ UNCHANGED <<user, pending, due, displaced>>
       \/ /\ ~UpgradeRefused(req[r])
          /\ user' = [user EXCEPT !.plan = new, !.price = Price[new],
                                  !.days = Duration[new], !.balance = @ - UpgradeCost(new)]
          /\ pending' = NoDowngrade
          /\ due' = new
          /\ displaced' = FALSE
    /\ UNCHANGED <<now, pauses, catalogue, ordered, buys, owed, surplus>>

QuoteDowngrade(r, new) ==
    /\ req[r] = Idle
    /\ CalculateChange(new, FALSE)
    /\ pending = NoDowngrade
    /\ req' = [req EXCEPT ![r] = [at |-> "downgrading", from |-> CurrentPlan, to |-> new]]
    /\ UNCHANGED <<now, user, pauses, pending, catalogue, ordered, buys, historyVars>>

\* CreatePendingDowngrade, at the expiry the row shows now; user_id is unique
ScheduleDowngrade(r) ==
    /\ req[r].at = "downgrading"
    /\ req' = [req EXCEPT ![r] = Idle]
    /\ pending' = IF pending = NoDowngrade /\ user.expires # Nil
                  THEN [from |-> req[r].from, to |-> req[r].to, at |-> user.expires]
                  ELSE pending
    /\ UNCHANGED <<now, user, pauses, catalogue, ordered, buys, historyVars>>

\* Cancelling without a scheduled downgrade deletes no row
CancelPendingDowngrade ==
    /\ pending' = NoDowngrade
    /\ UNCHANGED <<now, user, pauses, catalogue, ordered, req, buys, historyVars>>

\* A mutated form of DowngradeStale: a renewal does not count
DowngradeStaleByPlan == CurrentPlan # pending.from

\* A renewal or an upgrade has made the scheduled downgrade stale
DowngradeStale ==
    \/ CurrentPlan # pending.from
    \/ user.expires # Nil /\ user.expires > pending.at

\* A pause is open, or about to be resumed
Paused == OpenPauses # {} \/ \E r \in Requests : req[r].at = "resuming"

\* The user is moved to the scheduled plan
Downgrade ==
    /\ user' = [user EXCEPT !.plan = pending.to, !.price = Price[pending.to],
                            !.days = Duration[pending.to]]
    /\ displaced' = (displaced \/ Paused)

(***************************************************************************)
(* ApplyDueDowngrade, one transaction.  It rolls back while the new plan is *)
(* not on sale and when the current one was deleted, and the scheduler      *)
(* tries again.                                                             *)
(***************************************************************************)
ApplyDueDowngrade ==
    /\ pending # NoDowngrade /\ pending.at <= now
    /\ PlanKnown
    /\ pending' = NoDowngrade
    /\ \/ DowngradeStale /\ UNCHANGED <<user, displaced>>
       \/ ~DowngradeStale /\ catalogue[pending.to] = "active" /\ Downgrade
    /\ UNCHANGED <<now, pauses, catalogue, ordered, req, buys, owed, due, surplus>>

(***************************************************************************)
(* Purchases, the catalogue and the clock                                   *)
(***************************************************************************)

\* What a request in the middle of a pause or resume has written into one of the two
\* tables and not yet taken out of the other
HalfDone(r) ==
    CASE req[r].at = "stopping" -> TicksLeft(req[r].row)
      [] req[r].at = "closing" -> TicksKept(pauses[req[r].pause])
      [] OTHER -> 0

PauseUnderWay == \E r \in Requests : req[r].at \in {"pausing", "stopping", "resuming", "closing"}

\* What PayAndApplyPlan does to the users row; the order may be older than the
\* plan's last change, but its plan must exist
BuyPlan(p) ==
    /\ buys < MaxBuys
    /\ catalogue[p] # "deleted"
    /\ user' = [user EXCEPT !.expires = (IF Running THEN user.expires ELSE now)
                                         + Duration[p] * TicksPerDay,
                            !.plan = p, !.price = Price[p], !.days = Duration[p]]
    /\ ordered' = p
    /\ owed' = owed + Duration[p] * TicksPerDay
    /\ due' = p
    /\ displaced' = FALSE
    /\ buys' = buys + 1
    /\ UNCHANGED <<now, pauses, pending, catalogue, req, surplus>>

\* the administrator takes a plan off sale, puts it back or deletes it, in use or not
SetPlan(p, status) ==
    /\ catalogue[p] \notin {"deleted", status}
    /\ catalogue' = [catalogue EXCEPT ![p] = status]
    /\ Cardinality({q \in Plans : catalogue'[q] # "active"}) <= MaxOffSale
    /\ UNCHANGED <<now, user, pauses, pending, ordered, req, buys, historyVars>>

\* A statement fails, or the panel stops, in the middle of a request
Abandon(r) ==
    /\ req[r] # Idle
    /\ req' = [req EXCEPT ![r] = Idle]
    /\ surplus' = surplus + HalfDone(r)
    /\ UNCHANGED <<now, user, pauses, pending, catalogue, ordered, buys, owed, due, displaced>>

Tick ==
    /\ now < MaxTime
    /\ \A r \in Requests : req[r] = Idle
    /\ now' = now + 1
    /\ owed' = IF Running THEN owed - 1 ELSE owed
    /\ UNCHANGED <<user, pauses, pending, catalogue, ordered, req, buys, due, surplus, displaced>>

SubscriptionNext ==
    \/ \E r \in Requests :
        \/ CheckPause(r) \/ RecordPause(r) \/ StopSubscription(r)
        \/ ReadPause(r) \/ AutoResume(r) \/ RestoreSubscription(r) \/ ClosePause(r)
        \/ UpgradeAndDebit(r) \/ ScheduleDowngrade(r) \/ Abandon(r)
        \/ \E p \in Plans : QuoteUpgrade(r, p) \/ QuoteDowngrade(r, p)
    \/ \E p \in Plans : BuyPlan(p) \/ \E status \in {"active", "inactive", "deleted"} : SetPlan(p, status)
    \/ CancelPendingDowngrade
    \/ ApplyDueDowngrade
    \/ Tick

SubscriptionSpec == SubscriptionInit /\ [][SubscriptionNext]_subscriptionVars

(***************************************************************************)
(* Properties                                                               *)
(***************************************************************************)

\* What the user can still use: the days of open pauses and the running time
PausedTime == SumFunctionOnSet([i \in DOMAIN pauses |-> TicksKept(pauses[i])], OpenPauses)
Kept == TicksLeft(user) + PausedTime

\* What rounding to whole days may cost or gain
Rounding == (TicksPerDay - 1) * Len(pauses)

(***************************************************************************)
(* Time that is paid for is served, now or after a pause, whatever requests *)
(* overlap and wherever they stop half way: a pause may cost the part of a  *)
(* day that it does not write down (pause/service.go:208).  More goes       *)
(* missing only where surplus says so, that is where Pause or Resume save   *)
(* the row they read over running time: what was bought while a pause was   *)
(* open or under way (pause/service.go:288), or what another pause or       *)
(* resume has put there meanwhile.                                          *)
(***************************************************************************)
DaysNotLost == Kept + Rounding >= owed + surplus

(***************************************************************************)
(* Pausing gains less than a day each time, although the subscription may   *)
(* be paused in its last hours (pause/service.go:209-211 rounds up to one   *)
(* day).  More is gained only where surplus says so: from time that two     *)
(* overlapping pauses both write down (pause/service.go:193-237), that two  *)
(* overlapping resumes both restore, or that stays in both tables when a    *)
(* pause or resume stops half way.                                          *)
(***************************************************************************)
DaysNotGained == ~PauseUnderWay => Kept <= owed + surplus + Rounding

(***************************************************************************)
(* While paid time runs or is kept by a pause, the plan in force is the one *)
(* the user paid for last: a downgrade the user scheduled never starts      *)
(* early, whatever was renewed, upgraded or cancelled since                 *)
(* (commercial_atomic.go:306).  Two things replace it: a pause or resume    *)
(* that saves an older row, and a downgrade whose time comes during a       *)
(* pause, because Pause has moved the expiry the downgrade is compared to.  *)
(***************************************************************************)
PaidPlanServed == Kept > 0 /\ ~displaced => user.plan = due
=============================================================================
