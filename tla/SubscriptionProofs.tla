------------------------- MODULE SubscriptionProofs -------------------------
(***************************************************************************)
(* What is proved of Subscription, for every catalogue, every division of   *)
(* the day, every length of history and any number of overlapping requests: *)
(* its types, that paid days are neither lost nor gained but where the      *)
(* history says so, and that the plan paid for last is the one in force.    *)
(***************************************************************************)
EXTENDS Subscription, SumLemmas, TLAPS

\* A pause that was read is in the table
PauseKnown ==
    \A r \in Requests : req[r].at \in {"resuming", "closing"} => req[r].pause \in DOMAIN pauses

TypeInv == SubscriptionTypeOK /\ PauseKnown

\* What a request holds, by where it stands
LEMMA RequestFields ==
    ASSUME NEW q \in Request
    PROVE  /\ q.at \in {"stopping", "resuming"} => q.row \in UserRow
           /\ q.at \in {"resuming", "closing"} => q.pause \in Nat
           /\ q.at \in {"upgrading", "downgrading"} => q.from \in Plans /\ q.to \in Plans
  BY DEF Request, Idle

\* What a request may become
LEMMA RequestForms ==
    /\ Idle \in Request /\ [at |-> "pausing"] \in Request
    /\ \A u \in UserRow : [at |-> "stopping", row |-> u] \in Request
    /\ \A u \in UserRow, i \in Nat : [at |-> "resuming", row |-> u, pause |-> i] \in Request
    /\ \A i \in Nat : [at |-> "closing", pause |-> i] \in Request
    /\ \A p, q \in Plans : /\ [at |-> "upgrading", from |-> p, to |-> q] \in Request
                           /\ [at |-> "downgrading", from |-> p, to |-> q] \in Request
  BY DEF Request

\* An open pause found by GetActivePause is one
LEMMA ActivePauseOpen ==
    ASSUME pauses \in Seq(SubscriptionPause), OpenPauses # {}
    PROVE  ActivePause \in OpenPauses /\ ActivePause \in DOMAIN pauses /\ ActivePause \in Nat
<1> DEFINE T == {Len(pauses) - i : i \in OpenPauses}
<1>1. OpenPauses \subseteq DOMAIN pauses /\ DOMAIN pauses = 1..Len(pauses) /\ Len(pauses) \in Nat
  BY DEF OpenPauses
<1>2. T \in SUBSET Nat /\ T # {}
  BY <1>1
<1>3. PICK n \in T : \A m \in T : n <= m
  BY <1>2, LeastNumber
<1>4. PICK i \in OpenPauses : n = Len(pauses) - i
  BY <1>3
<1>5. \A j \in OpenPauses : j <= i
  <2>1. \A j \in OpenPauses : Len(pauses) - i <= Len(pauses) - j
    BY <1>3, <1>4
  <2> QED
    BY <1>1, <2>1
<1>6. ActivePause \in OpenPauses
  BY <1>5 DEF ActivePause
<1> QED
  BY <1>1, <1>6

\* Division by the ticks of a day
LEMMA DivBounds ==
    ASSUME NEW d \in Nat \ {0}, NEW x \in Nat
    PROVE  x \div d \in Nat /\ d * (x \div d) <= x /\ x < d * (x \div d) + d
  OBVIOUS

\* What Pause writes down is a number of days or the mark of a permanent subscription
LEMMA RemainingDaysType ==
    ASSUME now \in Nat, NEW t \in Nat \cup {Nil}
    PROVE  RemainingDays(t) \in Nat \cup {PermanentRemainingDays}
<1>1. CASE t = Nil
  BY <1>1 DEF RemainingDays
<1>2. CASE t # Nil /\ t <= now
  BY <1>2 DEF RemainingDays
<1>3. CASE t # Nil /\ ~(t <= now)
  <2>1. t - now \in Nat
    BY <1>3 DEF Nil
  <2>2. WholeDays(t) \in Nat
    BY <2>1, DivBounds, SubscriptionAssumption DEF WholeDays
  <2> QED
    BY <1>3, <2>2 DEF RemainingDays
<1> QED
  BY <1>1, <1>2, <1>3

\* Ticks that run, that a pause keeps and that a request has half moved
LEMMA TicksNat == ASSUME NEW d \in Nat PROVE d * TicksPerDay \in Nat /\ TicksPerDay \in Nat \ {0}
  BY SubscriptionAssumption

LEMMA TicksLeftType == ASSUME now \in Nat, NEW u \in UserRow PROVE TicksLeft(u) \in Nat
  BY DEF TicksLeft, UserRow

LEMMA TicksKeptType == ASSUME NEW p \in SubscriptionPause PROVE TicksKept(p) \in Nat
<1>1. CASE p.days > 0
  <2>1. p.days \in Nat
    BY <1>1 DEF SubscriptionPause, PermanentRemainingDays
  <2> QED
    BY <1>1, <2>1, TicksNat DEF TicksKept
<1>2. CASE ~(p.days > 0)
  BY <1>2 DEF TicksKept
<1> QED
  BY <1>1, <1>2

LEMMA HalfDoneType == TypeInv => \A r \in Requests : HalfDone(r) \in Nat
<1> SUFFICES ASSUME TypeInv, NEW r \in Requests PROVE HalfDone(r) \in Nat
  OBVIOUS
<1> USE DEF TypeInv, SubscriptionTypeOK
<1>1. CASE req[r].at = "stopping"
  <2>1. req[r].row \in UserRow
    BY <1>1, RequestFields
  <2> QED
    BY <1>1, <2>1, TicksLeftType DEF HalfDone
<1>2. CASE req[r].at = "closing"
  <2>1. req[r].pause \in DOMAIN pauses
    BY <1>2 DEF PauseKnown
  <2>2. pauses[req[r].pause] \in SubscriptionPause
    BY <2>1
  <2> QED
    BY <1>2, <2>2, TicksKeptType DEF HalfDone
<1>3. CASE ~(req[r].at \in {"stopping", "closing"})
  BY <1>3 DEF HalfDone
<1> QED
  BY <1>1, <1>2, <1>3

LEMMA HalfDoneTypeNext == TypeInv' => (\A r \in Requests : HalfDone(r) \in Nat)'
  BY HalfDoneType, PTL

\* The plan that counts has a price and at least a day
LEMMA CurrentTerms ==
    ASSUME SubscriptionTypeOK, PlanKnown
    PROVE  CurrentPlan \in Plans /\ CurrentPrice \in Nat /\ CurrentDays \in Nat \ {0}
<1>1. user \in UserRow /\ CurrentPlan \in Plans
  BY DEF SubscriptionTypeOK, PlanKnown
<1>2. CurrentPrice \in Nat
  BY <1>1, SubscriptionAssumption DEF CurrentPrice, CurrentPlan, UserRow
<1>3. CurrentDays \in Nat \ {0}
  BY <1>1, SubscriptionAssumption DEF CurrentDays, UserRow
<1> QED
  BY <1>1, <1>2, <1>3

\* What an upgrade costs, when it is not refused, is in the wallet
LEMMA UpgradeAffordable ==
    ASSUME SubscriptionTypeOK, NEW q, q.to \in Plans, ~UpgradeRefused(q)
    PROVE  user.balance - UpgradeCost(q.to) \in Nat
<1>1. /\ user.expires \in Nat /\ user.expires > now /\ now \in Nat /\ user.balance \in Nat
      /\ Price[q.to] \in Nat /\ Price[q.to] > CurrentPrice /\ PlanKnown
      /\ ~(UpgradeCost(q.to) > user.balance)
  <2>1. user \in UserRow /\ now \in Nat
    BY DEF SubscriptionTypeOK
  <2>2. /\ user.expires # Nil /\ user.expires > now /\ PlanKnown
        /\ ~(Price[q.to] <= CurrentPrice) /\ ~(UpgradeCost(q.to) > user.balance)
    BY DEF UpgradeRefused, Running
  <2>3. user.expires \in Nat /\ user.balance \in Nat
    BY <2>1, <2>2 DEF UserRow
  <2>4. CurrentPrice \in Nat
    BY <2>2, CurrentTerms
  <2> QED
    BY <2>1, <2>2, <2>3, <2>4, SubscriptionAssumption
<1>2. WholeDays(user.expires) \in Nat
  <2>1. user.expires - now \in Nat
    BY <1>1
  <2> QED
    BY <2>1, DivBounds, SubscriptionAssumption DEF WholeDays
<1>3. CurrentPrice \in Nat /\ CurrentDays \in Nat \ {0}
  BY <1>1, CurrentTerms
<1> DEFINE more == Price[q.to] - CurrentPrice
           left == WholeDays(user.expires)
<1>4. more \in Nat /\ left \in Nat
  BY <1>1, <1>2, <1>3
<1>5. UpgradeCost(q.to) = (more * left) \div CurrentDays
  BY DEF UpgradeCost, PlanProration
<1> HIDE DEF more, left
<1>6. more * left \in Nat
  BY <1>4
<1>7. (more * left) \div CurrentDays \in Nat
  BY <1>3, <1>6, DivBounds
<1> QED
  BY <1>1, <1>5, <1>7

LEMMA TypeInit == SubscriptionInit => TypeInv
<1> SUFFICES ASSUME SubscriptionInit PROVE TypeInv
  OBVIOUS
<1> USE SubscriptionAssumption DEF SubscriptionInit
<1>1. user \in UserRow
  BY DEF UserRow
<1>2. req \in [Requests -> Request] /\ \A r \in Requests : req[r].at = "idle"
  BY RequestForms DEF Idle
<1>3. pauses \in Seq(SubscriptionPause)
  OBVIOUS
<1>4. catalogue \in [Plans -> {"active", "inactive", "deleted"}] /\ displaced \in BOOLEAN
  OBVIOUS
<1>5. SubscriptionTypeOK
  BY <1>1, <1>2, <1>3, <1>4 DEF SubscriptionTypeOK
<1> QED
  BY <1>2, <1>5 DEF TypeInv, PauseKnown

\* A request that turns to another statement keeps the requests well typed
LEMMA RequestMoves ==
    ASSUME TypeInv, NEW r \in Requests, NEW q \in Request,
           req' = [req EXCEPT ![r] = q], DOMAIN pauses \subseteq DOMAIN pauses',
           q.at \in {"resuming", "closing"} => q.pause \in DOMAIN pauses'
    PROVE  req' \in [Requests -> Request] /\ PauseKnown'
<1>1. req \in [Requests -> Request] /\ PauseKnown
  BY DEF TypeInv, SubscriptionTypeOK
<1>2. req' \in [Requests -> Request] /\ \A s \in Requests : req'[s] = IF s = r THEN q ELSE req[s]
  BY <1>1
<1>3. PauseKnown'
  BY <1>1, <1>2 DEF PauseKnown
<1> QED
  BY <1>2, <1>3

\* The rows the operations write: pauses, plan changes, upgrades and purchases
LEMMA RowExpires ==
    ASSUME NEW u \in UserRow, NEW t \in Nat \cup {Nil}
    PROVE  [u EXCEPT !.expires = t] \in UserRow
  BY DEF UserRow

LEMMA RowPlan ==
    ASSUME NEW u \in UserRow, NEW p \in Plans
    PROVE  [u EXCEPT !.plan = p, !.price = Price[p], !.days = Duration[p]] \in UserRow
  BY SubscriptionAssumption DEF UserRow

LEMMA RowPaid ==
    ASSUME NEW u \in UserRow, NEW p \in Plans, NEW b \in Nat
    PROVE  [u EXCEPT !.plan = p, !.price = Price[p], !.days = Duration[p], !.balance = b] \in UserRow
  BY SubscriptionAssumption DEF UserRow

LEMMA RowBought ==
    ASSUME NEW u \in UserRow, NEW t \in Nat, NEW p \in Plans
    PROVE  [u EXCEPT !.expires = t, !.plan = p, !.price = Price[p], !.days = Duration[p]] \in UserRow
  BY SubscriptionAssumption DEF UserRow

\* The record RecordPause creates
NewPause == [at |-> now, days |-> RemainingDays(user.expires),
             autoResume |-> now + MaxDuration * TicksPerDay, resumed |-> FALSE]

LEMMA NewPauseType ==
    ASSUME SubscriptionTypeOK
    PROVE  /\ NewPause \in SubscriptionPause /\ NewPause.resumed = FALSE
           /\ NewPause.days = RemainingDays(user.expires)
<1>1. user.expires \in Nat \cup {Nil} /\ now \in Nat
  BY DEF SubscriptionTypeOK, UserRow
<1>2. RemainingDays(user.expires) \in Nat \cup {PermanentRemainingDays}
  BY <1>1, RemainingDaysType
<1>3. MaxDuration * TicksPerDay \in Nat
  BY TicksNat, SubscriptionAssumption
<1>4. now + MaxDuration * TicksPerDay \in Nat
  BY <1>1, <1>3
<1> QED
  BY <1>1, <1>2, <1>4 DEF NewPause, SubscriptionPause

LEMMA TypeStep == TypeInv /\ [SubscriptionNext]_subscriptionVars => TypeInv'
<1> SUFFICES ASSUME TypeInv, [SubscriptionNext]_subscriptionVars PROVE TypeInv'
  OBVIOUS
<1>0. /\ SubscriptionTypeOK /\ PauseKnown
      /\ req \in [Requests -> Request] /\ user \in UserRow /\ now \in Nat
      /\ pauses \in Seq(SubscriptionPause)
      /\ owed \in Int /\ surplus \in Int /\ displaced \in BOOLEAN
  BY DEF TypeInv, SubscriptionTypeOK
<1>00. Idle.at = "idle"
  BY DEF Idle
<1>1. ASSUME NEW r \in Requests, CheckPause(r) PROVE TypeInv'
  <2>1. req' \in [Requests -> Request] /\ PauseKnown'
    BY <1>0, <1>1, RequestForms, RequestMoves DEF CheckPause
  <2> QED
    BY <1>0, <1>1, <2>1 DEF CheckPause, TypeInv, SubscriptionTypeOK, historyVars
<1>2. ASSUME NEW r \in Requests, RecordPause(r) PROVE TypeInv'
  <2>1. pauses' = Append(pauses, NewPause) /\ NewPause \in SubscriptionPause
    BY <1>0, <1>2, NewPauseType DEF RecordPause, NewPause
  <2>3. pauses' \in Seq(SubscriptionPause) /\ DOMAIN pauses \subseteq DOMAIN pauses'
    BY <1>0, <2>1
  <2>4. req' \in [Requests -> Request] /\ PauseKnown'
    <3> DEFINE q == [at |-> "stopping", row |-> user]
    <3>1. q \in Request /\ q.at = "stopping" /\ q.row = user
      BY <1>0, RequestForms
    <3>2. req' = [req EXCEPT ![r] = q] /\ user' = user
      BY <1>2 DEF RecordPause
    <3> HIDE DEF q
    <3> QED
      BY <1>0, <2>3, <3>1, <3>2, RequestMoves
  <2> QED
    BY <1>0, <1>2, <2>3, <2>4 DEF RecordPause, TypeInv, SubscriptionTypeOK, historyVars
<1>3. ASSUME NEW r \in Requests, StopSubscription(r) PROVE TypeInv'
  <2>1. req[r].row \in UserRow
    BY <1>0, <1>3, RequestFields DEF StopSubscription
  <2>2. user' \in UserRow
    BY <1>0, <1>3, <2>1, RowExpires DEF StopSubscription
  <2>3. req' \in [Requests -> Request] /\ PauseKnown'
    BY <1>0, <1>00, <1>3, <2>2, RequestForms, RequestMoves DEF StopSubscription
  <2>4. surplus' \in Int /\ displaced' \in BOOLEAN
    BY <1>0, <1>3, <2>1, TicksLeftType DEF StopSubscription
  <2> QED
    BY <1>0, <1>3, <2>2, <2>3, <2>4 DEF StopSubscription, TypeInv, SubscriptionTypeOK
<1>4. ASSUME NEW r \in Requests, ReadPause(r) PROVE TypeInv'
  <2> DEFINE q == [at |-> "resuming", row |-> user, pause |-> ActivePause]
  <2>1. ActivePause \in DOMAIN pauses /\ ActivePause \in Nat
    BY <1>0, <1>4, ActivePauseOpen DEF ReadPause
  <2>2. q \in Request /\ q.row = user /\ q.pause = ActivePause
    BY <1>0, <2>1, RequestForms
  <2>3. req' = [req EXCEPT ![r] = q] /\ user' = user /\ pauses' = pauses
    BY <1>4 DEF ReadPause
  <2>4. req' \in [Requests -> Request] /\ PauseKnown'
    <3> HIDE DEF q
    <3> QED
      BY <1>0, <2>1, <2>2, <2>3, RequestMoves
  <2> QED
    BY <1>0, <1>4, <2>4 DEF ReadPause, TypeInv, SubscriptionTypeOK, historyVars
<1>5. ASSUME NEW r \in Requests, RestoreSubscription(r) PROVE TypeInv'
  <2>1. /\ req[r].row \in UserRow
        /\ req[r].pause \in DOMAIN pauses /\ req[r].pause \in Nat
    BY <1>0, <1>5, RequestFields DEF RestoreSubscription, PauseKnown
  <2>2. ResumedExpiry(pauses[req[r].pause]) \in Nat \cup {Nil}
    <3> DEFINE d == pauses[req[r].pause].days
    <3>1. d \in Nat \cup {PermanentRemainingDays}
      <4>1. pauses[req[r].pause] \in SubscriptionPause
        BY <1>0, <2>1
      <4> QED
        BY <4>1 DEF SubscriptionPause
    <3>2. CASE d >= 0
      <4>1. d \in Nat
        BY <3>1, <3>2 DEF PermanentRemainingDays
      <4>2. d * TicksPerDay \in Nat
        BY <4>1, TicksNat
      <4>3. ResumedExpiry(pauses[req[r].pause]) = now + d * TicksPerDay
        BY <3>2 DEF ResumedExpiry
      <4> QED
        BY <1>0, <4>2, <4>3
    <3>3. CASE ~(d >= 0)
      BY <3>3 DEF ResumedExpiry
    <3> QED
      BY <3>2, <3>3
  <2>3. user' \in UserRow
    BY <1>5, <2>1, <2>2, RowExpires DEF RestoreSubscription
  <2> DEFINE q == [at |-> "closing", pause |-> req[r].pause]
  <2>4. q \in Request /\ q.at = "closing" /\ q.pause = req[r].pause
    BY <2>1, RequestForms
  <2>5. req' = [req EXCEPT ![r] = q] /\ pauses' = pauses
    BY <1>5 DEF RestoreSubscription
  <2>6. req' \in [Requests -> Request] /\ PauseKnown'
    <3> HIDE DEF q
    <3> QED
      BY <1>0, <2>1, <2>4, <2>5, RequestMoves
  <2>7. surplus' \in Int /\ displaced' \in BOOLEAN
    BY <1>0, <1>5, TicksLeftType DEF RestoreSubscription
  <2> QED
    BY <1>0, <1>5, <2>3, <2>6, <2>7 DEF RestoreSubscription, TypeInv, SubscriptionTypeOK
<1>6. ASSUME NEW r \in Requests, ClosePause(r) PROVE TypeInv'
  <2>1. pauses' \in Seq(SubscriptionPause) /\ DOMAIN pauses \subseteq DOMAIN pauses'
    <3>1. req[r].pause \in DOMAIN pauses
      BY <1>0, <1>6 DEF ClosePause, PauseKnown
    <3> DEFINE p == [pauses[req[r].pause] EXCEPT !.resumed = TRUE]
    <3>2. p \in SubscriptionPause
      <4>1. pauses[req[r].pause] \in SubscriptionPause
        BY <1>0, <3>1
      <4> QED
        BY <4>1 DEF SubscriptionPause
    <3>3. pauses' = [pauses EXCEPT ![req[r].pause] = p]
      BY <1>6 DEF ClosePause
    <3> HIDE DEF p
    <3> QED
      BY <1>0, <3>1, <3>2, <3>3
  <2>2. req' \in [Requests -> Request] /\ PauseKnown'
    BY <1>0, <1>00, <1>6, <2>1, RequestForms, RequestMoves DEF ClosePause
  <2>3. surplus' \in Int
    <3>1. req[r].pause \in DOMAIN pauses
      BY <1>0, <1>6 DEF ClosePause, PauseKnown
    <3>2. TicksKept(pauses[req[r].pause]) \in Nat
      BY <1>0, <3>1, TicksKeptType
    <3> QED
      BY <1>0, <1>6, <3>2 DEF ClosePause
  <2> QED
    BY <1>0, <1>6, <2>1, <2>2, <2>3 DEF ClosePause, TypeInv, SubscriptionTypeOK

<1>7. ASSUME NEW r \in Requests, UpgradeAndDebit(r) PROVE TypeInv'
  <2>1. req[r].from \in Plans /\ req[r].to \in Plans
    BY <1>0, <1>7, RequestFields DEF UpgradeAndDebit
  <2>2. /\ user' \in UserRow
        /\ pending' \in PendingDowngrade \cup {NoDowngrade} /\ due' \in Plans \cup {NoPlan}
        /\ displaced' \in BOOLEAN
    <3>1. CASE UpgradeRefused(req[r])
      BY <1>0, <1>7, <3>1 DEF UpgradeAndDebit, SubscriptionTypeOK
    <3>2. CASE ~UpgradeRefused(req[r])
      <4> DEFINE left == user.balance - UpgradeCost(req[r].to)
      <4>1. left \in Nat
        BY <1>0, <2>1, <3>2, UpgradeAffordable
      <4>2. /\ user' = [user EXCEPT !.plan = req[r].to, !.price = Price[req[r].to],
                                    !.days = Duration[req[r].to], !.balance = left]
            /\ pending' = NoDowngrade /\ due' = req[r].to /\ displaced' = FALSE
        BY <1>7, <3>2 DEF UpgradeAndDebit
      <4> HIDE DEF left
      <4> QED
        BY <1>0, <2>1, <4>1, <4>2, RowPaid
    <3> QED
      BY <3>1, <3>2
  <2>3. req' \in [Requests -> Request] /\ PauseKnown'
    BY <1>0, <1>00, <1>7, <2>2, RequestForms, RequestMoves DEF UpgradeAndDebit
  <2> QED
    BY <1>0, <1>7, <2>2, <2>3 DEF UpgradeAndDebit, TypeInv, SubscriptionTypeOK
<1>8. ASSUME NEW r \in Requests, ScheduleDowngrade(r) PROVE TypeInv'
  <2>1. req[r].from \in Plans /\ req[r].to \in Plans
    BY <1>0, <1>8, RequestFields DEF ScheduleDowngrade
  <2>2. pending' \in PendingDowngrade \cup {NoDowngrade}
    BY <1>0, <1>8, <2>1 DEF ScheduleDowngrade, SubscriptionTypeOK, PendingDowngrade, UserRow
  <2>3. req' \in [Requests -> Request] /\ PauseKnown'
    BY <1>0, <1>00, <1>8, RequestForms, RequestMoves DEF ScheduleDowngrade
  <2> QED
    BY <1>0, <1>8, <2>2, <2>3 DEF ScheduleDowngrade, TypeInv, SubscriptionTypeOK, historyVars
<1>9. ASSUME NEW r \in Requests, Abandon(r) PROVE TypeInv'
  <2>1. req' \in [Requests -> Request] /\ PauseKnown'
    BY <1>0, <1>00, <1>9, RequestForms, RequestMoves DEF Abandon
  <2>2. surplus' \in Int
    BY <1>0, <1>9, HalfDoneType DEF Abandon
  <2> QED
    BY <1>0, <1>9, <2>1, <2>2 DEF Abandon, TypeInv, SubscriptionTypeOK
<1>10. ASSUME NEW r \in Requests, NEW p \in Plans, QuoteUpgrade(r, p) \/ QuoteDowngrade(r, p)
       PROVE  TypeInv'
  <2>1. CurrentPlan \in Plans
    BY <1>10 DEF QuoteUpgrade, QuoteDowngrade, CalculateChange, PlanKnown
  <2>2. PICK q \in Request : /\ q.at \in {"upgrading", "downgrading"}
                             /\ req' = [req EXCEPT ![r] = q]
    BY <1>10, <2>1, RequestForms DEF QuoteUpgrade, QuoteDowngrade
  <2>3. UNCHANGED <<now, user, pauses, pending, catalogue, ordered, buys, historyVars>>
    BY <1>10 DEF QuoteUpgrade, QuoteDowngrade
  <2>4. req' \in [Requests -> Request] /\ PauseKnown'
    BY <1>0, <2>2, <2>3, RequestMoves
  <2> QED
    BY <1>0, <2>3, <2>4 DEF TypeInv, SubscriptionTypeOK, historyVars
<1>11. ASSUME NEW p \in Plans, BuyPlan(p) PROVE TypeInv'
  <2> DEFINE t == (IF Running THEN user.expires ELSE now) + Duration[p] * TicksPerDay
  <2>1. Duration[p] * TicksPerDay \in Nat
    BY TicksNat, SubscriptionAssumption
  <2>2. t \in Nat
    <3>1. (IF Running THEN user.expires ELSE now) \in Nat
      BY <1>0 DEF Running, UserRow
    <3> QED
      BY <2>1, <3>1
  <2>3. user' = [user EXCEPT !.expires = t, !.plan = p, !.price = Price[p], !.days = Duration[p]]
    BY <1>11 DEF BuyPlan
  <2>4. user' \in UserRow
    <3> HIDE DEF t
    <3> QED
      BY <1>0, <2>2, <2>3, RowBought
  <2>5. owed' \in Int /\ buys' \in Nat
    BY <1>0, <1>11, <2>1 DEF BuyPlan, SubscriptionTypeOK
  <2>6. PauseKnown'
    BY <1>0, <1>11, <2>4 DEF BuyPlan, PauseKnown
  <2> QED
    BY <1>0, <1>11, <2>4, <2>5, <2>6 DEF BuyPlan, TypeInv, SubscriptionTypeOK
<1>12. ASSUME NEW p \in Plans, NEW status \in {"active", "inactive", "deleted"}, SetPlan(p, status)
       PROVE  TypeInv'
  <2>1. catalogue' \in [Plans -> {"active", "inactive", "deleted"}]
    BY <1>0, <1>12 DEF SetPlan, SubscriptionTypeOK
  <2>2. PauseKnown'
    BY <1>0, <1>12 DEF SetPlan, PauseKnown
  <2> QED
    BY <1>0, <1>12, <2>1, <2>2 DEF SetPlan, TypeInv, SubscriptionTypeOK, historyVars
<1>13. CASE CancelPendingDowngrade
  <2>1. PauseKnown'
    BY <1>0, <1>13 DEF CancelPendingDowngrade, PauseKnown
  <2> QED
    BY <1>0, <1>13, <2>1 DEF CancelPendingDowngrade, TypeInv, SubscriptionTypeOK, historyVars
<1>14. CASE ApplyDueDowngrade
  <2>1. pending.to \in Plans
    BY <1>0, <1>14 DEF ApplyDueDowngrade, SubscriptionTypeOK, PendingDowngrade
  <2>2. user' \in UserRow /\ displaced' \in BOOLEAN
    BY <1>0, <1>14, <2>1, RowPlan DEF ApplyDueDowngrade, Downgrade
  <2>3. PauseKnown'
    BY <1>0, <1>14, <2>2 DEF ApplyDueDowngrade, PauseKnown
  <2> QED
    BY <1>0, <1>14, <2>2, <2>3 DEF ApplyDueDowngrade, TypeInv, SubscriptionTypeOK
<1>15. CASE Tick
  <2>1. PauseKnown'
    BY <1>0, <1>15 DEF Tick, PauseKnown
  <2>2. owed' \in Int /\ now' \in Nat
    BY <1>0, <1>15 DEF Tick, SubscriptionTypeOK
  <2> QED
    BY <1>0, <1>15, <2>1, <2>2 DEF Tick, TypeInv, SubscriptionTypeOK
<1>16. CASE UNCHANGED subscriptionVars
  BY <1>0, <1>16 DEF subscriptionVars, TypeInv, SubscriptionTypeOK, historyVars, PauseKnown
<1> QED
  <2>1. ASSUME NEW r \in Requests, AutoResume(r) PROVE ReadPause(r)
    BY <2>1 DEF AutoResume
  <2> QED
    BY <1>1, <1>2, <1>3, <1>4, <1>5, <1>6, <1>7, <1>8, <1>9, <1>10, <1>11, <1>12, <1>13, <1>14,
       <1>15, <1>16, <2>1 DEF SubscriptionNext

(***************************************************************************)
(* The users row, the pauses and what every request has read stay well      *)
(* typed whatever runs at once: an upgrade never takes more than the wallet *)
(* holds nor divides by zero days, and a pause that is resumed exists       *)
(* (UpgradeAndDebit, Resume, GetActivePause).                               *)
(***************************************************************************)
THEOREM SubscriptionTypeCorrect == SubscriptionSpec => []SubscriptionTypeOK
<1>1. TypeInv => SubscriptionTypeOK
  BY DEF TypeInv
<1> QED
  BY <1>1, TypeInit, TypeStep, PTL DEF SubscriptionSpec

-----------------------------------------------------------------------------
(***************************************************************************)
(* The days                                                                 *)
(***************************************************************************)

\* What all requests together have moved into one table and not yet out of the other
Moving == SumFunctionOnSet([r \in Requests |-> HalfDone(r)], Requests)

(***************************************************************************)
(* The books agree to within the rounding of each pause: every step but the *)
(* recording of a pause changes both sides by the same amount.              *)
(***************************************************************************)
Ledger == owed + surplus + Moving
DaysInv ==
    /\ TypeInv
    /\ Kept <= Ledger + Rounding
    /\ Ledger <= Kept + Rounding

\* The quantities are numbers
Numbers ==
    /\ TicksLeft(user) \in Nat /\ PausedTime \in Nat /\ Kept \in Nat
    /\ Moving \in Nat /\ Ledger \in Int /\ Rounding \in Nat /\ owed \in Int /\ surplus \in Int
    /\ IsFiniteSet(OpenPauses) /\ OpenPauses \subseteq DOMAIN pauses
    /\ \A i \in DOMAIN pauses : TicksKept(pauses[i]) \in Nat

LEMMA DayTypes == IsFiniteSet(Requests) /\ TypeInv => Numbers
<1> SUFFICES ASSUME IsFiniteSet(Requests), TypeInv PROVE Numbers
  OBVIOUS
<1>1. /\ pauses \in Seq(SubscriptionPause) /\ now \in Nat /\ user \in UserRow
      /\ owed \in Int /\ surplus \in Int
  BY DEF TypeInv, SubscriptionTypeOK
<1>2. TicksLeft(user) \in Nat
  BY <1>1, TicksLeftType
<1>3. \A i \in DOMAIN pauses : TicksKept(pauses[i]) \in Nat
  <2> SUFFICES ASSUME NEW i \in DOMAIN pauses PROVE TicksKept(pauses[i]) \in Nat
    OBVIOUS
  <2>1. pauses[i] \in SubscriptionPause
    BY <1>1
  <2> QED
    BY <2>1, TicksKeptType
<1>4. OpenPauses \subseteq DOMAIN pauses /\ IsFiniteSet(OpenPauses)
  <2>1. DOMAIN pauses = 1..Len(pauses) /\ Len(pauses) \in Nat
    BY <1>1
  <2>2. IsFiniteSet(DOMAIN pauses)
    BY <2>1, FS_Interval
  <2> QED
    BY <2>2, FS_Subset DEF OpenPauses
<1>5. PausedTime \in Nat
  BY <1>3, <1>4, SumNat DEF PausedTime
<1>6. Moving \in Nat
  BY HalfDoneType, SumNat DEF Moving
<1>7. Rounding \in Nat
  <2>1. TicksPerDay - 1 \in Nat /\ Len(pauses) \in Nat
    BY <1>1, SubscriptionAssumption
  <2> QED
    BY <2>1 DEF Rounding
<1> QED
  BY <1>1, <1>2, <1>3, <1>4, <1>5, <1>6, <1>7 DEF Kept, Ledger, Numbers

LEMMA DayTypesNext == (IsFiniteSet(Requests) /\ TypeInv)' => Numbers'
  BY DayTypes, PTL

\* One request moves on
LEMMA MovingNext ==
    ASSUME TypeInv, TypeInv', IsFiniteSet(Requests), NEW r \in Requests,
           \A s \in Requests \ {r} : HalfDone(s)' = HalfDone(s)
    PROVE  Moving' = Moving - HalfDone(r) + HalfDone(r)'
<1> DEFINE g == [s \in Requests |-> HalfDone(s)]
           h == [s \in Requests |-> HalfDone(s)']
<1>1. \A s \in Requests : HalfDone(s) \in Int
  BY HalfDoneType
<1>2. ASSUME NEW s \in Requests PROVE HalfDone(s)' \in Int
  BY HalfDoneTypeNext
<1>3. OneApart(Requests, g, Requests, h, r)
  BY <1>1, <1>2 DEF OneApart
<1>4. Moving = SumFunctionOnSet(g, Requests) /\ Moving' = SumFunctionOnSet(h, Requests)
  BY DEF Moving
<1> HIDE DEF g, h
<1>5. SumFunctionOnSet(h, Requests) = SumFunctionOnSet(g, Requests) - Share(r, g, Requests) + Share(r, h, Requests)
  BY <1>3, SumNext
<1>6. Share(r, g, Requests) = HalfDone(r) /\ Share(r, h, Requests) = HalfDone(r)'
  BY DEF Share, g, h
<1> QED
  BY <1>4, <1>5, <1>6
\* A request that stands still keeps what it has moved
LEMMA HalfDoneKept ==
    ASSUME TypeInv, now' = now, NEW s \in Requests, req'[s] = req[s],
           \A i \in DOMAIN pauses : TicksKept(pauses'[i]) = TicksKept(pauses[i])
    PROVE  HalfDone(s)' = HalfDone(s)
<1>1. \A u : TicksLeft(u)' = IF u'.expires # Nil /\ u'.expires > now THEN u'.expires - now ELSE 0
  BY DEF TicksLeft
<1>2. req[s].at = "closing" => req[s].pause \in DOMAIN pauses
  BY DEF TypeInv, PauseKnown
<1>3. CASE req[s].at = "stopping"
  BY <1>3 DEF HalfDone, TicksLeft
<1>4. CASE req[s].at = "closing"
  BY <1>2, <1>4 DEF HalfDone
<1>5. CASE ~(req[s].at \in {"stopping", "closing"})
  BY <1>5 DEF HalfDone
<1> QED
  BY <1>3, <1>4, <1>5

\* What a step that leaves the clock, the expiry and the pauses alone does not change
Quiet ==
    /\ UNCHANGED <<now, pauses, owed, surplus>>
    /\ user'.expires = user.expires

LEMMA QuietSame ==
    ASSUME Quiet
    PROVE  /\ TicksLeft(user)' = TicksLeft(user) /\ PausedTime' = PausedTime /\ Kept' = Kept
           /\ Rounding' = Rounding /\ OpenPauses' = OpenPauses
<1>1. TicksLeft(user)' = TicksLeft(user) /\ OpenPauses' = OpenPauses /\ Rounding' = Rounding
  BY DEF Quiet, TicksLeft, OpenPauses, Rounding
<1>2. PausedTime' = PausedTime
  BY DEF Quiet, PausedTime, OpenPauses
<1> QED
  BY <1>1, <1>2 DEF Kept

\* The steps of pause and resume, and all the others
PauseStep(r) == RecordPause(r) \/ StopSubscription(r) \/ RestoreSubscription(r) \/ ClosePause(r) \/ Abandon(r)
PlanStep(r) ==
    \/ UpgradeAndDebit(r) \/ ScheduleDowngrade(r)
    \/ \E p \in Plans : QuoteUpgrade(r, p) \/ QuoteDowngrade(r, p)
QuietStep(r) == CheckPause(r) \/ ReadPause(r) \/ PlanStep(r)
RowStep ==
    \/ CancelPendingDowngrade \/ ApplyDueDowngrade
    \/ \E p \in Plans, status \in {"active", "inactive", "deleted"} : SetPlan(p, status)

\* Next, in these groups
LEMMA NextGroups ==
    ASSUME [SubscriptionNext]_subscriptionVars
    PROVE  \/ \E r \in Requests : QuietStep(r) \/ PauseStep(r)
           \/ RowStep \/ UNCHANGED subscriptionVars
           \/ \E p \in Plans : BuyPlan(p)
           \/ Tick
  BY DEF SubscriptionNext, AutoResume, PauseStep, PlanStep, QuietStep, RowStep

\* What a quiet step does to the requests
LEMMA QuietSteps ==
    ASSUME TypeInv, NEW r \in Requests, QuietStep(r)
    PROVE  /\ Quiet
           /\ \E q \in Request : /\ req' = [req EXCEPT ![r] = q]
                                 /\ q.at \in {"idle", "pausing", "resuming", "upgrading", "downgrading"}
                                 /\ q.at = "resuming" => q.pause \in OpenPauses /\ q.row = user
           /\ req[r].at \in {"idle", "upgrading", "downgrading"}
<1>0. /\ Idle.at = "idle" /\ user \in UserRow /\ req \in [Requests -> Request]
      /\ pauses \in Seq(SubscriptionPause)
  BY DEF Idle, TypeInv, SubscriptionTypeOK
<1>1. CASE CheckPause(r)
  BY <1>0, <1>1, RequestForms DEF CheckPause, Quiet, historyVars
<1>2. CASE ReadPause(r)
  <2>1. ActivePause \in OpenPauses /\ ActivePause \in Nat
    BY <1>0, <1>2, ActivePauseOpen DEF ReadPause
  <2> DEFINE q == [at |-> "resuming", row |-> user, pause |-> ActivePause]
  <2>2. q \in Request /\ q.at = "resuming" /\ q.row = user /\ q.pause = ActivePause
    BY <1>0, <2>1, RequestForms
  <2>3. req' = [req EXCEPT ![r] = q] /\ req[r].at = "idle" /\ Quiet
    BY <1>0, <1>2 DEF ReadPause, Quiet, historyVars
  <2> HIDE DEF q
  <2> QED
    BY <2>1, <2>2, <2>3
<1>3. CASE UpgradeAndDebit(r)
  <2>1. user'.expires = user.expires
    <3>1. CASE UpgradeRefused(req[r])
      BY <1>3, <3>1 DEF UpgradeAndDebit
    <3>2. CASE ~UpgradeRefused(req[r])
      BY <1>0, <1>3, <3>2 DEF UpgradeAndDebit, UserRow
    <3> QED
      BY <3>1, <3>2
  <2> QED
    BY <1>0, <1>3, <2>1, RequestForms DEF UpgradeAndDebit, Quiet
<1>4. CASE ScheduleDowngrade(r)
  BY <1>0, <1>4, RequestForms DEF ScheduleDowngrade, Quiet, historyVars
<1>5. ASSUME NEW p \in Plans, QuoteUpgrade(r, p) PROVE
           /\ Quiet /\ req[r].at = "idle"
           /\ \E q \in Request : req' = [req EXCEPT ![r] = q] /\ q.at = "upgrading"
  BY <1>0, <1>5, RequestForms DEF QuoteUpgrade, CalculateChange, PlanKnown, Quiet, historyVars
<1>6. ASSUME NEW p \in Plans, QuoteDowngrade(r, p) PROVE
           /\ Quiet /\ req[r].at = "idle"
           /\ \E q \in Request : req' = [req EXCEPT ![r] = q] /\ q.at = "downgrading"
  BY <1>0, <1>6, RequestForms DEF QuoteDowngrade, CalculateChange, PlanKnown, Quiet, historyVars
<1> QED
  BY <1>1, <1>2, <1>3, <1>4, <1>5, <1>6 DEF QuietStep, PlanStep

\* A step on the row alone is quiet too
LEMMA RowSteps ==
    ASSUME TypeInv, RowStep \/ UNCHANGED subscriptionVars
    PROVE  Quiet /\ req' = req
<1>1. user \in UserRow
  BY DEF TypeInv, SubscriptionTypeOK
<1>2. CASE ApplyDueDowngrade
  BY <1>1, <1>2 DEF ApplyDueDowngrade, Downgrade, Quiet, UserRow
<1>3. CASE ~ApplyDueDowngrade
  BY <1>3 DEF RowStep, CancelPendingDowngrade, SetPlan, subscriptionVars, historyVars, Quiet
<1> QED
  BY <1>2, <1>3

\* The days a pause writes down are worth the running time, to within a day
LEMMA DaysWritten ==
    ASSUME TypeInv
    PROVE  LET t == TicksKept(NewPause)
               left == TicksLeft(user)
           IN /\ t \in Nat /\ left <= t + (TicksPerDay - 1) /\ t <= left + (TicksPerDay - 1)
              /\ left = 0 => t = 0
<1> DEFINE d == RemainingDays(user.expires)
           t == TicksKept(NewPause)
           left == TicksLeft(user)
<1> SUFFICES /\ t \in Nat /\ left <= t + (TicksPerDay - 1) /\ t <= left + (TicksPerDay - 1)
             /\ left = 0 => t = 0
  OBVIOUS
<1>1. user.expires \in Nat \cup {Nil} /\ now \in Nat /\ TicksPerDay \in Nat \ {0}
  BY SubscriptionAssumption DEF TypeInv, SubscriptionTypeOK, UserRow
<1>0. t = IF d > 0 THEN d * TicksPerDay ELSE 0
  BY NewPauseType DEF TypeInv, TicksKept
<1> HIDE DEF t
<1>2. CASE ~Running
  <2>1. left = 0
    BY <1>2 DEF TicksLeft, Running
  <2>2. ~(d > 0)
    BY <1>1, <1>2 DEF Running, RemainingDays, PermanentRemainingDays, Nil
  <2>3. t = 0
    BY <1>0, <2>2
  <2> QED
    BY <1>1, <2>1, <2>3
<1>3. CASE Running
  <2> DEFINE x == user.expires - now
             w == x \div TicksPerDay
  <2>1. x \in Nat /\ x > 0 /\ left = x
    BY <1>1, <1>3 DEF Running, TicksLeft, Nil
  <2>2. WholeDays(user.expires) = w
    BY DEF WholeDays
  <2>3. d = IF w < 1 THEN 1 ELSE w
    BY <1>1, <1>3, <2>2 DEF RemainingDays, Running
  <2>4. w \in Nat /\ TicksPerDay * w <= x /\ x < TicksPerDay * w + TicksPerDay
    <3> HIDE DEF x
    <3> QED
      BY <1>1, <2>1, DivBounds
  <2> HIDE DEF x, w, d, left
  <2>5. CASE w < 1
    <3>1. w = 0 /\ d = 1
      BY <2>3, <2>4, <2>5
    <3>2. t = TicksPerDay
      BY <1>0, <1>1, <3>1
    <3>3. x < TicksPerDay
      BY <1>1, <2>1, <2>4, <3>1
    <3> QED
      BY <1>1, <1>3, <2>1, <3>2, <3>3
  <2>6. CASE ~(w < 1)
    <3>1. d = w /\ d > 0
      BY <2>3, <2>4, <2>6
    <3>2. t = w * TicksPerDay
      BY <1>0, <3>1
    <3>3. w * TicksPerDay = TicksPerDay * w /\ w * TicksPerDay \in Nat
      BY <1>1, <2>4
    <3> QED
      BY <1>1, <1>3, <2>1, <2>4, <3>2, <3>3
  <2> QED
    BY <2>5, <2>6
<1> QED
  BY <1>2, <1>3

\* A new pause is one more open pause
LEMMA PauseRecorded ==
    ASSUME TypeInv, TypeInv', IsFiniteSet(Requests), pauses' = Append(pauses, NewPause)
    PROVE  /\ OpenPauses' = OpenPauses \cup {Len(pauses) + 1}
           /\ pauses'[Len(pauses) + 1] = NewPause
           /\ \A i \in DOMAIN pauses : pauses'[i] = pauses[i]
           /\ PausedTime' = PausedTime + TicksKept(NewPause)
           /\ Rounding' = Rounding + (TicksPerDay - 1)
<1>0. SubscriptionTypeOK /\ Numbers /\ Numbers'
  BY DayTypes, DayTypesNext DEF TypeInv
<1>01. NewPause \in SubscriptionPause /\ NewPause.resumed = FALSE
  BY <1>0, NewPauseType
<1>1. pauses \in Seq(SubscriptionPause) /\ Len(pauses) \in Nat /\ NewPause \in SubscriptionPause /\ NewPause.resumed = FALSE
  BY <1>0, <1>01 DEF SubscriptionTypeOK
<1> DEFINE n == Len(pauses) + 1
<1>2. /\ Len(pauses') = n /\ DOMAIN pauses' = 1..n /\ DOMAIN pauses = 1..Len(pauses) /\ n \notin DOMAIN pauses
      /\ pauses'[n] = NewPause /\ \A i \in DOMAIN pauses : pauses'[i] = pauses[i]
  BY <1>1
<1>3. OpenPauses' = OpenPauses \cup {n} /\ n \notin OpenPauses
  BY <1>1, <1>2 DEF OpenPauses
<1> DEFINE g == [i \in DOMAIN pauses |-> TicksKept(pauses[i])]
           h == [i \in DOMAIN pauses' |-> TicksKept(pauses'[i])]
<1>4. /\ PausedTime = SumFunctionOnSet(g, OpenPauses)
      /\ PausedTime' = SumFunctionOnSet(h, OpenPauses')
  BY DEF PausedTime
<1>5. OneApart(OpenPauses, g, OpenPauses', h, n)
  <2>1. OpenPauses \ {n} = OpenPauses' \ {n}
    BY <1>3
  <2>2. ASSUME NEW i \in OpenPauses PROVE g[i] = h[i] /\ g[i] \in Int
    <3>1. i \in DOMAIN pauses /\ TicksKept(pauses[i]) \in Nat
      BY <1>0 DEF Numbers
    <3>2. i \in DOMAIN pauses' /\ pauses'[i] = pauses[i]
      BY <1>1, <1>2, <3>1
    <3> QED
      BY <3>1, <3>2
  <2>3. \A i \in OpenPauses' : h[i] \in Int
    BY <1>0 DEF Numbers
  <2> QED
    BY <1>0, <2>1, <2>2, <2>3 DEF OneApart, Numbers
<1>6. Share(n, g, OpenPauses) = 0 /\ Share(n, h, OpenPauses') = TicksKept(NewPause)
  BY <1>2, <1>3 DEF Share
<1> HIDE DEF g, h
<1>7. SumFunctionOnSet(h, OpenPauses') = SumFunctionOnSet(g, OpenPauses) - Share(n, g, OpenPauses) + Share(n, h, OpenPauses')
  BY <1>5, SumNext
<1>8. PausedTime' = PausedTime + TicksKept(NewPause)
  BY <1>0, <1>4, <1>6, <1>7 DEF Numbers
<1>9. Rounding' = Rounding + (TicksPerDay - 1)
  <2>1. TicksPerDay - 1 \in Nat
    BY SubscriptionAssumption
  <2>2. \A d \in Nat, k \in Nat : d * (k + 1) = d * k + d
    OBVIOUS
  <2> QED
    BY <1>1, <1>2, <2>1, <2>2 DEF Rounding
<1> QED
  BY <1>2, <1>3, <1>8, <1>9

\* Closing a pause leaves the others, and none of its days
LEMMA PauseClosed ==
    ASSUME TypeInv, TypeInv', IsFiniteSet(Requests), NEW i \in DOMAIN pauses,
           pauses' = [pauses EXCEPT ![i].resumed = TRUE]
    PROVE  /\ OpenPauses' = OpenPauses \ {i} /\ Rounding' = Rounding
           /\ \A j \in DOMAIN pauses : TicksKept(pauses'[j]) = TicksKept(pauses[j])
           /\ PausedTime' = PausedTime - (IF i \in OpenPauses THEN TicksKept(pauses[i]) ELSE 0)
<1>0. Numbers /\ Numbers'
  BY DayTypes, DayTypesNext
<1>1. pauses \in Seq(SubscriptionPause)
  BY DEF TypeInv, SubscriptionTypeOK
<1>2. pauses[i] \in SubscriptionPause
  BY <1>1
<1>3. /\ DOMAIN pauses' = DOMAIN pauses /\ Len(pauses') = Len(pauses)
      /\ \A j \in DOMAIN pauses : j # i => pauses'[j] = pauses[j]
      /\ pauses'[i] = [pauses[i] EXCEPT !.resumed = TRUE]
  BY <1>1
<1>4. pauses'[i].resumed = TRUE /\ pauses'[i].days = pauses[i].days
  BY <1>2, <1>3 DEF SubscriptionPause
<1>5. OpenPauses' = OpenPauses \ {i}
  BY <1>3, <1>4 DEF OpenPauses
<1>6. Rounding' = Rounding
  BY <1>3 DEF Rounding
<1>7. \A j \in DOMAIN pauses : TicksKept(pauses'[j]) = TicksKept(pauses[j])
  BY <1>3, <1>4 DEF TicksKept
<1> DEFINE g == [j \in DOMAIN pauses |-> TicksKept(pauses[j])]
           h == [j \in DOMAIN pauses' |-> TicksKept(pauses'[j])]
<1>8. /\ PausedTime = SumFunctionOnSet(g, OpenPauses)
      /\ PausedTime' = SumFunctionOnSet(h, OpenPauses')
  BY DEF PausedTime
<1>9. OneApart(OpenPauses, g, OpenPauses', h, i)
  <2>1. OpenPauses \ {i} = OpenPauses' \ {i}
    BY <1>5
  <2>2. ASSUME NEW j \in OpenPauses PROVE g[j] = h[j] /\ g[j] \in Int
    <3>1. j \in DOMAIN pauses /\ TicksKept(pauses[j]) \in Nat
      BY <1>0 DEF Numbers
    <3>2. j \in DOMAIN pauses' /\ TicksKept(pauses'[j]) = TicksKept(pauses[j])
      BY <1>3, <1>7, <3>1
    <3> QED
      BY <3>1, <3>2
  <2>3. \A j \in OpenPauses' : h[j] \in Int
    <3>1. OpenPauses' \subseteq OpenPauses
      BY <1>5
    <3> QED
      BY <2>2, <3>1
  <2> QED
    BY <1>0, <2>1, <2>2, <2>3 DEF OneApart, Numbers
<1>10. /\ Share(i, g, OpenPauses) = IF i \in OpenPauses THEN TicksKept(pauses[i]) ELSE 0
       /\ Share(i, h, OpenPauses') = 0
  BY <1>5 DEF Share
<1> HIDE DEF g, h
<1>11. SumFunctionOnSet(h, OpenPauses') = SumFunctionOnSet(g, OpenPauses) - Share(i, g, OpenPauses) + Share(i, h, OpenPauses')
  BY <1>9, SumNext
<1> DEFINE t == IF i \in OpenPauses THEN TicksKept(pauses[i]) ELSE 0
<1>12. t \in Int
  BY <1>0 DEF Numbers
<1>13. PausedTime' = PausedTime - t
  <2> HIDE DEF t
  <2>1. Share(i, g, OpenPauses) = t
    BY <1>10 DEF t
  <2> QED
    BY <1>0, <1>8, <1>10, <1>11, <1>12, <2>1 DEF Numbers
<1> QED
  BY <1>5, <1>6, <1>7, <1>13
LEMMA DaysInit == IsFiniteSet(Requests) /\ SubscriptionInit => DaysInv
<1> SUFFICES ASSUME IsFiniteSet(Requests), SubscriptionInit PROVE DaysInv
  OBVIOUS
<1>1. TypeInv /\ Numbers
  BY TypeInit, DayTypes
<1>2. OpenPauses = {} /\ TicksLeft(user) = 0 /\ owed = 0 /\ surplus = 0
  BY DEF SubscriptionInit, OpenPauses, TicksLeft, Nil
<1>3. PausedTime = 0
  BY <1>2, SumEmpty DEF PausedTime
<1>4. Moving = 0
  <2>1. \A r \in Requests : HalfDone(r) = 0
    BY DEF SubscriptionInit, HalfDone, Idle
  <2> QED
    BY <2>1, SumZero DEF Moving
<1> QED
  BY <1>1, <1>2, <1>3, <1>4 DEF DaysInv, Kept, Ledger, Numbers

\* A request step that moves time from one table to the other keeps the books
LEMMA BooksKept ==
    ASSUME DaysInv, TypeInv', IsFiniteSet(Requests), NEW r \in Requests,
           now' = now, owed' = owed, \A s \in Requests \ {r} : req'[s] = req[s],
           \A i \in DOMAIN pauses : TicksKept(pauses'[i]) = TicksKept(pauses[i]),
           Rounding' - Rounding \in Nat,
           LET gap == (Kept' - Kept) - (surplus' - surplus) - (HalfDone(r)' - HalfDone(r))
           IN gap <= Rounding' - Rounding /\ 0 - gap <= Rounding' - Rounding
    PROVE  DaysInv'
<1>1. Numbers /\ Numbers' /\ TypeInv
  BY DayTypes, DayTypesNext DEF DaysInv
<1>2. \A s \in Requests \ {r} : HalfDone(s)' = HalfDone(s)
  BY <1>1, HalfDoneKept
<1>3. Moving' = Moving - HalfDone(r) + HalfDone(r)'
  BY <1>1, <1>2, MovingNext
<1>4. HalfDone(r) \in Nat /\ HalfDone(r)' \in Nat
  BY <1>1, HalfDoneType, HalfDoneTypeNext
<1>5. /\ Kept \in Int /\ Kept' \in Int /\ surplus \in Int /\ surplus' \in Int /\ owed \in Int
      /\ Moving \in Int /\ Rounding \in Int /\ Rounding' \in Int
  BY <1>1 DEF Numbers
<1>6. Kept <= owed + surplus + Moving + Rounding /\ owed + surplus + Moving <= Kept + Rounding
  BY DEF DaysInv, Ledger
<1>7. Ledger' = owed + surplus' + Moving'
  BY DEF Ledger
<1> HIDE DEF Kept, HalfDone, Moving, Rounding, Ledger
<1>8. Kept' <= Ledger' + Rounding' /\ Ledger' <= Kept' + Rounding'
  BY <1>3, <1>4, <1>5, <1>6, <1>7
<1> QED
  BY <1>8 DEF DaysInv

\* Steps that move no time
LEMMA QuietDays ==
    ASSUME DaysInv, TypeInv', IsFiniteSet(Requests), Quiet,
           \A s \in Requests : HalfDone(s)' = HalfDone(s)
    PROVE  DaysInv'
<1>1. Moving' = Moving
  BY DEF Moving
<1>2. Ledger' = Ledger
  BY <1>1 DEF Ledger, Quiet
<1> QED
  BY <1>2, QuietSame DEF DaysInv

LEMMA RecordDays ==
    ASSUME DaysInv, TypeInv', IsFiniteSet(Requests), NEW r \in Requests, RecordPause(r)
    PROVE  DaysInv'
<1>0. /\ TypeInv /\ Numbers /\ req \in [Requests -> Request] /\ user' = user
      /\ now' = now /\ owed' = owed /\ surplus' = surplus
  BY DayTypes DEF DaysInv, TypeInv, SubscriptionTypeOK, RecordPause, historyVars
<1>1. pauses' = Append(pauses, NewPause)
  BY DEF RecordPause, NewPause
<1>2. /\ PausedTime' = PausedTime + TicksKept(NewPause) /\ Rounding' = Rounding + (TicksPerDay - 1)
      /\ \A i \in DOMAIN pauses : pauses'[i] = pauses[i]
  BY <1>0, <1>1, PauseRecorded
<1>3. /\ req'[r] = [at |-> "stopping", row |-> user] /\ req[r].at = "pausing"
      /\ \A s \in Requests \ {r} : req'[s] = req[s]
  BY <1>0 DEF RecordPause
<1>4. HalfDone(r) = 0 /\ HalfDone(r)' = TicksLeft(user)
  BY <1>0, <1>3 DEF HalfDone, TicksLeft
<1>5. TicksLeft(user)' = TicksLeft(user)
  BY <1>0 DEF TicksLeft
<1> DEFINE t == TicksKept(NewPause)
           left == TicksLeft(user)
<1>6. t \in Nat /\ left <= t + (TicksPerDay - 1) /\ t <= left + (TicksPerDay - 1)
  BY <1>0, DaysWritten
<1>7. /\ PausedTime \in Nat /\ left \in Nat /\ TicksPerDay - 1 \in Nat /\ Rounding \in Nat /\ surplus \in Int
      /\ Kept = left + PausedTime /\ Kept' = left + (PausedTime + t)
  <2>1. TicksLeft(user) \in Nat /\ PausedTime \in Nat /\ Rounding \in Nat /\ surplus \in Int
    BY <1>0 DEF Numbers
  <2>2. TicksPerDay - 1 \in Nat
    BY SubscriptionAssumption
  <2>3. Kept = TicksLeft(user) + PausedTime /\ Kept' = TicksLeft(user)' + PausedTime'
    BY DEF Kept
  <2> QED
    BY <1>2, <1>5, <2>1, <2>2, <2>3
<1> HIDE DEF t, left
<1>8. (Kept' - Kept) - (surplus' - surplus) - (HalfDone(r)' - HalfDone(r)) = t - left
  BY <1>0, <1>4, <1>6, <1>7 DEF left
<1>9. Rounding' - Rounding = TicksPerDay - 1
  BY <1>2, <1>7
<1>10. t - left <= TicksPerDay - 1 /\ 0 - (t - left) <= TicksPerDay - 1
  BY <1>6, <1>7
<1> QED
  BY <1>0, <1>2, <1>3, <1>7, <1>8, <1>9, <1>10, BooksKept

LEMMA StopDays ==
    ASSUME DaysInv, TypeInv', IsFiniteSet(Requests), NEW r \in Requests, StopSubscription(r)
    PROVE  DaysInv'
<1>0. /\ TypeInv /\ Numbers /\ req \in [Requests -> Request] /\ now \in Nat
      /\ now' = now /\ owed' = owed /\ pauses' = pauses
      /\ surplus' = surplus + TicksLeft(req[r].row) - TicksLeft(user)
  BY DayTypes DEF DaysInv, TypeInv, SubscriptionTypeOK, StopSubscription
<1>1. req[r].at = "stopping" /\ req'[r].at = "idle" /\ \A s \in Requests \ {r} : req'[s] = req[s]
  BY <1>0 DEF StopSubscription, Idle
<1>2. req[r].row \in UserRow
  BY <1>0, <1>1, RequestFields
<1>3. TicksLeft(req[r].row) \in Nat
  BY <1>0, <1>2, TicksLeftType
<1>4. HalfDone(r) = TicksLeft(req[r].row) /\ HalfDone(r)' = 0
  BY <1>1 DEF HalfDone
<1>5. user'.expires = now
  BY <1>2 DEF StopSubscription, UserRow
<1>6. TicksLeft(user)' = 0
  BY <1>0, <1>5 DEF TicksLeft
<1>7. PausedTime' = PausedTime /\ Rounding' = Rounding
  BY <1>0 DEF PausedTime, OpenPauses, Rounding
<1>8. Kept' - Kept = 0 - TicksLeft(user)
  BY <1>0, <1>6, <1>7 DEF Kept, Numbers
<1>9. (Kept' - Kept) - (surplus' - surplus) - (HalfDone(r)' - HalfDone(r)) = 0 /\ Rounding' - Rounding = 0
  <2>1. TicksLeft(user) \in Nat /\ surplus \in Int /\ Rounding \in Nat
    BY <1>0 DEF Numbers
  <2> QED
    BY <1>0, <1>3, <1>4, <1>7, <1>8, <2>1
<1> QED
  BY <1>0, <1>1, <1>9, BooksKept

LEMMA RestoreDays ==
    ASSUME DaysInv, TypeInv', IsFiniteSet(Requests), NEW r \in Requests, RestoreSubscription(r)
    PROVE  DaysInv'
<1> DEFINE p == pauses[req[r].pause]
<1>0. /\ TypeInv /\ Numbers /\ req \in [Requests -> Request] /\ now \in Nat
      /\ now' = now /\ owed' = owed /\ pauses' = pauses
      /\ surplus' = surplus - TicksLeft(user)
  BY DayTypes DEF DaysInv, TypeInv, SubscriptionTypeOK, RestoreSubscription
<1>1. /\ req[r].at = "resuming" /\ req'[r] = [at |-> "closing", pause |-> req[r].pause]
      /\ \A s \in Requests \ {r} : req'[s] = req[s]
  BY <1>0 DEF RestoreSubscription
<1>2. req[r].row \in UserRow /\ req[r].pause \in DOMAIN pauses
  BY <1>0, <1>1, RequestFields DEF TypeInv, PauseKnown
<1>3. p \in SubscriptionPause /\ TicksKept(p) \in Nat
  BY <1>0, <1>2 DEF Numbers, TypeInv, SubscriptionTypeOK
<1>4. HalfDone(r) = 0 /\ HalfDone(r)' = TicksKept(p)
  BY <1>0, <1>1 DEF HalfDone
<1>5. user'.expires = ResumedExpiry(p)
  BY <1>2 DEF RestoreSubscription, UserRow
<1>6. TicksLeft(user)' = TicksKept(p)
  <2> HIDE DEF p
  <2>1. CASE p.days > 0
    <3>1. p.days \in Nat \ {0}
      BY <1>3, <2>1 DEF SubscriptionPause, PermanentRemainingDays
    <3>2. TicksKept(p) = p.days * TicksPerDay /\ ResumedExpiry(p) = now + p.days * TicksPerDay
      BY <2>1, <3>1 DEF TicksKept, ResumedExpiry
    <3>3. p.days * TicksPerDay > 0
      BY <3>1, SubscriptionAssumption
    <3> DEFINE k == p.days * TicksPerDay
    <3>4. k \in Nat /\ k > 0 /\ user'.expires = now + k
      BY <1>3, <1>5, <3>2, <3>3
    <3> HIDE DEF k
    <3>5. TicksLeft(user)' = k
      BY <1>0, <3>4 DEF TicksLeft, Nil
    <3> QED
      BY <3>2, <3>5 DEF k
  <2>2. CASE ~(p.days > 0)
    <3>1. TicksKept(p) = 0
      BY <2>2 DEF TicksKept
    <3>2. p.days = 0 \/ p.days = -1
      BY <1>3, <2>2 DEF SubscriptionPause, PermanentRemainingDays
    <3>3. ResumedExpiry(p) = now \/ ResumedExpiry(p) = Nil
      BY <1>0, <3>2, SubscriptionAssumption DEF ResumedExpiry
    <3>4. TicksLeft(user)' = 0
      BY <1>0, <1>5, <3>3 DEF TicksLeft
    <3> QED
      BY <3>1, <3>4
  <2> QED
    BY <2>1, <2>2
<1>7. PausedTime' = PausedTime /\ Rounding' = Rounding
  BY <1>0 DEF PausedTime, OpenPauses, Rounding
<1> HIDE DEF p
<1>8. Kept' - Kept = TicksKept(p) - TicksLeft(user)
  BY <1>0, <1>3, <1>6, <1>7 DEF Kept, Numbers
<1>9. (Kept' - Kept) - (surplus' - surplus) - (HalfDone(r)' - HalfDone(r)) = 0 /\ Rounding' - Rounding = 0
  <2>1. TicksLeft(user) \in Nat /\ surplus \in Int /\ Rounding \in Nat
    BY <1>0 DEF Numbers
  <2> QED
    BY <1>0, <1>3, <1>4, <1>7, <1>8, <2>1
<1> QED
  BY <1>0, <1>1, <1>9, BooksKept

LEMMA CloseDays ==
    ASSUME DaysInv, TypeInv', IsFiniteSet(Requests), NEW r \in Requests, ClosePause(r)
    PROVE  DaysInv'
<1> DEFINE i == req[r].pause
           t == TicksKept(pauses[i])
<1>0. /\ TypeInv /\ Numbers /\ req \in [Requests -> Request]
      /\ now' = now /\ owed' = owed /\ user' = user
      /\ surplus' = IF i \in OpenPauses THEN surplus ELSE surplus + t
  BY DayTypes DEF DaysInv, TypeInv, SubscriptionTypeOK, ClosePause
<1>1. req[r].at = "closing" /\ req'[r].at = "idle" /\ \A s \in Requests \ {r} : req'[s] = req[s]
  BY <1>0 DEF ClosePause, Idle
<1>2. i \in DOMAIN pauses
  BY <1>0, <1>1 DEF TypeInv, PauseKnown
<1>3. t \in Nat
  BY <1>0, <1>2 DEF Numbers
<1>4. HalfDone(r) = t /\ HalfDone(r)' = 0
  BY <1>1 DEF HalfDone
<1>5. /\ Rounding' = Rounding
      /\ \A j \in DOMAIN pauses : TicksKept(pauses'[j]) = TicksKept(pauses[j])
      /\ PausedTime' = PausedTime - (IF i \in OpenPauses THEN t ELSE 0)
  <2>1. pauses' = [pauses EXCEPT ![i].resumed = TRUE]
    BY DEF ClosePause
  <2> QED
    BY <1>0, <1>2, <2>1, PauseClosed
<1>6. TicksLeft(user)' = TicksLeft(user)
  BY <1>0 DEF TicksLeft
<1> HIDE DEF i, t
<1>7. Kept' - Kept = IF i \in OpenPauses THEN 0 - t ELSE 0
  BY <1>0, <1>3, <1>5, <1>6 DEF Kept, Numbers
<1>8. (Kept' - Kept) - (surplus' - surplus) - (HalfDone(r)' - HalfDone(r)) = 0 /\ Rounding' - Rounding = 0
  <2>1. surplus \in Int /\ Rounding \in Nat
    BY <1>0 DEF Numbers
  <2> QED
    BY <1>0, <1>3, <1>4, <1>5, <1>7, <2>1
<1> QED
  BY <1>0, <1>1, <1>5, <1>8, BooksKept

LEMMA AbandonDays ==
    ASSUME DaysInv, TypeInv', IsFiniteSet(Requests), NEW r \in Requests, Abandon(r)
    PROVE  DaysInv'
<1>0. /\ TypeInv /\ Numbers /\ req \in [Requests -> Request]
      /\ now' = now /\ owed' = owed /\ user' = user /\ pauses' = pauses
      /\ surplus' = surplus + HalfDone(r)
  BY DayTypes DEF DaysInv, TypeInv, SubscriptionTypeOK, Abandon
<1>1. req'[r].at = "idle" /\ \A s \in Requests \ {r} : req'[s] = req[s]
  BY <1>0 DEF Abandon, Idle
<1>2. HalfDone(r) \in Nat /\ HalfDone(r)' = 0
  BY <1>0, <1>1, HalfDoneType DEF HalfDone
<1>3. Kept' = Kept /\ Rounding' = Rounding
  BY <1>0 DEF Kept, TicksLeft, PausedTime, OpenPauses, Rounding
<1>4. (Kept' - Kept) - (surplus' - surplus) - (HalfDone(r)' - HalfDone(r)) = 0 /\ Rounding' - Rounding = 0
  <2>1. surplus \in Int /\ Rounding \in Nat /\ Kept \in Nat
    BY <1>0 DEF Numbers
  <2> QED
    BY <1>0, <1>2, <1>3, <2>1
<1> QED
  BY <1>0, <1>1, <1>4, BooksKept

LEMMA BuyDays ==
    ASSUME DaysInv, TypeInv', IsFiniteSet(Requests), NEW p \in Plans, BuyPlan(p)
    PROVE  DaysInv'
<1> DEFINE k == Duration[p] * TicksPerDay
<1>0. /\ TypeInv /\ Numbers /\ now' = now /\ now \in Nat /\ pauses' = pauses /\ req' = req
      /\ surplus' = surplus /\ owed' = owed + k /\ user \in UserRow
  BY DayTypes DEF DaysInv, TypeInv, SubscriptionTypeOK, BuyPlan
<1>1. k \in Nat /\ k > 0
  BY SubscriptionAssumption
<1>2. user'.expires = (IF Running THEN user.expires ELSE now) + k
  BY <1>0 DEF BuyPlan, UserRow
<1> HIDE DEF k
<1>3. TicksLeft(user)' = TicksLeft(user) + k
  <2>1. CASE Running
    <3>1. user.expires \in Nat /\ user.expires > now /\ user'.expires = user.expires + k
      BY <1>0, <1>2, <2>1 DEF Running, UserRow
    <3> QED
      BY <1>0, <1>1, <3>1 DEF TicksLeft, Nil
  <2>2. CASE ~Running
    <3>1. user'.expires = now + k /\ TicksLeft(user) = 0
      BY <1>2, <2>2 DEF Running, TicksLeft
    <3> QED
      BY <1>0, <1>1, <3>1 DEF TicksLeft, Nil
  <2> QED
    BY <2>1, <2>2
<1>4. PausedTime' = PausedTime /\ Rounding' = Rounding
  BY <1>0 DEF PausedTime, OpenPauses, Rounding
<1>5. \A s \in Requests : HalfDone(s)' = HalfDone(s)
  BY <1>0, HalfDoneKept
<1>6. Moving' = Moving
  BY <1>5 DEF Moving
<1>7. Kept' = Kept + k /\ Ledger' = Ledger + k
  BY <1>0, <1>1, <1>3, <1>4, <1>6 DEF Kept, Ledger, Numbers
<1> QED
  BY <1>0, <1>1, <1>4, <1>7 DEF DaysInv, Numbers

LEMMA TickDays ==
    ASSUME DaysInv, TypeInv', IsFiniteSet(Requests), Tick
    PROVE  DaysInv'
<1>0. /\ TypeInv /\ Numbers /\ now' = now + 1 /\ now \in Nat /\ pauses' = pauses /\ req' = req /\ user' = user
      /\ surplus' = surplus /\ owed' = (IF Running THEN owed - 1 ELSE owed)
      /\ user \in UserRow
  BY DayTypes DEF DaysInv, TypeInv, SubscriptionTypeOK, Tick
<1>1. TicksLeft(user)' = IF Running THEN TicksLeft(user) - 1 ELSE TicksLeft(user)
  BY <1>0 DEF TicksLeft, Running, UserRow, Nil
<1>2. PausedTime' = PausedTime /\ Rounding' = Rounding
  BY <1>0 DEF PausedTime, OpenPauses, Rounding
<1>3. \A s \in Requests : HalfDone(s)' = HalfDone(s)
  BY <1>0 DEF Tick, HalfDone, Idle
<1>4. Moving' = Moving
  BY <1>3 DEF Moving
<1>5. Kept' - Kept = Ledger' - Ledger
  BY <1>0, <1>1, <1>2, <1>4 DEF Kept, Ledger, Numbers
<1>6. Numbers'
  BY DayTypesNext
<1>7. Kept \in Int /\ Kept' \in Int /\ Ledger \in Int /\ Ledger' \in Int /\ Rounding \in Int
  BY <1>0, <1>6 DEF Numbers
<1>8. Kept <= Ledger + Rounding /\ Ledger <= Kept + Rounding
  BY DEF DaysInv
<1>9. Kept' <= Ledger' + Rounding' /\ Ledger' <= Kept' + Rounding'
  <2>1. \A k, l, m, n, d \in Int : m - k = n - l /\ k <= l + d /\ l <= k + d => m <= n + d /\ n <= m + d
    OBVIOUS
  <2>2. Kept' <= Ledger' + Rounding /\ Ledger' <= Kept' + Rounding
    BY <1>5, <1>7, <1>8, <2>1
  <2> QED
    BY <1>2, <2>2
<1> QED
  BY <1>9 DEF DaysInv

LEMMA DaysStep ==
    ASSUME IsFiniteSet(Requests)
    PROVE  DaysInv /\ [SubscriptionNext]_subscriptionVars => DaysInv'
<1> SUFFICES ASSUME DaysInv, [SubscriptionNext]_subscriptionVars PROVE DaysInv'
  OBVIOUS
<1>0. TypeInv /\ TypeInv' /\ req \in [Requests -> Request]
  BY TypeStep DEF DaysInv, TypeInv, SubscriptionTypeOK
<1>1. ASSUME NEW r \in Requests, QuietStep(r) PROVE DaysInv'
  <2>1. Quiet /\ req[r].at \in {"idle", "upgrading", "downgrading"}
    BY <1>0, <1>1, QuietSteps
  <2>2. PICK q \in Request : /\ req' = [req EXCEPT ![r] = q]
                             /\ q.at \in {"idle", "pausing", "resuming", "upgrading", "downgrading"}
    BY <1>0, <1>1, QuietSteps
  <2>3. HalfDone(r) = 0 /\ HalfDone(r)' = 0
    BY <1>0, <2>1, <2>2 DEF HalfDone
  <2>4. \A s \in Requests \ {r} : HalfDone(s)' = HalfDone(s)
    BY <1>0, <2>1, <2>2, HalfDoneKept DEF Quiet
  <2>5. \A s \in Requests : HalfDone(s)' = HalfDone(s)
    BY <2>3, <2>4
  <2> QED
    BY <1>0, <2>1, <2>5, QuietDays
<1>2. ASSUME NEW r \in Requests, PauseStep(r) PROVE DaysInv'
  BY <1>0, <1>2, RecordDays, StopDays, RestoreDays, CloseDays, AbandonDays DEF PauseStep
<1>3. CASE RowStep \/ UNCHANGED subscriptionVars
  <2>1. Quiet /\ req' = req
    BY <1>0, <1>3, RowSteps
  <2>2. \A s \in Requests : HalfDone(s)' = HalfDone(s)
    BY <1>0, <2>1, HalfDoneKept DEF Quiet
  <2> QED
    BY <1>0, <2>1, <2>2, QuietDays
<1>4. ASSUME NEW p \in Plans, BuyPlan(p) PROVE DaysInv'
  BY <1>0, <1>4, BuyDays
<1>5. CASE Tick
  BY <1>0, <1>5, TickDays
<1> QED
  BY <1>1, <1>2, <1>3, <1>4, <1>5, NextGroups

\* The two bounds follow from the books
LEMMA DaysBounds == IsFiniteSet(Requests) /\ DaysInv => DaysNotLost /\ DaysNotGained
<1> SUFFICES ASSUME IsFiniteSet(Requests), DaysInv PROVE DaysNotLost /\ DaysNotGained
  OBVIOUS
<1>1. Numbers
  BY DayTypes DEF DaysInv
<1>2. DaysNotLost
  BY <1>1 DEF DaysInv, DaysNotLost, Ledger, Numbers
<1>3. ASSUME ~PauseUnderWay PROVE Moving = 0
  <2>1. \A r \in Requests : HalfDone(r) = 0
    BY <1>3 DEF PauseUnderWay, HalfDone
  <2> QED
    BY <2>1, SumZero DEF Moving
<1>4. DaysNotGained
  BY <1>1, <1>3 DEF DaysInv, DaysNotGained, Ledger, Numbers
<1> QED
  BY <1>2, <1>4

(***************************************************************************)
(* With any number of overlapping pauses, resumes, purchases and plan       *)
(* changes, each of which may stop half way, no paid time is lost but the   *)
(* rounding of each pause and what surplus names: running time over which   *)
(* Pause or Resume saved an older row (pause/service.go:208, 288).          *)
(***************************************************************************)
THEOREM PaidDaysNotLost ==
    ASSUME IsFiniteSet(Requests)
    PROVE  SubscriptionSpec => []DaysNotLost
<1>1. SubscriptionInit => DaysInv
  BY DaysInit
<1>2. DaysInv /\ [SubscriptionNext]_subscriptionVars => DaysInv'
  BY DaysStep
<1>3. DaysInv => DaysNotLost
  BY DaysBounds
<1> QED
  BY <1>1, <1>2, <1>3, PTL DEF SubscriptionSpec

(***************************************************************************)
(* Nor is time gained, but less than a day with each pause and what surplus *)
(* names: time that overlapping or half-made pauses and resumes left in     *)
(* both tables (pause/service.go:193-237, 279-305).                         *)
(***************************************************************************)
THEOREM PaidDaysNotGained ==
    ASSUME IsFiniteSet(Requests)
    PROVE  SubscriptionSpec => []DaysNotGained
<1>1. SubscriptionInit => DaysInv
  BY DaysInit
<1>2. DaysInv /\ [SubscriptionNext]_subscriptionVars => DaysInv'
  BY DaysStep
<1>3. DaysInv => DaysNotGained
  BY DaysBounds
<1> QED
  BY <1>1, <1>2, <1>3, PTL DEF SubscriptionSpec
-----------------------------------------------------------------------------
(***************************************************************************)
(* The plan                                                                 *)
(***************************************************************************)

(***************************************************************************)
(* A plan that was not paid for is in force only when nothing is left that  *)
(* could run under it: no running time, and no days in a pause that is open *)
(* or about to be resumed.                                                  *)
(***************************************************************************)
NothingLeft ==
    /\ TicksLeft(user) = 0
    /\ \A i \in OpenPauses : TicksKept(pauses[i]) = 0
    /\ \A r \in Requests : req[r].at = "resuming" => TicksKept(pauses[req[r].pause]) = 0

PlanInv == TypeInv /\ (~displaced /\ user.plan # due => NothingLeft)

LEMMA PlanInit == SubscriptionInit => PlanInv
<1> SUFFICES ASSUME SubscriptionInit PROVE PlanInv
  OBVIOUS
<1>1. user.plan = due
  BY DEF SubscriptionInit
<1> QED
  BY <1>1, TypeInit DEF PlanInv

\* A step that changes no time, no plan and no pause, and reads only open pauses
LEMMA NothingLeftKept ==
    ASSUME NothingLeft, TypeInv, now' = now, pauses' = pauses, user'.expires = user.expires,
           \A r \in Requests : req'[r].at = "resuming" =>
               req'[r].pause \in OpenPauses \/ req'[r] = req[r]
    PROVE  NothingLeft'
<1>1. OpenPauses' = OpenPauses /\ TicksLeft(user)' = TicksLeft(user)
  BY DEF OpenPauses, TicksLeft
<1> QED
  BY <1>1 DEF NothingLeft

LEMMA PlanStepKept == PlanInv /\ [SubscriptionNext]_subscriptionVars => PlanInv'
<1> SUFFICES ASSUME PlanInv, [SubscriptionNext]_subscriptionVars PROVE PlanInv'
  OBVIOUS
<1>0. /\ TypeInv /\ TypeInv' /\ req \in [Requests -> Request] /\ user \in UserRow
      /\ ~displaced /\ user.plan # due => NothingLeft
      /\ now \in Nat /\ pauses \in Seq(SubscriptionPause) /\ SubscriptionTypeOK
  BY TypeStep DEF PlanInv, TypeInv, SubscriptionTypeOK
<1> SUFFICES ASSUME ~displaced', user'.plan # due' PROVE NothingLeft'
  BY <1>0 DEF PlanInv
<1>1. ASSUME NEW r \in Requests, QuietStep(r) PROVE NothingLeft'
  <2>1. Quiet
    BY <1>0, <1>1, QuietSteps
  <2>2. PICK q \in Request : /\ req' = [req EXCEPT ![r] = q]
                             /\ q.at = "resuming" => q.pause \in OpenPauses
    BY <1>0, <1>1, QuietSteps
  <2>3. \A s \in Requests : req'[s].at = "resuming" => req'[s].pause \in OpenPauses \/ req'[s] = req[s]
    BY <1>0, <2>2
  <2>4. ~displaced /\ user.plan # due
    <3>1. CASE UpgradeAndDebit(r)
      <4>1. CASE UpgradeRefused(req[r])
        BY <3>1, <4>1 DEF UpgradeAndDebit
      <4>2. CASE ~UpgradeRefused(req[r])
        <5>1. user'.plan = due'
          BY <1>0, <3>1, <4>2 DEF UpgradeAndDebit, UserRow
        <5> QED
          BY <5>1
      <4> QED
        BY <4>1, <4>2
    <3>2. CASE ~UpgradeAndDebit(r)
      <4>1. user' = user /\ historyVars' = historyVars
        BY <1>1, <3>2 DEF QuietStep, PlanStep, CheckPause, ReadPause, ScheduleDowngrade, QuoteUpgrade, QuoteDowngrade
      <4> QED
        BY <4>1 DEF historyVars
    <3> QED
      BY <3>1, <3>2
  <2> QED
    BY <1>0, <2>1, <2>3, <2>4, NothingLeftKept DEF Quiet
<1>2. ASSUME NEW r \in Requests, RecordPause(r) PROVE NothingLeft'
  <2>1. /\ user' = user /\ now' = now /\ ~displaced /\ user.plan # due
        /\ pauses' = Append(pauses, NewPause)
    BY <1>2 DEF RecordPause, NewPause, historyVars
  <2>2. NothingLeft
    BY <1>0, <2>1
  <2>3. TicksLeft(user) = 0 /\ TicksLeft(user)' = 0
    BY <2>1, <2>2 DEF NothingLeft, TicksLeft
  <2>4. TicksKept(NewPause) = 0
    BY <1>0, <2>3, DaysWritten
  <2>5. NewPause \in SubscriptionPause
    BY <1>0, NewPauseType
  <2>6. /\ DOMAIN pauses' = 1..(Len(pauses) + 1) /\ DOMAIN pauses = 1..Len(pauses) /\ Len(pauses) \in Nat
        /\ pauses'[Len(pauses) + 1] = NewPause /\ \A i \in DOMAIN pauses : pauses'[i] = pauses[i]
    BY <1>0, <2>1, <2>5
  <2>7. \A i \in OpenPauses' : i \in OpenPauses \/ i = Len(pauses) + 1
    BY <2>6 DEF OpenPauses
  <2>8. \A i \in OpenPauses' : TicksKept(pauses'[i]) = 0
    <3> SUFFICES ASSUME NEW i \in OpenPauses' PROVE TicksKept(pauses'[i]) = 0
      OBVIOUS
    <3>1. CASE i = Len(pauses) + 1
      BY <2>4, <2>6, <3>1
    <3>2. CASE i \in OpenPauses
      <4>1. i \in DOMAIN pauses /\ TicksKept(pauses[i]) = 0
        BY <2>2, <3>2 DEF NothingLeft, OpenPauses
      <4> QED
        BY <2>6, <4>1
    <3> QED
      BY <2>7, <3>1, <3>2
  <2>9. ASSUME NEW s \in Requests, req'[s].at = "resuming" PROVE TicksKept(pauses'[req'[s].pause]) = 0
    <3>1. req'[s] = req[s]
      BY <1>0, <1>2, <2>9 DEF RecordPause
    <3>2. req[s].pause \in DOMAIN pauses /\ TicksKept(pauses[req[s].pause]) = 0
      BY <1>0, <2>2, <2>9, <3>1 DEF TypeInv, PauseKnown, NothingLeft
    <3> QED
      BY <2>6, <3>1, <3>2
  <2> QED
    BY <2>3, <2>8, <2>9 DEF NothingLeft
<1>3. ASSUME NEW r \in Requests, StopSubscription(r) PROVE NothingLeft'
  <2>1. /\ now' = now /\ pauses' = pauses /\ due' = due /\ ~displaced /\ req[r].row.plan = user.plan
        /\ req[r].at = "stopping"
    BY <1>3 DEF StopSubscription
  <2>2. req[r].row \in UserRow
    BY <1>0, <2>1, RequestFields
  <2>3. user'.plan = req[r].row.plan /\ user'.expires = now
    BY <1>3, <2>2 DEF StopSubscription, UserRow
  <2>4. NothingLeft
    BY <1>0, <2>1, <2>3
  <2>5. TicksLeft(user)' = 0
    BY <1>0, <2>1, <2>3 DEF TicksLeft
  <2>6. \A s \in Requests : req'[s].at = "resuming" => req'[s] = req[s]
    BY <1>0, <1>3 DEF StopSubscription, Idle
  <2> QED
    BY <2>1, <2>4, <2>5, <2>6 DEF NothingLeft, OpenPauses
<1>4. ASSUME NEW r \in Requests, RestoreSubscription(r) PROVE NothingLeft'
  <2>1. /\ now' = now /\ pauses' = pauses /\ due' = due /\ ~displaced /\ req[r].row.plan = user.plan
        /\ req[r].at = "resuming"
    BY <1>4 DEF RestoreSubscription
  <2>2. req[r].row \in UserRow
    BY <1>0, <2>1, RequestFields
  <2>3. user'.plan = req[r].row.plan /\ user'.expires = ResumedExpiry(pauses[req[r].pause])
    BY <1>4, <2>2 DEF RestoreSubscription, UserRow
  <2>4. NothingLeft
    BY <1>0, <2>1, <2>3
  <2> DEFINE p == pauses[req[r].pause]
  <2>5. p \in SubscriptionPause /\ TicksKept(p) = 0
    BY <1>0, <2>1, <2>4 DEF NothingLeft, TypeInv, PauseKnown
  <2>6. TicksLeft(user)' = 0
    <3> HIDE DEF p
    <3>1. user'.expires = ResumedExpiry(p)
      BY <2>3 DEF p
    <3>2. ~(p.days > 0)
      <4> SUFFICES ASSUME p.days > 0 PROVE FALSE
        OBVIOUS
      <4>1. p.days \in Nat \ {0}
        BY <2>5 DEF SubscriptionPause, PermanentRemainingDays
      <4>2. p.days * TicksPerDay > 0
        BY <4>1, SubscriptionAssumption
      <4> QED
        BY <2>5, <4>2 DEF TicksKept
    <3>3. p.days = 0 \/ p.days = -1
      BY <2>5, <3>2 DEF SubscriptionPause, PermanentRemainingDays
    <3>4. ResumedExpiry(p) = now \/ ResumedExpiry(p) = Nil
      BY <1>0, <3>3, SubscriptionAssumption DEF ResumedExpiry
    <3> QED
      BY <1>0, <2>1, <3>1, <3>4 DEF TicksLeft
  <2>7. \A s \in Requests : req'[s].at = "resuming" => req'[s] = req[s]
    BY <1>0, <1>4 DEF RestoreSubscription
  <2> QED
    BY <2>1, <2>4, <2>6, <2>7 DEF NothingLeft, OpenPauses
<1>5. ASSUME NEW r \in Requests, ClosePause(r) PROVE NothingLeft'
  <2>1. /\ now' = now /\ user' = user /\ due' = due /\ displaced' = displaced /\ req[r].at = "closing"
        /\ pauses' = [pauses EXCEPT ![req[r].pause].resumed = TRUE]
    BY <1>5 DEF ClosePause
  <2>2. NothingLeft
    BY <1>0, <2>1
  <2>3. req[r].pause \in DOMAIN pauses
    BY <1>0, <2>1 DEF TypeInv, PauseKnown
  <2>4. pauses[req[r].pause] \in SubscriptionPause
    BY <1>0, <2>3
  <2>5. /\ DOMAIN pauses' = DOMAIN pauses
        /\ \A j \in DOMAIN pauses : j # req[r].pause => pauses'[j] = pauses[j]
        /\ pauses'[req[r].pause].resumed = TRUE
        /\ pauses'[req[r].pause].days = pauses[req[r].pause].days
    BY <1>0, <2>1, <2>3, <2>4 DEF SubscriptionPause
  <2>6. OpenPauses' \subseteq OpenPauses /\ \A j \in DOMAIN pauses : TicksKept(pauses'[j]) = TicksKept(pauses[j])
    BY <2>5 DEF OpenPauses, TicksKept
  <2>7. TicksLeft(user)' = TicksLeft(user)
    BY <2>1 DEF TicksLeft
  <2>8. \A s \in Requests : req'[s].at = "resuming" => req'[s] = req[s] /\ req[s].pause \in DOMAIN pauses
    BY <1>0, <1>5 DEF ClosePause, Idle, TypeInv, PauseKnown
  <2>9. OpenPauses \subseteq DOMAIN pauses
    BY DEF OpenPauses
  <2> QED
    BY <2>2, <2>6, <2>7, <2>8, <2>9 DEF NothingLeft
<1>6. ASSUME NEW r \in Requests, Abandon(r) PROVE NothingLeft'
  <2>1. /\ now' = now /\ user' = user /\ pauses' = pauses /\ due' = due /\ displaced' = displaced
        /\ \A s \in Requests : req'[s].at = "resuming" => req'[s] = req[s]
    BY <1>0, <1>6 DEF Abandon, Idle
  <2> QED
    BY <1>0, <2>1, NothingLeftKept
<1>7. CASE ApplyDueDowngrade
  <2>1. now' = now /\ pauses' = pauses /\ req' = req /\ due' = due
    BY <1>7 DEF ApplyDueDowngrade
  <2>2. CASE DowngradeStale
    <3>1. user' = user /\ displaced' = displaced
      BY <1>7, <2>2 DEF ApplyDueDowngrade
    <3> QED
      BY <1>0, <2>1, <3>1, NothingLeftKept
  <2>3. CASE ~DowngradeStale
    <3>1. Downgrade
      BY <1>7, <2>3 DEF ApplyDueDowngrade
    <3>2. ~Paused /\ user'.expires = user.expires
      BY <1>0, <3>1 DEF Downgrade, UserRow
    <3>3. pending.at \in Nat /\ pending.at <= now
      BY <1>0, <1>7 DEF ApplyDueDowngrade, SubscriptionTypeOK, PendingDowngrade, NoDowngrade
    <3>4. user.expires = Nil \/ ~(user.expires > pending.at)
      BY <2>3 DEF DowngradeStale
    <3>5. user.expires \in Nat \cup {Nil}
      BY <1>0 DEF UserRow
    <3>6. TicksLeft(user)' = 0
      BY <1>0, <2>1, <3>2, <3>3, <3>4, <3>5 DEF TicksLeft, Nil
    <3> QED
      BY <2>1, <3>2, <3>6 DEF NothingLeft, Paused, OpenPauses
  <2> QED
    BY <2>2, <2>3
<1>8. CASE (RowStep /\ ~ApplyDueDowngrade) \/ UNCHANGED subscriptionVars
  <2>1. /\ now' = now /\ user' = user /\ pauses' = pauses /\ due' = due /\ displaced' = displaced /\ req' = req
    BY <1>8 DEF RowStep, CancelPendingDowngrade, SetPlan, subscriptionVars, historyVars
  <2> QED
    BY <1>0, <2>1, NothingLeftKept
<1>9. ASSUME NEW p \in Plans, BuyPlan(p) PROVE NothingLeft'
  <2>1. user'.plan = due'
    BY <1>0, <1>9 DEF BuyPlan, UserRow
  <2> QED
    BY <2>1
<1>10. CASE Tick
  <2>1. /\ now' = now + 1 /\ user' = user /\ pauses' = pauses /\ due' = due /\ displaced' = displaced /\ req' = req
    BY <1>10 DEF Tick
  <2>2. NothingLeft
    BY <1>0, <2>1
  <2>3. TicksLeft(user)' = 0
    BY <1>0, <2>1, <2>2 DEF NothingLeft, TicksLeft, UserRow, Nil
  <2> QED
    BY <2>1, <2>2, <2>3 DEF NothingLeft, OpenPauses
<1> QED
  BY <1>1, <1>2, <1>3, <1>4, <1>5, <1>6, <1>7, <1>8, <1>9, <1>10, NextGroups DEF PauseStep, RowStep

(***************************************************************************)
(* While paid time runs or is kept by a pause the plan paid for last is in  *)
(* force: a scheduled downgrade is dropped when a renewal or an upgrade     *)
(* overtook it (commercial_atomic.go:306) and otherwise starts when nothing *)
(* is left, with any number of requests under way, unless an older row was  *)
(* saved over it or the downgrade came due during a pause.                  *)
(***************************************************************************)
THEOREM PaidPlanInForce == SubscriptionSpec => []PaidPlanServed
<1>1. PlanInv => PaidPlanServed
  <2> SUFFICES ASSUME PlanInv, Kept > 0, ~displaced, user.plan # due PROVE FALSE
    BY DEF PaidPlanServed
  <2>1. TypeInv /\ TicksLeft(user) = 0 /\ \A i \in OpenPauses : TicksKept(pauses[i]) = 0
    BY DEF PlanInv, NothingLeft
  <2>2. OpenPauses \subseteq DOMAIN pauses /\ IsFiniteSet(OpenPauses)
    <3>1. DOMAIN pauses = 1..Len(pauses) /\ Len(pauses) \in Nat
      BY <2>1 DEF TypeInv, SubscriptionTypeOK
    <3>2. IsFiniteSet(DOMAIN pauses)
      BY <3>1, FS_Interval
    <3> QED
      BY <3>2, FS_Subset DEF OpenPauses
  <2>3. PausedTime = 0
    <3> DEFINE g == [i \in DOMAIN pauses |-> TicksKept(pauses[i])]
    <3>1. \A i \in OpenPauses : g[i] = 0
      BY <2>1, <2>2
    <3> HIDE DEF g
    <3>2. SumFunctionOnSet(g, OpenPauses) = 0
      BY <2>2, <3>1, SumZero
    <3> QED
      BY <3>2 DEF PausedTime, g
  <2> QED
    BY <2>1, <2>3 DEF Kept
<1> QED
  BY <1>1, PlanInit, PlanStepKept, PTL DEF SubscriptionSpec
=============================================================================
