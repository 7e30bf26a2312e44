---------------------------- MODULE WalletCredits ----------------------------
(***************************************************************************)
(* Money that enters the wallet: gift cards, which an administrator creates *)
(* and users redeem, and recharges, which a payment gateway collects.       *)
(*                                                                          *)
(* Redeeming and deleting a card first read its row and decide, and act     *)
(* later: each is several steps, and other requests run in between.  The    *)
(* transactions of the repository are one step each.  Nothing that is wired *)
(* sells a card, so purchased_by is NULL and left out; an "expired" status  *)
(* of a recharge is declared but never written.                             *)
(***************************************************************************)
EXTENDS Wallet, FiniteSets, FiniteSetsExt

CONSTANTS
    Cards,           \* rows of gift_cards, by id
    Recharges,       \* rows of balance_recharge_orders, by id
    Requests,        \* redemptions that can be under way at once
    Values,          \* face values and recharge amounts
    Expiries,        \* expiry times an administrator gives to a batch
    Nobody,          \* NULL in redeemed_by
    MaxTime          \* bound: the clock stops here

ASSUME CreditsAssumption ==
    /\ Values \subseteq Nat \ {0}
    /\ Expiries \subseteq Nat
    /\ Nobody \notin Users
    /\ MaxTime \in Nat

VARIABLES
    cards,       \* gift_cards; a deleted row keeps its columns here, as history
    redeeming,   \* per request, where Redeem stands
    deleting,    \* cards a Delete has looked at and will delete
    recharges,   \* balance_recharge_orders
    creating,    \* recharges whose CreateRecharge waits for the gateway
    offered,     \* recharges whose payment page the customer was given
    charged,     \* recharges for which the gateway has taken the money
    now,         \* time.Now()
    credits,     \* history: how often a card was credited to a wallet
    reissued,    \* history: how often a credited card was set back to "active"
    overwritten  \* history: per user, the value of cards somebody redeemed after him

historyVars == <<credits, reissued, overwritten>>
cardVars == <<cards, redeeming, deleting, historyVars>>
rechargeVars == <<recharges, creating, offered, charged>>
creditVars == <<walletVars, cardVars, rechargeVars, now>>

\* ExpiresAt = nil: no moment of the clock is after it
Never == MaxTime + 1

\* GiftCardStatus*, and the absence of a row before and after its life
CardStatuses == {"absent", "active", "redeemed", "expired", "disabled", "deleted"}

GiftCard == [status: CardStatuses, value: Nat, expiresAt: Nat, redeemedBy: Users \cup {Nobody}]

RechargeOrder == [status: {"absent", "pending", "paid", "cancelled"},
                  user: Users \cup {Nobody}, amount: Nat]

NoCard == [status |-> "absent", value |-> 0, expiresAt |-> 0, redeemedBy |-> Nobody]
NoRecharge == [status |-> "absent", user |-> Nobody, amount |-> 0]

\* Redeem has read the row; then it knows whether the card had expired
Reading(c, u) == [stage |-> "read", card |-> c, user |-> u]
Idle == [stage |-> "idle"]
Redemption == {Idle} \cup [stage: {"read", "valid", "expired"}, card: Cards, user: Users]

HasRow(c) == cards[c].status \notin {"absent", "deleted"}

CreditsInit ==
    /\ WalletInit
    /\ cards = [c \in Cards |-> NoCard]
    /\ redeeming = [r \in Requests |-> Idle]
    /\ deleting = {}
    /\ recharges = [q \in Recharges |-> NoRecharge]
    /\ creating = {} /\ offered = {} /\ charged = {}
    /\ now = 0
    /\ credits = [c \in Cards |-> 0] /\ reissued = [c \in Cards |-> 0]
    /\ overwritten = [u \in Users |-> 0]

-----------------------------------------------------------------------------
(* Gift cards *)

\* CreateBatch: cards of one value and one expiry, in one INSERT
CreateBatch(batch, v, t) ==
    /\ batch # {}
    /\ \A c \in batch : cards[c].status = "absent"
    /\ cards' = [c \in Cards |->
          IF c \in batch
          THEN [status |-> "active", value |-> v, expiresAt |-> t, redeemedBy |-> Nobody]
          ELSE cards[c]]
    /\ UNCHANGED <<walletVars, redeeming, deleting, historyVars, rechargeVars, now>>

\* Redeem reads the card and refuses it unless it is active
ReadCard(r, c, u) ==
    /\ redeeming[r] = Idle
    /\ cards[c].status = "active"
    /\ redeeming' = [redeeming EXCEPT ![r] = Reading(c, u)]
    /\ UNCHANGED <<walletVars, cards, deleting, historyVars, rechargeVars, now>>

\* Redeem compares the expiry it read with the clock
CheckExpiry(r) ==
    /\ redeeming[r].stage = "read"
    /\ redeeming' = [redeeming EXCEPT ![r].stage =
          IF now > cards[redeeming[r].card].expiresAt THEN "expired" ELSE "valid"]
    /\ UNCHANGED <<walletVars, cards, deleting, historyVars, rechargeVars, now>>

\* SetStatus of the repository: by id alone, whatever the status is by now
SetStatus(c, s) ==
    cards' = IF HasRow(c) THEN [cards EXCEPT ![c].status = s] ELSE cards

\* Redeem found the card expired and says so in its row
MarkExpired(r) ==
    /\ redeeming[r].stage = "expired"
    /\ SetStatus(redeeming[r].card, "expired")
    /\ redeeming' = [redeeming EXCEPT ![r] = Idle]
    /\ UNCHANGED <<walletVars, deleting, historyVars, rechargeVars, now>>

\* A mutated form of Redeemable: the status is not looked at again
RedeemableAsRead(c) == HasRow(c) /\ cards[c].expiresAt > now

\* The WHERE clause of RedeemAndCredit
Redeemable(c) == cards[c].status = "active" /\ cards[c].expiresAt > now

\* The status, the wallet and the audit row in one transaction
RedeemAndCredit(r) ==
    LET c == redeeming[r].card
        u == redeeming[r].user IN
    /\ redeeming[r].stage = "valid"
    /\ Redeemable(c)
    /\ CreditAtomic(u, cards[c].value)
    /\ cards' = [cards EXCEPT ![c] = [@ EXCEPT !.status = "redeemed", !.redeemedBy = u]]
    /\ credits' = [credits EXCEPT ![c] = @ + 1]
    /\ overwritten' = [x \in Users |->
          overwritten[x] + IF x = cards[c].redeemedBy THEN cards[c].value ELSE 0]
    /\ redeeming' = [redeeming EXCEPT ![r] = Idle]
    /\ UNCHANGED <<deleting, reissued, rechargeVars, now>>

\* The guarded UPDATE matches no row, or the credit rolls it back
RedeemRefused(r) ==
    LET c == redeeming[r].card
        u == redeeming[r].user IN
    /\ redeeming[r].stage = "valid"
    /\ ~Redeemable(c) \/ balance[u] > MaxBalance - cards[c].value
    /\ redeeming' = [redeeming EXCEPT ![r] = Idle]
    /\ UNCHANGED <<walletVars, cards, deleting, historyVars, rechargeVars, now>>

\* What SetStatus of the service lets an administrator set
AdminStatuses == {"active", "disabled"}

\* It checks the new status alone: a redeemed card, too, can be made active again
AdminSetStatus(c, s) ==
    /\ HasRow(c)
    /\ SetStatus(c, s)
    /\ reissued' = [reissued EXCEPT ![c] = IF s = "active" /\ credits[c] > @ THEN @ + 1 ELSE @]
    /\ UNCHANGED <<walletVars, redeeming, deleting, credits, overwritten, rechargeVars, now>>

\* Delete reads the card and refuses a redeemed one
DeleteReads(c) ==
    /\ HasRow(c) /\ cards[c].status # "redeemed"
    /\ deleting' = deleting \cup {c}
    /\ UNCHANGED <<walletVars, cards, redeeming, historyVars, rechargeVars, now>>

\* ... and deletes by id
DeleteRow(c) ==
    /\ c \in deleting
    /\ deleting' = deleting \ {c}
    /\ SetStatus(c, "deleted")
    /\ UNCHANGED <<walletVars, redeeming, historyVars, rechargeVars, now>>

-----------------------------------------------------------------------------
(* Recharges *)

\* CreateRecharge stores the order, then asks the gateway for a payment page
CreateRechargeOrder(q, u, v) ==
    /\ recharges[q].status = "absent"
    /\ recharges' = [recharges EXCEPT ![q] = [status |-> "pending", user |-> u, amount |-> v]]
    /\ creating' = creating \cup {q}
    /\ UNCHANGED <<walletVars, cardVars, offered, charged, now>>

\* The gateway answers with the page, which goes to the customer
CreateGatewayPayment(q) ==
    /\ q \in creating
    /\ creating' = creating \ {q}
    /\ offered' = offered \cup {q}
    /\ UNCHANGED <<walletVars, cardVars, recharges, charged, now>>

\* A mutated form of CancelRecharge: recharges that were offered are cancelled too
CancelOffered(q) ==
    /\ q \in creating \cup offered
    /\ recharges[q].status = "pending"
    /\ recharges' = [recharges EXCEPT ![q].status = "cancelled"]
    /\ creating' = creating \ {q}
    /\ UNCHANGED <<walletVars, cardVars, offered, charged, now>>

\* The gateway fails: CreateRecharge cancels the order it has just stored
CancelRecharge(q) ==
    /\ q \in creating
    /\ recharges[q].status = "pending"
    /\ recharges' = [recharges EXCEPT ![q].status = "cancelled"]
    /\ creating' = creating \ {q}
    /\ UNCHANGED <<walletVars, cardVars, offered, charged, now>>

\* The customer pays, once per order number, when he likes
GatewayCharge(q) ==
    /\ q \in offered \ charged
    /\ charged' = charged \cup {q}
    /\ UNCHANGED <<walletVars, cardVars, recharges, creating, offered, now>>

\* A mutated form of AwaitsPayment: a repeated callback is not told from the first
AwaitsPaymentOrPaid(q) == recharges[q].status \in {"pending", "paid"}

\* The status MarkPaidAndCredit insists on; a callback is repeated at will
AwaitsPayment(q) == recharges[q].status = "pending"

(***************************************************************************)
(* HandleCallback for a number that is no order's: status, wallet and audit *)
(* row in one transaction.  Neither the expiry of the recharge nor the      *)
(* room in the column is looked at; a sum beyond bigint is an error of the  *)
(* database, and rolls back.  A callback for a paid recharge changes        *)
(* nothing.                                                                 *)
(***************************************************************************)
MarkPaidAndCredit(q) ==
    LET u == recharges[q].user
        v == recharges[q].amount IN
    /\ q \in charged
    /\ AwaitsPayment(q)
    /\ balance[u] + v <= MaxBalance
    /\ recharges' = [recharges EXCEPT ![q].status = "paid"]
    /\ balance' = [balance EXCEPT ![u] = @ + v]
    /\ audited' = [audited EXCEPT ![u] = @ + v]
    /\ UNCHANGED <<cardVars, creating, offered, charged, now>>

-----------------------------------------------------------------------------
Tick ==
    /\ now < MaxTime
    /\ now' = now + 1
    /\ UNCHANGED <<walletVars, cardVars, rechargeVars>>

\* The process stops: the requests under way are gone, the rows stay
Restart ==
    /\ redeeming' = [r \in Requests |-> Idle]
    /\ deleting' = {}
    /\ creating' = {}
    /\ UNCHANGED <<walletVars, cards, historyVars, recharges, offered, charged, now>>

CreditsNext ==
    \/ \E batch \in SUBSET Cards, v \in Values, t \in Expiries \cup {Never} : CreateBatch(batch, v, t)
    \/ \E r \in Requests, c \in Cards, u \in Users : ReadCard(r, c, u)
    \/ \E r \in Requests : CheckExpiry(r)
    \/ \E r \in Requests : MarkExpired(r)
    \/ \E r \in Requests : RedeemAndCredit(r)
    \/ \E r \in Requests : RedeemRefused(r)
    \/ \E c \in Cards, s \in AdminStatuses : AdminSetStatus(c, s)
    \/ \E c \in Cards : DeleteReads(c)
    \/ \E c \in Cards : DeleteRow(c)
    \/ \E q \in Recharges, u \in Users, v \in Values : CreateRechargeOrder(q, u, v)
    \/ \E q \in Recharges : CreateGatewayPayment(q)
    \/ \E q \in Recharges : CancelRecharge(q)
    \/ \E q \in Recharges : GatewayCharge(q)
    \/ \E q \in Recharges : MarkPaidAndCredit(q)
    \/ Tick
    \/ Restart

CreditsSpec == CreditsInit /\ [][CreditsNext]_creditVars

-----------------------------------------------------------------------------
(***************************************************************************)
(* The types of the tables and of the requests under way; the balance       *)
(* column stays within its range.                                           *)
(***************************************************************************)
CreditsTypeOK ==
    /\ WalletTypeOK
    /\ cards \in [Cards -> GiftCard]
    /\ redeeming \in [Requests -> Redemption]
    /\ deleting \subseteq Cards
    /\ recharges \in [Recharges -> RechargeOrder]
    /\ creating \subseteq Recharges
    /\ offered \subseteq Recharges
    /\ charged \subseteq offered
    /\ now \in 0..MaxTime
    /\ credits \in [Cards -> Nat]
    /\ reissued \in [Cards -> Nat]
    /\ overwritten \in [Users -> Nat]

(***************************************************************************)
(* A card is money once for every time an administrator issued it: whatever *)
(* redemptions, expiry marks, deletions and changes of status race for it,  *)
(* RedeemAndCredit credits it to one wallet at most, and to one more only   *)
(* after each AdminSetStatus that made a card active again when it was      *)
(* already spent.                                                           *)
(***************************************************************************)
CardCreditedOnce == \A c \in Cards : credits[c] <= 1 + reissued[c]

RedeemedCards(u) == {c \in Cards : cards[c].redeemedBy = u}
PaidRecharges(u) == {q \in Recharges : recharges[q].user = u /\ recharges[q].status = "paid"}

(***************************************************************************)
(* The wallet agrees with the tables it was filled from: a user's balance,  *)
(* and the sum of his audit rows, is the value of the cards whose           *)
(* redeemed_by names him and of his paid recharges.  What he was credited   *)
(* for a card that somebody redeemed after him is no longer in the table,   *)
(* and that happens only if an administrator made a spent card active.      *)
(***************************************************************************)
BalanceFromCredits ==
    \A u \in Users :
        /\ balance[u] = audited[u]
        /\ balance[u] = SumFunctionOnSet([c \in Cards |-> cards[c].value], RedeemedCards(u))
                      + SumFunctionOnSet([q \in Recharges |-> recharges[q].amount], PaidRecharges(u))
                      + overwritten[u]
        /\ overwritten[u] > 0 => \E c \in Cards : reissued[c] > 0

(***************************************************************************)
(* Money that the gateway took can still reach the wallet: CreateRecharge   *)
(* cancels only recharges nobody can pay, although the page is handed out   *)
(* after the row was stored and the callback comes at any later time.       *)
(***************************************************************************)
ChargeCreditable == \A q \in charged : recharges[q].status \in {"pending", "paid"}
=============================================================================
