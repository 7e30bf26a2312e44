------------------------- MODULE WalletCreditsProofs -------------------------
(***************************************************************************)
(* Proofs about WalletCredits, for any numbers of users, cards, recharges   *)
(* and requests under way, any values and expiries.                         *)
(***************************************************************************)
EXTENDS WalletCredits, SumLemmas, TLAPS

\* A recharge that waits for its payment has an owner
RechargeOwned == \A q \in Recharges : recharges[q].status = "pending" => recharges[q].user \in Users

\* A credit keeps the balance column within its range
LEMMA CreditAtomicType ==
    ASSUME WalletTypeOK, NEW u \in Users, NEW v \in Nat, CreditAtomic(u, v)
    PROVE  WalletTypeOK'
  BY WalletAssumption DEF WalletTypeOK, CreditAtomic

\* A request that found its card valid knows a card and a user
LEMMA RedemptionKnown ==
    ASSUME CreditsTypeOK, NEW r \in Requests, redeeming[r].stage # "idle"
    PROVE  /\ redeeming[r].card \in Cards
           /\ redeeming[r].user \in Users
           /\ redeeming[r] \in [stage: {"read", "valid", "expired"}, card: Cards, user: Users]
<1>1. redeeming[r] \in Redemption /\ redeeming[r] # Idle
  BY DEF CreditsTypeOK, Idle
<1> QED
  BY <1>1 DEF Redemption

\* A change of status by id keeps the table well typed
LEMMA SetStatusType ==
    ASSUME CreditsTypeOK, NEW c \in Cards, NEW s \in CardStatuses, SetStatus(c, s)
    PROVE  cards' \in [Cards -> GiftCard]
  BY DEF CreditsTypeOK, SetStatus, GiftCard

\* The initial states are well typed
LEMMA TypeInit == CreditsInit => CreditsTypeOK /\ RechargeOwned
<1> SUFFICES ASSUME CreditsInit PROVE CreditsTypeOK /\ RechargeOwned
  OBVIOUS
<1>1. WalletTypeOK
  BY WalletAssumption DEF CreditsInit, WalletInit, WalletTypeOK
<1>2. cards \in [Cards -> GiftCard] /\ recharges \in [Recharges -> RechargeOrder]
  BY DEF CreditsInit, NoCard, NoRecharge, GiftCard, RechargeOrder, CardStatuses
<1>3. redeeming \in [Requests -> Redemption]
  BY DEF CreditsInit, Redemption
<1>4. now \in 0..MaxTime
  BY CreditsAssumption DEF CreditsInit
<1>5. RechargeOwned
  BY DEF CreditsInit, RechargeOwned, NoRecharge
<1> QED
  BY <1>1, <1>2, <1>3, <1>4, <1>5 DEF CreditsInit, CreditsTypeOK

\* Every step keeps the types: one case per action
LEMMA TypeStep == CreditsTypeOK /\ RechargeOwned /\ [CreditsNext]_creditVars
                    => CreditsTypeOK' /\ RechargeOwned'
<1> SUFFICES ASSUME CreditsTypeOK, RechargeOwned, [CreditsNext]_creditVars
             PROVE  CreditsTypeOK' /\ RechargeOwned'
  OBVIOUS
<1> USE DEF CreditsTypeOK, walletVars, cardVars, historyVars, rechargeVars
<1>1. ASSUME NEW batch \in SUBSET Cards, NEW v \in Values, NEW t \in Expiries \cup {Never},
             CreateBatch(batch, v, t)
      PROVE  CreditsTypeOK' /\ RechargeOwned'
  <2>1. v \in Nat /\ t \in Nat
    BY CreditsAssumption DEF Never
  <2>2. cards' \in [Cards -> GiftCard]
    BY <1>1, <2>1 DEF CreateBatch, GiftCard, CardStatuses
  <2> QED
    BY <1>1, <2>2 DEF CreateBatch, RechargeOwned, WalletTypeOK
<1>2. ASSUME NEW r \in Requests, NEW c \in Cards, NEW u \in Users, ReadCard(r, c, u)
      PROVE  CreditsTypeOK' /\ RechargeOwned'
  <2>1. Reading(c, u) \in Redemption
    BY DEF Reading, Redemption
  <2> QED
    BY <1>2, <2>1 DEF ReadCard, RechargeOwned, WalletTypeOK
<1>3. ASSUME NEW r \in Requests, CheckExpiry(r) PROVE CreditsTypeOK' /\ RechargeOwned'
  <2>1. redeeming[r] \in [stage: {"read", "valid", "expired"}, card: Cards, user: Users]
    BY <1>3, RedemptionKnown DEF CheckExpiry
  <2>2. redeeming' \in [Requests -> Redemption]
    BY <1>3, <2>1 DEF CheckExpiry, Redemption
  <2> QED
    BY <1>3, <2>2 DEF CheckExpiry, RechargeOwned, WalletTypeOK
<1>4. ASSUME NEW r \in Requests, MarkExpired(r) PROVE CreditsTypeOK' /\ RechargeOwned'
  <2>1. redeeming[r].card \in Cards
    BY <1>4, RedemptionKnown DEF MarkExpired
  <2>2. cards' \in [Cards -> GiftCard]
    BY <1>4, <2>1, SetStatusType DEF MarkExpired, CardStatuses
  <2>3. redeeming' \in [Requests -> Redemption]
    BY <1>4 DEF MarkExpired, Redemption
  <2> QED
    BY <1>4, <2>2, <2>3 DEF MarkExpired, RechargeOwned, WalletTypeOK
<1>5. ASSUME NEW r \in Requests, RedeemAndCredit(r) PROVE CreditsTypeOK' /\ RechargeOwned'
  <2>1. redeeming[r].card \in Cards /\ redeeming[r].user \in Users
    BY <1>5, RedemptionKnown DEF RedeemAndCredit
  <2>2. cards[redeeming[r].card].value \in Nat
    BY <2>1 DEF GiftCard
  <2>3. WalletTypeOK'
    BY <1>5, <2>1, <2>2, CreditAtomicType DEF RedeemAndCredit
  <2>4. cards' \in [Cards -> GiftCard]
    BY <1>5, <2>1 DEF RedeemAndCredit, GiftCard, CardStatuses
  <2>5. redeeming' \in [Requests -> Redemption]
    BY <1>5 DEF RedeemAndCredit, Redemption
  <2>6. credits' \in [Cards -> Nat] /\ overwritten' \in [Users -> Nat]
    BY <1>5, <2>1, <2>2 DEF RedeemAndCredit
  <2> QED
    BY <1>5, <2>3, <2>4, <2>5, <2>6 DEF RedeemAndCredit, RechargeOwned
<1>6. ASSUME NEW r \in Requests, RedeemRefused(r) PROVE CreditsTypeOK' /\ RechargeOwned'
  BY <1>6 DEF RedeemRefused, Redemption, RechargeOwned, WalletTypeOK
<1>7. ASSUME NEW c \in Cards, NEW s \in AdminStatuses, AdminSetStatus(c, s)
      PROVE  CreditsTypeOK' /\ RechargeOwned'
  <2>1. cards' \in [Cards -> GiftCard]
    BY <1>7, SetStatusType DEF AdminSetStatus, AdminStatuses, CardStatuses
  <2>2. reissued' \in [Cards -> Nat]
    BY <1>7 DEF AdminSetStatus
  <2> QED
    BY <1>7, <2>1, <2>2 DEF AdminSetStatus, RechargeOwned, WalletTypeOK
<1>8. ASSUME NEW c \in Cards, DeleteReads(c) PROVE CreditsTypeOK' /\ RechargeOwned'
  BY <1>8 DEF DeleteReads, RechargeOwned, WalletTypeOK
<1>9. ASSUME NEW c \in Cards, DeleteRow(c) PROVE CreditsTypeOK' /\ RechargeOwned'
  <2>1. cards' \in [Cards -> GiftCard]
    BY <1>9, SetStatusType DEF DeleteRow, CardStatuses
  <2> QED
    BY <1>9, <2>1 DEF DeleteRow, RechargeOwned, WalletTypeOK
<1>10. ASSUME NEW q \in Recharges, NEW u \in Users, NEW v \in Values, CreateRechargeOrder(q, u, v)
       PROVE  CreditsTypeOK' /\ RechargeOwned'
  <2>1. recharges' \in [Recharges -> RechargeOrder]
    BY <1>10, CreditsAssumption DEF CreateRechargeOrder, RechargeOrder
  <2>2. RechargeOwned'
    BY <1>10 DEF CreateRechargeOrder, RechargeOwned
  <2> QED
    BY <1>10, <2>1, <2>2 DEF CreateRechargeOrder, WalletTypeOK
<1>11. ASSUME NEW q \in Recharges, CreateGatewayPayment(q) PROVE CreditsTypeOK' /\ RechargeOwned'
  BY <1>11 DEF CreateGatewayPayment, RechargeOwned, WalletTypeOK
<1>12. ASSUME NEW q \in Recharges, CancelRecharge(q) PROVE CreditsTypeOK' /\ RechargeOwned'
  <2>1. recharges' \in [Recharges -> RechargeOrder]
    BY <1>12 DEF CancelRecharge, RechargeOrder
  <2>2. RechargeOwned'
    BY <1>12 DEF CancelRecharge, RechargeOwned, RechargeOrder
  <2> QED
    BY <1>12, <2>1, <2>2 DEF CancelRecharge, WalletTypeOK
<1>13. ASSUME NEW q \in Recharges, GatewayCharge(q) PROVE CreditsTypeOK' /\ RechargeOwned'
  BY <1>13 DEF GatewayCharge, RechargeOwned, WalletTypeOK
<1>14. ASSUME NEW q \in Recharges, MarkPaidAndCredit(q) PROVE CreditsTypeOK' /\ RechargeOwned'
  <2>1. recharges[q].user \in Users /\ recharges[q].amount \in Nat
    BY <1>14 DEF MarkPaidAndCredit, AwaitsPayment, RechargeOwned, RechargeOrder
  <2>2. WalletTypeOK'
    BY <1>14, <2>1, WalletAssumption DEF MarkPaidAndCredit, WalletTypeOK
  <2>3. recharges' \in [Recharges -> RechargeOrder]
    BY <1>14 DEF MarkPaidAndCredit, RechargeOrder
  <2>4. RechargeOwned'
    BY <1>14 DEF MarkPaidAndCredit, RechargeOwned, RechargeOrder
  <2> QED
    BY <1>14, <2>2, <2>3, <2>4 DEF MarkPaidAndCredit
<1>15. CASE Tick
  BY <1>15, CreditsAssumption DEF Tick, RechargeOwned, WalletTypeOK
<1>16. CASE Restart
  BY <1>16 DEF Restart, Redemption, RechargeOwned, WalletTypeOK
<1>17. CASE UNCHANGED creditVars
  BY <1>17 DEF creditVars, RechargeOwned, WalletTypeOK
<1> QED
  BY <1>1, <1>2, <1>3, <1>4, <1>5, <1>6, <1>7, <1>8, <1>9, <1>10, <1>11, <1>12,
     <1>13, <1>14, <1>15, <1>16, <1>17 DEF CreditsNext

(***************************************************************************)
(* The tables keep their types and the balance column its range, through    *)
(* gift cards (RedeemAndCredit) and recharges (MarkPaidAndCredit) alike.    *)
(***************************************************************************)
THEOREM CreditsTypeCorrect == CreditsSpec => []CreditsTypeOK
<1>1. CreditsSpec => [](CreditsTypeOK /\ RechargeOwned)
  BY TypeInit, TypeStep, PTL DEF CreditsSpec
<1> QED
  BY <1>1, PTL

-----------------------------------------------------------------------------
\* A card that can be redeemed has been credited no more often than it was reissued
CardUnspent ==
    \A c \in Cards : /\ credits[c] <= 1 + reissued[c]
                     /\ cards[c].status \in {"absent", "active"} => credits[c] <= reissued[c]

\* Where the table of cards and the history do not change, the card is as spent as before
LEMMA CardUnspentKept ==
    ASSUME CardUnspent, UNCHANGED <<cards, historyVars>>
    PROVE  CardUnspent'
  BY DEF CardUnspent, historyVars

\* A status other than "active", set by id, cannot make a card redeemable
LEMMA SetStatusUnspent ==
    ASSUME CreditsTypeOK, CardUnspent, NEW c \in Cards, NEW s \in CardStatuses \ {"absent", "active"},
           SetStatus(c, s), UNCHANGED <<credits, reissued>>
    PROVE  CardUnspent'
  BY DEF CreditsTypeOK, CardUnspent, SetStatus, GiftCard

\* An administrator who makes a spent card redeemable has it counted as reissued
LEMMA AdminUnspent ==
    ASSUME CreditsTypeOK, CardUnspent, NEW c \in Cards, NEW s \in AdminStatuses, AdminSetStatus(c, s)
    PROVE  CardUnspent'
<1>1. /\ \A d \in Cards : credits[d] \in Nat /\ reissued[d] \in Nat /\ credits[d] <= 1 + reissued[d]
      /\ credits' = credits
  BY DEF CreditsTypeOK, CardUnspent, AdminSetStatus
<1>2. \A d \in Cards \ {c} : cards'[d] = cards[d] /\ reissued'[d] = reissued[d]
  BY DEF CreditsTypeOK, AdminSetStatus, SetStatus
<1>3. cards'[c].status = s
  BY DEF CreditsTypeOK, AdminSetStatus, SetStatus, GiftCard
<1>4. reissued'[c] = IF s = "active" /\ credits[c] > reissued[c] THEN reissued[c] + 1 ELSE reissued[c]
  BY DEF CreditsTypeOK, AdminSetStatus
<1>5. credits[c] <= 1 + reissued'[c] /\ (s = "active" => credits[c] <= reissued'[c])
  BY <1>1, <1>4
<1> QED
  BY <1>1, <1>2, <1>3, <1>5 DEF CardUnspent, AdminStatuses

\* Every step keeps CardUnspent
LEMMA UnspentStep == CreditsTypeOK /\ CardUnspent /\ [CreditsNext]_creditVars => CardUnspent'
<1> SUFFICES ASSUME CreditsTypeOK, CardUnspent, [CreditsNext]_creditVars PROVE CardUnspent'
  OBVIOUS
<1> USE DEF cardVars, historyVars
<1>1. ASSUME NEW batch \in SUBSET Cards, NEW v \in Values, NEW t \in Expiries \cup {Never},
             CreateBatch(batch, v, t)
      PROVE  CardUnspent'
  BY <1>1 DEF CreateBatch, CardUnspent, CreditsTypeOK
<1>2. ASSUME NEW r \in Requests, MarkExpired(r) PROVE CardUnspent'
  <2>1. redeeming[r].card \in Cards
    BY <1>2, RedemptionKnown DEF MarkExpired
  <2> QED
    BY <1>2, <2>1, SetStatusUnspent DEF MarkExpired, CardStatuses
<1>3. ASSUME NEW r \in Requests, RedeemAndCredit(r) PROVE CardUnspent'
  <2>1. redeeming[r].card \in Cards
    BY <1>3, RedemptionKnown DEF RedeemAndCredit
  <2>2. /\ credits[redeeming[r].card] <= reissued[redeeming[r].card]
        /\ credits[redeeming[r].card] \in Nat /\ reissued[redeeming[r].card] \in Nat
    BY <1>3, <2>1 DEF RedeemAndCredit, Redeemable, CardUnspent, CreditsTypeOK
  <2> QED
    BY <1>3, <2>1, <2>2 DEF RedeemAndCredit, CardUnspent, CreditsTypeOK, GiftCard
<1>4. ASSUME NEW c \in Cards, NEW s \in AdminStatuses, AdminSetStatus(c, s) PROVE CardUnspent'
  BY <1>4, AdminUnspent
<1>5. ASSUME NEW c \in Cards, DeleteRow(c) PROVE CardUnspent'
  BY <1>5, SetStatusUnspent DEF DeleteRow, CardStatuses
<1>6. ASSUME NEW r \in Requests PROVE /\ CheckExpiry(r) => CardUnspent'
                                      /\ RedeemRefused(r) => CardUnspent'
  BY CardUnspentKept DEF CheckExpiry, RedeemRefused
<1>7. ASSUME NEW r \in Requests, NEW c \in Cards, NEW u \in Users, ReadCard(r, c, u)
      PROVE  CardUnspent'
  BY <1>7, CardUnspentKept DEF ReadCard
<1>8. ASSUME NEW c \in Cards, DeleteReads(c) PROVE CardUnspent'
  BY <1>8, CardUnspentKept DEF DeleteReads
<1>9. ASSUME NEW q \in Recharges, NEW u \in Users, NEW v \in Values, CreateRechargeOrder(q, u, v)
      PROVE  CardUnspent'
  BY <1>9, CardUnspentKept DEF CreateRechargeOrder
<1>10. ASSUME NEW q \in Recharges
       PROVE  /\ CreateGatewayPayment(q) => CardUnspent'
              /\ CancelRecharge(q) => CardUnspent'
              /\ GatewayCharge(q) => CardUnspent'
              /\ MarkPaidAndCredit(q) => CardUnspent'
  BY CardUnspentKept DEF CreateGatewayPayment, CancelRecharge, GatewayCharge, MarkPaidAndCredit
<1>11. CASE Tick \/ Restart \/ UNCHANGED creditVars
  BY <1>11, CardUnspentKept DEF Tick, Restart, creditVars
<1> QED
  BY <1>1, <1>2, <1>3, <1>4, <1>5, <1>6, <1>7, <1>8, <1>9, <1>10, <1>11 DEF CreditsNext

(***************************************************************************)
(* A gift card is credited once for every time an administrator issued it,  *)
(* whatever redemptions, expiry marks, deletions and changes of status race *)
(* for it: RedeemAndCredit looks at the status again, and only              *)
(* AdminSetStatus makes a spent card active.                                *)
(***************************************************************************)
THEOREM CardIsMoneyOnce == CreditsSpec => []CardCreditedOnce
<1>1. CreditsInit => CardUnspent
  BY DEF CreditsInit, CardUnspent
<1>2. CardUnspent => CardCreditedOnce
  BY DEF CardUnspent, CardCreditedOnce
<1> QED
  BY <1>1, <1>2, UnspentStep, CreditsTypeCorrect, PTL DEF CreditsSpec

-----------------------------------------------------------------------------
(***************************************************************************)
(* Of the recharges, those the customer can pay are apart from those the    *)
(* handler may still cancel, and stay pending or paid.                      *)
(***************************************************************************)
OfferKept ==
    /\ creating \cap offered = {}
    /\ charged \subseteq offered
    /\ \A q \in creating : recharges[q].status = "pending"
    /\ \A q \in offered : recharges[q].status \in {"pending", "paid"}

\* Where the recharges do not change, OfferKept stays
LEMMA OfferUntouched ==
    ASSUME OfferKept, UNCHANGED rechargeVars
    PROVE  OfferKept'
  BY DEF OfferKept, rechargeVars

\* Every step keeps OfferKept
LEMMA OfferStep == CreditsTypeOK /\ OfferKept /\ [CreditsNext]_creditVars => OfferKept'
<1> SUFFICES ASSUME CreditsTypeOK, OfferKept, [CreditsNext]_creditVars PROVE OfferKept'
  OBVIOUS
<1>1. ASSUME NEW q \in Recharges, NEW u \in Users, NEW v \in Values, CreateRechargeOrder(q, u, v)
      PROVE  OfferKept'
  <2>1. q \notin offered /\ q \notin creating
    BY <1>1 DEF CreateRechargeOrder, OfferKept
  <2> QED
    BY <1>1, <2>1 DEF CreateRechargeOrder, OfferKept, CreditsTypeOK
<1>2. ASSUME NEW q \in Recharges, CreateGatewayPayment(q) PROVE OfferKept'
  BY <1>2 DEF CreateGatewayPayment, OfferKept
<1>3. ASSUME NEW q \in Recharges, CancelRecharge(q) PROVE OfferKept'
  <2>1. q \notin offered
    BY <1>3 DEF CancelRecharge, OfferKept
  <2> QED
    BY <1>3, <2>1 DEF CancelRecharge, OfferKept, CreditsTypeOK
<1>4. ASSUME NEW q \in Recharges, GatewayCharge(q) PROVE OfferKept'
  BY <1>4 DEF GatewayCharge, OfferKept
<1>5. ASSUME NEW q \in Recharges, MarkPaidAndCredit(q) PROVE OfferKept'
  <2>1. q \notin creating
    BY <1>5 DEF MarkPaidAndCredit, OfferKept
  <2> QED
    BY <1>5, <2>1 DEF MarkPaidAndCredit, OfferKept, CreditsTypeOK, RechargeOrder
<1>6. CASE Restart
  BY <1>6 DEF Restart, OfferKept
<1>7. ASSUME NEW batch \in SUBSET Cards, NEW v \in Values, NEW t \in Expiries \cup {Never},
             CreateBatch(batch, v, t)
      PROVE  OfferKept'
  BY <1>7, OfferUntouched DEF CreateBatch
<1>8. ASSUME NEW r \in Requests
      PROVE  /\ CheckExpiry(r) => OfferKept'
             /\ MarkExpired(r) => OfferKept'
             /\ RedeemAndCredit(r) => OfferKept'
             /\ RedeemRefused(r) => OfferKept'
  BY OfferUntouched DEF CheckExpiry, MarkExpired, RedeemAndCredit, RedeemRefused
<1>9. ASSUME NEW r \in Requests, NEW c \in Cards, NEW u \in Users, ReadCard(r, c, u)
      PROVE  OfferKept'
  BY <1>9, OfferUntouched DEF ReadCard
<1>10. ASSUME NEW c \in Cards, NEW s \in AdminStatuses, AdminSetStatus(c, s) PROVE OfferKept'
  BY <1>10, OfferUntouched DEF AdminSetStatus
<1>11. ASSUME NEW c \in Cards PROVE /\ DeleteReads(c) => OfferKept'
                                    /\ DeleteRow(c) => OfferKept'
  BY OfferUntouched DEF DeleteReads, DeleteRow
<1>12. CASE Tick \/ UNCHANGED creditVars
  BY <1>12, OfferUntouched DEF Tick, creditVars
<1> QED
  BY <1>1, <1>2, <1>3, <1>4, <1>5, <1>6, <1>7, <1>8, <1>9, <1>10, <1>11, <1>12 DEF CreditsNext

(***************************************************************************)
(* No charge is stranded: the recharge of a customer who has paid is never  *)
(* cancelled, so that a callback, however late or repeated, finds it        *)
(* pending or already paid.                                                 *)
(***************************************************************************)
THEOREM NoChargeStranded == CreditsSpec => []ChargeCreditable
<1>1. CreditsInit => OfferKept
  BY DEF CreditsInit, OfferKept
<1>2. OfferKept => ChargeCreditable
  BY DEF OfferKept, ChargeCreditable
<1> QED
  BY <1>1, <1>2, OfferStep, CreditsTypeCorrect, PTL DEF CreditsSpec

-----------------------------------------------------------------------------
\* A card that does not exist belongs to nobody, one with an owner was credited,
\* and an owner is forgotten only where a card was reissued
CardOwned ==
    /\ \A c \in Cards : /\ cards[c].status = "absent" => cards[c].redeemedBy = Nobody
                        /\ cards[c].redeemedBy # Nobody => credits[c] > 0
    /\ \A u \in Users : overwritten[u] > 0 => \E c \in Cards : reissued[c] > 0

\* The two sums that explain a user's balance
CardsWorth(u) == SumFunctionOnSet([c \in Cards |-> cards[c].value], RedeemedCards(u))
RechargesWorth(u) == SumFunctionOnSet([q \in Recharges |-> recharges[q].amount], PaidRecharges(u))

\* The sums are numbers
LEMMA WorthType ==
    ASSUME IsFiniteSet(Cards), IsFiniteSet(Recharges), CreditsTypeOK, NEW u \in Users
    PROVE  /\ IsFiniteSet(RedeemedCards(u)) /\ IsFiniteSet(PaidRecharges(u))
           /\ CardsWorth(u) \in Nat /\ RechargesWorth(u) \in Nat
<1>1. IsFiniteSet(RedeemedCards(u)) /\ IsFiniteSet(PaidRecharges(u))
  BY FS_Subset DEF RedeemedCards, PaidRecharges
<1>2. /\ \A c \in RedeemedCards(u) : [d \in Cards |-> cards[d].value][c] \in Nat
      /\ \A q \in PaidRecharges(u) : [p \in Recharges |-> recharges[p].amount][q] \in Nat
  BY DEF RedeemedCards, PaidRecharges, CreditsTypeOK, GiftCard, RechargeOrder
<1> QED
  BY <1>1, <1>2, SumNat DEF CardsWorth, RechargesWorth

\* Where no redeemed card changes its owner or its value, the cards are worth the same
LEMMA CardsWorthSame ==
    ASSUME IsFiniteSet(Cards), NEW u \in Users, RedeemedCards(u)' = RedeemedCards(u),
           \A c \in RedeemedCards(u) : cards'[c].value = cards[c].value
    PROVE  CardsWorth(u)' = CardsWorth(u)
<1> DEFINE g == [c \in Cards |-> cards[c].value]
           h == [c \in Cards |-> cards'[c].value]
<1>1. IsFiniteSet(RedeemedCards(u)) /\ \A c \in RedeemedCards(u) : h[c] = g[c]
  BY FS_Subset DEF RedeemedCards
<1> HIDE DEF g, h
<1>2. SumFunctionOnSet(h, RedeemedCards(u)) = SumFunctionOnSet(g, RedeemedCards(u))
  BY <1>1, SumSame
<1> QED
  BY <1>2 DEF g, h, CardsWorth

\* A card that changes hands moves its value from one sum to another
LEMMA CardsWorthNext ==
    ASSUME IsFiniteSet(Cards), CreditsTypeOK, CreditsTypeOK', NEW d \in Cards,
           \A c \in Cards \ {d} : cards'[c] = cards[c], NEW u \in Users
    PROVE  CardsWorth(u)' = CardsWorth(u)
                - (IF cards[d].redeemedBy = u THEN cards[d].value ELSE 0)
                + (IF cards'[d].redeemedBy = u THEN cards'[d].value ELSE 0)
<1> DEFINE g == [c \in Cards |-> cards[c].value]
           h == [c \in Cards |-> cards'[c].value]
           S == RedeemedCards(u)
           T == RedeemedCards(u)'
<1>1. IsFiniteSet(S) /\ S \ {d} = T \ {d}
  BY FS_Subset DEF RedeemedCards
<1>2. /\ \A c \in S \cup T : g[c] \in Int
      /\ \A c \in S \cup T : h[c] \in Int
      /\ \A c \in S \ {d} : g[c] = h[c]
  BY DEF RedeemedCards, CreditsTypeOK, GiftCard
<1>3. /\ d \in S <=> cards[d].redeemedBy = u
      /\ d \in T <=> cards'[d].redeemedBy = u
      /\ g[d] = cards[d].value /\ h[d] = cards'[d].value
  BY DEF RedeemedCards
<1>4. CardsWorth(u) = SumFunctionOnSet(g, S) /\ CardsWorth(u)' = SumFunctionOnSet(h, T)
  BY DEF CardsWorth
<1> HIDE DEF g, h, S, T
<1>5. SumFunctionOnSet(h, T) = SumFunctionOnSet(g, S) - Share(d, g, S) + Share(d, h, T)
  <2>1. OneApart(S, g, T, h, d)
    BY <1>1, <1>2 DEF OneApart
  <2> QED
    BY <2>1, SumNext
<1> QED
  BY <1>3, <1>4, <1>5 DEF Share

LEMMA RechargesWorthSame ==
    ASSUME UNCHANGED recharges, NEW u \in Users
    PROVE  RechargesWorth(u)' = RechargesWorth(u)
  BY DEF RechargesWorth, PaidRecharges

\* A change of one recharge changes the sum by that recharge
LEMMA RechargesWorthNext ==
    ASSUME IsFiniteSet(Recharges), CreditsTypeOK, CreditsTypeOK', NEW d \in Recharges,
           \A q \in Recharges \ {d} : recharges'[q] = recharges[q], NEW u \in Users
    PROVE  RechargesWorth(u)' = RechargesWorth(u)
                - (IF d \in PaidRecharges(u) THEN recharges[d].amount ELSE 0)
                + (IF d \in PaidRecharges(u)' THEN recharges'[d].amount ELSE 0)
<1> DEFINE g == [q \in Recharges |-> recharges[q].amount]
           h == [q \in Recharges |-> recharges'[q].amount]
           S == PaidRecharges(u)
           T == PaidRecharges(u)'
<1>1. IsFiniteSet(S) /\ S \ {d} = T \ {d}
  BY FS_Subset DEF PaidRecharges
<1>2. /\ \A q \in S \cup T : g[q] \in Int
      /\ \A q \in S \cup T : h[q] \in Int
      /\ \A q \in S \ {d} : g[q] = h[q]
  BY DEF PaidRecharges, CreditsTypeOK, RechargeOrder
<1>3. g[d] = recharges[d].amount /\ h[d] = recharges'[d].amount
  OBVIOUS
<1>4. RechargesWorth(u) = SumFunctionOnSet(g, S) /\ RechargesWorth(u)' = SumFunctionOnSet(h, T)
  BY DEF RechargesWorth
<1> HIDE DEF g, h, S, T
<1>5. SumFunctionOnSet(h, T) = SumFunctionOnSet(g, S) - Share(d, g, S) + Share(d, h, T)
  <2>1. OneApart(S, g, T, h, d)
    BY <1>1, <1>2 DEF OneApart
  <2> QED
    BY <2>1, SumNext
<1> QED
  BY <1>3, <1>4, <1>5 DEF S, T, Share

\* The balance, its audit rows and the two sums move together
Explained(u) ==
    balance[u] = audited[u] /\ balance[u] = CardsWorth(u) + RechargesWorth(u) + overwritten[u]

LEMMA ExplainedMeans ==
    /\ BalanceFromCredits => \A u \in Users : Explained(u)
    /\ CardOwned' /\ (\A u \in Users : Explained(u)') => BalanceFromCredits'
    /\ CardOwned /\ (\A u \in Users : Explained(u)) => BalanceFromCredits
  BY DEF BalanceFromCredits, Explained, CardsWorth, RechargesWorth, CardOwned

\* Where neither table nor wallet changes, the balance stays explained
LEMMA ExplainedUntouched ==
    ASSUME CardOwned, BalanceFromCredits, UNCHANGED <<walletVars, cards, historyVars, recharges>>
    PROVE  CardOwned' /\ BalanceFromCredits'
  BY DEF CardOwned, BalanceFromCredits, RedeemedCards, PaidRecharges, walletVars, historyVars

\* A status set by id moves no money
LEMMA SetStatusExplained ==
    ASSUME IsFiniteSet(Cards), CreditsTypeOK, CardOwned, BalanceFromCredits, NEW c \in Cards,
           NEW s \in CardStatuses \ {"absent"}, SetStatus(c, s),
           UNCHANGED <<walletVars, recharges, credits, overwritten>>,
           \A d \in Cards : reissued[d] > 0 => reissued'[d] > 0
    PROVE  CardOwned' /\ BalanceFromCredits'
<1>1. \A d \in Cards : cards'[d].value = cards[d].value /\ cards'[d].redeemedBy = cards[d].redeemedBy
  BY DEF SetStatus, CreditsTypeOK, GiftCard
<1>2. CardOwned'
  BY <1>1 DEF SetStatus, CreditsTypeOK, GiftCard, CardOwned, HasRow
<1>3. \A u \in Users : RedeemedCards(u)' = RedeemedCards(u)
  BY <1>1 DEF RedeemedCards
<1>4. ASSUME NEW u \in Users PROVE CardsWorth(u)' = CardsWorth(u)
  <2>1. \A d \in RedeemedCards(u) : cards'[d].value = cards[d].value
    BY <1>1 DEF RedeemedCards
  <2> QED
    BY <1>3, <2>1, CardsWorthSame
<1>5. \A u \in Users : Explained(u)'
  BY <1>4, RechargesWorthSame, ExplainedMeans DEF Explained, walletVars
<1> QED
  BY <1>2, <1>5, ExplainedMeans

\* Every step keeps the balance explained
LEMMA ExplainedStep ==
    ASSUME IsFiniteSet(Cards), IsFiniteSet(Recharges),
           CreditsTypeOK, CreditsTypeOK', RechargeOwned, CardUnspent, CardOwned, BalanceFromCredits,
           [CreditsNext]_creditVars
    PROVE  CardOwned' /\ BalanceFromCredits'
<1> USE DEF cardVars, historyVars, rechargeVars
<1> DEFINE Kept == CardOwned' /\ BalanceFromCredits'
<1>1. ASSUME NEW batch \in SUBSET Cards, NEW v \in Values, NEW t \in Expiries \cup {Never},
             CreateBatch(batch, v, t)
      PROVE  Kept
  <2>1. \A c \in Cards : cards'[c].redeemedBy = cards[c].redeemedBy
    BY <1>1 DEF CreateBatch, CardOwned
  <2>2. \A c \in Cards : cards[c].redeemedBy \in Users => cards'[c] = cards[c]
    BY <1>1, CreditsAssumption DEF CreateBatch, CardOwned
  <2>3. CardOwned'
    BY <1>1, <2>1 DEF CreateBatch, CardOwned
  <2>4. ASSUME NEW u \in Users PROVE CardsWorth(u)' = CardsWorth(u)
    <3>1. RedeemedCards(u)' = RedeemedCards(u)
      BY <2>1 DEF RedeemedCards
    <3>2. \A c \in RedeemedCards(u) : cards'[c].value = cards[c].value
      BY <2>2 DEF RedeemedCards
    <3> QED
      BY <3>1, <3>2, CardsWorthSame
  <2>5. \A u \in Users : Explained(u)'
    BY <1>1, <2>4, RechargesWorthSame, ExplainedMeans DEF Explained, CreateBatch, walletVars
  <2> QED
    BY <2>3, <2>5, ExplainedMeans
<1>2. ASSUME NEW r \in Requests, MarkExpired(r) PROVE Kept
  <2>1. redeeming[r].card \in Cards
    BY <1>2, RedemptionKnown DEF MarkExpired
  <2> QED
    BY <1>2, <2>1, SetStatusExplained DEF MarkExpired, CardStatuses
<1>3. ASSUME NEW r \in Requests, RedeemAndCredit(r) PROVE Kept
  <2> DEFINE c == redeeming[r].card
             u == redeeming[r].user
  <2>1. c \in Cards /\ u \in Users
    BY <1>3, RedemptionKnown DEF RedeemAndCredit
  <2>2. /\ cards[c].value \in Nat /\ cards[c].redeemedBy \in Users \cup {Nobody}
        /\ cards[c].status = "active"
    BY <1>3, <2>1 DEF RedeemAndCredit, Redeemable, CreditsTypeOK, GiftCard
  <2>3. cards' = [cards EXCEPT ![c] = [@ EXCEPT !.status = "redeemed", !.redeemedBy = u]]
    BY <1>3 DEF RedeemAndCredit
  <2>4. CreditAtomic(u, cards[c].value) /\ UNCHANGED <<recharges, reissued>>
    BY <1>3 DEF RedeemAndCredit
  <2>9. /\ credits' = [credits EXCEPT ![c] = @ + 1]
        /\ overwritten' = [x \in Users |->
              overwritten[x] + IF x = cards[c].redeemedBy THEN cards[c].value ELSE 0]
    BY <1>3 DEF RedeemAndCredit
  <2> HIDE DEF c, u
  <2>5. /\ cards'[c].redeemedBy = u /\ cards'[c].value = cards[c].value
        /\ cards'[c].status = "redeemed"
        /\ \A d \in Cards \ {c} : cards'[d] = cards[d]
    BY <2>1, <2>3 DEF CreditsTypeOK, GiftCard
  <2>6. CardOwned'
    <3>1. credits'[c] > 0 /\ \A d \in Cards \ {c} : credits'[d] = credits[d]
      BY <2>1, <2>9 DEF CreditsTypeOK
    <3>2. ASSUME NEW x \in Users, overwritten'[x] > 0 PROVE \E d \in Cards : reissued'[d] > 0
      <4>1. CASE x = cards[c].redeemedBy
        <5>1. credits[c] > 0 /\ credits[c] <= reissued[c] /\ credits[c] \in Nat /\ reissued[c] \in Nat
          BY <2>1, <2>2, <4>1, CreditsAssumption DEF CardOwned, CardUnspent, CreditsTypeOK
        <5> QED
          BY <2>1, <2>4, <5>1
      <4>2. CASE x # cards[c].redeemedBy
        <5>1. overwritten'[x] = overwritten[x]
          BY <2>9, <4>2 DEF CreditsTypeOK
        <5> QED
          BY <2>4, <3>2, <5>1 DEF CardOwned
      <4> QED
        BY <4>1, <4>2
    <3> QED
      BY <2>1, <2>5, <3>1, <3>2 DEF CardOwned
  <2>7. ASSUME NEW w \in Users PROVE Explained(w)'
    <3> DEFINE gain == IF u = w THEN cards[c].value ELSE 0
               loss == IF cards[c].redeemedBy = w THEN cards[c].value ELSE 0
    <3>1. CardsWorth(w)' = CardsWorth(w) - loss + gain
      BY <2>1, <2>2, <2>5, CardsWorthNext, CreditsAssumption
    <3>2. CardsWorth(w) \in Nat /\ RechargesWorth(w) \in Nat /\ RechargesWorth(w)' = RechargesWorth(w)
      BY <2>4, WorthType, RechargesWorthSame
    <3>3. /\ balance[w] = audited[w]
          /\ balance[w] = CardsWorth(w) + RechargesWorth(w) + overwritten[w]
          /\ balance[w] \in Int /\ audited[w] \in Int /\ overwritten[w] \in Nat
      BY ExplainedMeans DEF Explained, CreditsTypeOK, WalletTypeOK
    <3>4. balance'[w] = balance[w] + gain /\ audited'[w] = audited[w] + gain
      BY <2>1, <2>2, <2>4 DEF CreditAtomic, CreditsTypeOK, WalletTypeOK
    <3>5. overwritten'[w] = overwritten[w] + loss
      BY <2>9
    <3>6. gain \in Nat /\ loss \in Nat
      BY <2>2
    <3> HIDE DEF gain, loss
    <3>7. balance'[w] = audited'[w]
      BY <3>3, <3>4
    <3>8. balance'[w] = CardsWorth(w)' + RechargesWorth(w)' + overwritten'[w]
      BY <3>1, <3>2, <3>3, <3>4, <3>5, <3>6
    <3> QED
      BY <3>7, <3>8 DEF Explained
  <2> QED
    BY <2>6, <2>7, ExplainedMeans
<1>4. ASSUME NEW c \in Cards, NEW s \in AdminStatuses, AdminSetStatus(c, s) PROVE Kept
  <2>1. s \in CardStatuses \ {"absent"}
    BY DEF AdminStatuses, CardStatuses
  <2>2. \A d \in Cards : reissued[d] > 0 => reissued'[d] > 0
    BY <1>4 DEF AdminSetStatus, CreditsTypeOK
  <2> QED
    BY <1>4, <2>1, <2>2, SetStatusExplained DEF AdminSetStatus
<1>5. ASSUME NEW c \in Cards, DeleteRow(c) PROVE Kept
  BY <1>5, SetStatusExplained DEF DeleteRow, CardStatuses
<1>6. ASSUME NEW q \in Recharges, UNCHANGED <<walletVars, cards, historyVars>>,
             \A p \in Recharges \ {q} : recharges'[p] = recharges[p],
             recharges[q].status # "paid", recharges'[q].status # "paid"
      PROVE  Kept
  <2>1. ASSUME NEW u \in Users PROVE RechargesWorth(u)' = RechargesWorth(u)
    <3>1. q \notin PaidRecharges(u) /\ q \notin PaidRecharges(u)'
      BY <1>6 DEF PaidRecharges
    <3>2. RechargesWorth(u)' = RechargesWorth(u) - 0 + 0
      BY <1>6, <3>1, RechargesWorthNext
    <3>3. RechargesWorth(u) \in Nat
      BY WorthType
    <3> QED
      BY <3>2, <3>3
  <2>2. \A u \in Users : CardsWorth(u)' = CardsWorth(u)
    BY <1>6 DEF CardsWorth, RedeemedCards
  <2>3. \A u \in Users : Explained(u)'
    BY <1>6, <2>1, <2>2, ExplainedMeans DEF Explained, walletVars
  <2>4. CardOwned'
    BY <1>6 DEF CardOwned
  <2> QED
    BY <2>3, <2>4, ExplainedMeans
<1>7. ASSUME NEW q \in Recharges, NEW u \in Users, NEW v \in Values, CreateRechargeOrder(q, u, v)
      PROVE  Kept
  <2>1. /\ \A p \in Recharges \ {q} : recharges'[p] = recharges[p]
        /\ recharges[q].status # "paid" /\ recharges'[q].status # "paid"
    BY <1>7 DEF CreateRechargeOrder, CreditsTypeOK
  <2> QED
    BY <1>6, <1>7, <2>1 DEF CreateRechargeOrder
<1>8. ASSUME NEW q \in Recharges, CancelRecharge(q) PROVE Kept
  <2>1. /\ \A p \in Recharges \ {q} : recharges'[p] = recharges[p]
        /\ recharges[q].status # "paid" /\ recharges'[q].status # "paid"
    BY <1>8 DEF CancelRecharge, CreditsTypeOK, RechargeOrder
  <2> QED
    BY <1>6, <1>8, <2>1 DEF CancelRecharge
<1>9. ASSUME NEW q \in Recharges, MarkPaidAndCredit(q) PROVE Kept
  <2> DEFINE u == recharges[q].user
             v == recharges[q].amount
  <2>1. u \in Users /\ v \in Nat /\ recharges[q].status = "pending"
    BY <1>9 DEF MarkPaidAndCredit, AwaitsPayment, RechargeOwned, CreditsTypeOK, RechargeOrder
  <2>2. /\ recharges'[q].status = "paid" /\ recharges'[q].user = u /\ recharges'[q].amount = v
        /\ \A p \in Recharges \ {q} : recharges'[p] = recharges[p]
    BY <1>9 DEF MarkPaidAndCredit, CreditsTypeOK, RechargeOrder
  <2>3. /\ balance' = [balance EXCEPT ![u] = @ + v] /\ audited' = [audited EXCEPT ![u] = @ + v]
        /\ UNCHANGED <<cards, historyVars>>
    BY <1>9 DEF MarkPaidAndCredit
  <2>4. ASSUME NEW w \in Users PROVE Explained(w)'
    <3>1. q \notin PaidRecharges(w) /\ (q \in PaidRecharges(w)' <=> u = w)
      BY <2>1, <2>2 DEF PaidRecharges
    <3>2. RechargesWorth(w)' = RechargesWorth(w) - 0 + (IF u = w THEN v ELSE 0)
      BY <2>2, <3>1, RechargesWorthNext
    <3>3. CardsWorth(w) \in Nat /\ RechargesWorth(w) \in Nat /\ CardsWorth(w)' = CardsWorth(w)
      BY <2>3, WorthType DEF CardsWorth, RedeemedCards
    <3>4. /\ balance[w] = audited[w]
          /\ balance[w] = CardsWorth(w) + RechargesWorth(w) + overwritten[w]
          /\ balance[w] \in Int /\ audited[w] \in Int /\ overwritten[w] \in Nat
      BY ExplainedMeans DEF Explained, CreditsTypeOK, WalletTypeOK
    <3>5. /\ balance'[w] = balance[w] + (IF u = w THEN v ELSE 0)
          /\ audited'[w] = audited[w] + (IF u = w THEN v ELSE 0)
      BY <2>1, <2>3 DEF CreditsTypeOK, WalletTypeOK
    <3> HIDE DEF u, v
    <3>6. balance'[w] = audited'[w]
      BY <3>4, <3>5
    <3>7. RechargesWorth(w)' = RechargesWorth(w) + (IF u = w THEN v ELSE 0)
      BY <3>2, <3>3
    <3>8. balance'[w] = (CardsWorth(w) + RechargesWorth(w) + overwritten[w]) + (IF u = w THEN v ELSE 0)
      BY <3>4, <3>5
    <3>9. balance'[w] = CardsWorth(w)' + RechargesWorth(w)' + overwritten'[w]
      BY <2>1, <2>3, <3>3, <3>4, <3>7, <3>8
    <3> QED
      BY <3>6, <3>9 DEF Explained
  <2>5. CardOwned'
    BY <2>3 DEF CardOwned
  <2> QED
    BY <2>4, <2>5, ExplainedMeans
<1>10. ASSUME NEW r \in Requests PROVE /\ CheckExpiry(r) => Kept
                                       /\ RedeemRefused(r) => Kept
  BY ExplainedUntouched DEF CheckExpiry, RedeemRefused
<1>11. ASSUME NEW r \in Requests, NEW c \in Cards, NEW u \in Users, ReadCard(r, c, u) PROVE Kept
  BY <1>11, ExplainedUntouched DEF ReadCard
<1>12. ASSUME NEW c \in Cards, DeleteReads(c) PROVE Kept
  BY <1>12, ExplainedUntouched DEF DeleteReads
<1>13. ASSUME NEW q \in Recharges PROVE /\ CreateGatewayPayment(q) => Kept
                                        /\ GatewayCharge(q) => Kept
  BY ExplainedUntouched DEF CreateGatewayPayment, GatewayCharge
<1>14. CASE Tick \/ Restart \/ UNCHANGED creditVars
  BY <1>14, ExplainedUntouched DEF Tick, Restart, creditVars
<1> QED
  BY <1>1, <1>2, <1>3, <1>4, <1>5, <1>7, <1>8, <1>9, <1>10, <1>11, <1>12, <1>13, <1>14 DEF CreditsNext

(***************************************************************************)
(* The wallet agrees with the tables it was filled from: RedeemAndCredit    *)
(* and MarkPaidAndCredit move the balance, the audit rows and the status of *)
(* the card or the recharge together, so that a user's balance is always    *)
(* the value of his redeemed cards and paid recharges, and of the reissued  *)
(* cards that others redeemed after him.  The tables are finite.            *)
(***************************************************************************)
THEOREM BalanceExplainedByCredits ==
    ASSUME IsFiniteSet(Cards), IsFiniteSet(Recharges)
    PROVE  CreditsSpec => []BalanceFromCredits
<1> DEFINE Inv == CreditsTypeOK /\ RechargeOwned /\ CardUnspent /\ CardOwned /\ BalanceFromCredits
<1>1. CreditsInit => CardOwned /\ BalanceFromCredits
  <2> SUFFICES ASSUME CreditsInit PROVE CardOwned /\ BalanceFromCredits
    OBVIOUS
  <2>1. ASSUME NEW u \in Users PROVE RedeemedCards(u) = {} /\ PaidRecharges(u) = {}
    BY CreditsAssumption DEF CreditsInit, NoCard, NoRecharge, RedeemedCards, PaidRecharges
  <2>2. \A u \in Users : CardsWorth(u) = 0 /\ RechargesWorth(u) = 0
    BY <2>1, SumEmpty DEF CardsWorth, RechargesWorth
  <2>3. \A u \in Users : Explained(u)
    <3> SUFFICES ASSUME NEW u \in Users PROVE Explained(u)
      OBVIOUS
    <3>1. balance[u] = 0 /\ audited[u] = 0 /\ overwritten[u] = 0
      BY DEF CreditsInit, WalletInit
    <3>2. CardsWorth(u) = 0 /\ RechargesWorth(u) = 0
      BY <2>2
    <3>3. balance[u] = CardsWorth(u) + RechargesWorth(u) + overwritten[u]
      BY <3>1, <3>2
    <3> QED
      BY <3>1, <3>3 DEF Explained
  <2> QED
    BY <2>3, ExplainedMeans DEF CardOwned, CreditsInit, NoCard
<1>2. CreditsInit => Inv
  BY <1>1, TypeInit DEF CreditsInit, CardUnspent
<1>3. Inv /\ [CreditsNext]_creditVars => Inv'
  BY TypeStep, UnspentStep, ExplainedStep
<1> QED
  BY <1>2, <1>3, PTL DEF CreditsSpec
=============================================================================
