---------------------------- MODULE OrderPromise ----------------------------
(***************************************************************************)
(* What the shop promises about one order, with none of the machinery that  *)
(* keeps the promise: an open order is settled or closed, once.  Settling   *)
(* it grants the plan exactly once and takes its price from the wallet or   *)
(* nothing (when the money came from outside).  A settled order may be      *)
(* returned, once, for a positive amount up to its price.                   *)
(***************************************************************************)
EXTENDS Naturals

CONSTANT Orders

VARIABLES
    phase,     \* "none", "open", "settled", "closed" or "returned"
    price,     \* what the order costs
    granted,   \* how many times its plan was granted
    taken,     \* what it took from the wallet
    returned   \* what it gave back to the wallet

vars == <<phase, price, granted, taken, returned>>

Init ==
    /\ phase = [o \in Orders |-> "none"]
    /\ price = [o \in Orders |-> 0]
    /\ granted = [o \in Orders |-> 0]
    /\ taken = [o \in Orders |-> 0]
    /\ returned = [o \in Orders |-> 0]

Open(o) ==
    /\ phase[o] = "none"
    /\ phase' = [phase EXCEPT ![o] = "open"]
    /\ price'[o] \in Nat
    /\ price' = [price EXCEPT ![o] = price'[o]]
    /\ UNCHANGED <<granted, taken, returned>>

Settle(o) ==
    /\ phase[o] = "open"
    /\ phase' = [phase EXCEPT ![o] = "settled"]
    /\ granted' = [granted EXCEPT ![o] = 1]
    /\ taken' \in {taken, [taken EXCEPT ![o] = price[o]]}
    /\ UNCHANGED <<price, returned>>

Close(o) ==
    /\ phase[o] = "open"
    /\ phase' = [phase EXCEPT ![o] = "closed"]
    /\ UNCHANGED <<price, granted, taken, returned>>

Return(o) ==
    /\ phase[o] = "settled"
    /\ phase' = [phase EXCEPT ![o] = "returned"]
    /\ \E amount \in 1..price[o] : returned' = [returned EXCEPT ![o] = amount]
    /\ UNCHANGED <<price, granted, taken>>

Next == \E o \in Orders : Open(o) \/ Settle(o) \/ Close(o) \/ Return(o)

Spec == Init /\ [][Next]_vars
=============================================================================
