--------------------------- MODULE MCSubscription ---------------------------
(* The subscription, with two plans of one day at prices 1 and 5 *)
EXTENDS Subscription, TLC

CONSTANTS basic, pro

MCPlans == {basic, pro}
MCPrice == [p \in MCPlans |-> IF p = pro THEN 5 ELSE 1]
MCDuration == [p \in MCPlans |-> 1]
RequestSymmetry == Permutations(Requests)
=============================================================================
