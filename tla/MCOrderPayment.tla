--------------------------- MODULE MCOrderPayment ---------------------------
(***************************************************************************)
(* OrderPayment for TLC.  The plan "pro" lasts longer and is dearer than    *)
(* "basic".                                                                 *)
(***************************************************************************)
EXTENDS OrderPayment

CONSTANTS basic, pro, NumOrders

MCOrders == 1..NumOrders
MCPrice == [p \in Plans |-> IF p = basic THEN 1 ELSE 2]
MCDuration == [p \in Plans |-> IF p = basic THEN 1 ELSE 2]

\* A top-up, and a correction by the administrator
NoAdjustment == {}
TopUp == {2}
TopUpAndCorrection == {2, -1}
=============================================================================
