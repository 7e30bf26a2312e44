------------------------------- MODULE Wallet -------------------------------
(***************************************************************************)
(* The user wallet: the column users.balance and the audit table           *)
(* balance_transactions.  Every mutation goes through CreditAtomic or       *)
(* DebitAtomic, one database transaction that moves the column and inserts  *)
(* the audit row.  The audit table is abstracted to what the properties     *)
(* tell apart: the sum of a user's rows.                                    *)
(***************************************************************************)
EXTENDS Integers

CONSTANTS
    Users,        \* accounts
    MaxBalance    \* math.MaxInt64, the largest value of the balance column

ASSUME WalletAssumption == MaxBalance \in Nat

VARIABLES
    balance,      \* users.balance
    audited       \* per user, SUM(amount) over balance_transactions

walletVars == <<balance, audited>>

WalletTypeOK ==
    /\ balance \in [Users -> 0..MaxBalance]
    /\ audited \in [Users -> Int]

WalletInit ==
    /\ balance = [u \in Users |-> 0]
    /\ audited = [u \in Users |-> 0]

\* A mutated form of CreditAtomic: no audit row is written
CreditUnaudited(u, amount) ==
    /\ amount > 0
    /\ balance[u] <= MaxBalance - amount
    /\ balance' = [balance EXCEPT ![u] = @ + amount]
    /\ audited' = audited

\* A mutated form of CreditAtomic: a sum beyond the column is not refused
CreditUnbounded(u, amount) ==
    /\ amount > 0
    /\ balance' = [balance EXCEPT ![u] = @ + amount]
    /\ audited' = [audited EXCEPT ![u] = @ + amount]

(***************************************************************************)
(* CreditAtomic: the amount is positive and the guarded UPDATE              *)
(* "balance <= MaxInt64 - amount" must match the row; otherwise the whole   *)
(* transaction rolls back, which is the action not being enabled.           *)
(***************************************************************************)
CreditAtomic(u, amount) ==
    /\ amount > 0
    /\ balance[u] <= MaxBalance - amount
    /\ balance' = [balance EXCEPT ![u] = @ + amount]
    /\ audited' = [audited EXCEPT ![u] = @ + amount]

\* A mutated form of DebitAtomic: an overdraft is not refused
DebitUnguarded(u, amount) ==
    /\ amount > 0
    /\ balance' = [balance EXCEPT ![u] = @ - amount]
    /\ audited' = [audited EXCEPT ![u] = @ - amount]

(***************************************************************************)
(* DebitAtomic: the guarded UPDATE "balance >= amount" refuses an           *)
(* overdraft, and then no audit row is written.                             *)
(***************************************************************************)
DebitAtomic(u, amount) ==
    /\ amount > 0
    /\ balance[u] >= amount
    /\ balance' = [balance EXCEPT ![u] = @ - amount]
    /\ audited' = [audited EXCEPT ![u] = @ - amount]

(***************************************************************************)
(* The administrator's Adjust: a credit for a positive amount, a guarded    *)
(* debit for a negative one.                                                *)
(***************************************************************************)
Adjust(u, amount) ==
    \/ amount > 0 /\ CreditAtomic(u, amount)
    \/ amount < 0 /\ DebitAtomic(u, -amount)
=============================================================================
