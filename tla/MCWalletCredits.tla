--------------------------- MODULE MCWalletCredits ---------------------------
(* WalletCredits for TLC.  Users, recharges and requests are interchangeable. *)
EXTENDS WalletCredits, TLC

Interchangeable == Permutations(Users) \cup Permutations(Recharges) \cup Permutations(Requests)
=============================================================================
