------------------------------- MODULE MCAccess -------------------------------
\* Access on two accounts, with requests interchangeable.
EXTENDS Access, TLC

RequestSymmetry == Permutations(Requests)
=============================================================================
