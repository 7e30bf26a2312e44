-------------------------- MODULE MCTrafficReport --------------------------
(***************************************************************************)
(* TrafficReport for TLC.  Requests are interchangeable.                    *)
(***************************************************************************)
EXTENDS TrafficReport, TLC

RequestSymmetry == Permutations(Requests)
=============================================================================
