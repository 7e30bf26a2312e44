----------------------------- MODULE MCNodeSync -----------------------------
(* One node's configuration sync; every constant is given in the .cfg *)
EXTENDS NodeSync
=============================================================================
