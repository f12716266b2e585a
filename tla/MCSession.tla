----------------------------- MODULE MCSession -----------------------------
(***************************************************************************)
(* An instance of Session for TLC.  The model takes interchangeable        *)
(* tokens, families and handlers by CHOOSE, which replaces a symmetry set; *)
(* the liveness properties could not be checked with one.                  *)
(***************************************************************************)
EXTENDS Session
=============================================================================
