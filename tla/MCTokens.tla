------------------------------ MODULE MCTokens ------------------------------
(***************************************************************************)
(* Instances of Tokens for TLC: handlers, tokens, families and users are   *)
(* interchangeable model values.                                           *)
(***************************************************************************)
EXTENDS Tokens, TLC

Interchangeable ==
  Permutations(Tokens) \cup Permutations(Families) \cup Permutations(Users)
    \cup Permutations(Requests)
=============================================================================
