------------------------------ MODULE MCIssues ------------------------------
(***************************************************************************)
(* Instances of Issues for TLC.                                            *)
(***************************************************************************)
EXTENDS Issues, TLC

CONSTANTS i1, i2, u1, u2, todo

\* The board at the start: one card, or two.
OneCard  == <<i1>>
TwoCards == <<i1, i2>>

AllOps == {"create", "update", "move", "remove"}

Interchangeable == Permutations(Requests)
=============================================================================
