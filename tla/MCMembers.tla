----------------------------- MODULE MCMembers -----------------------------
(***************************************************************************)
(* Instances of Members for TLC.                                           *)
(***************************************************************************)
EXTENDS Members, TLC

CONSTANTS owner, bob

\* The owner with a member; with somebody who was invited and has no account
\* yet; with somebody who was invited and has one.
WithMember  == [users |-> {owner, bob}, invited |-> <<>>,
                role |-> (owner :> "OWNER" @@ bob :> "MEMBER")]
WithAddress == [users |-> {owner}, invited |-> bob :> owner, role |-> (owner :> "OWNER")]
WithInvited == [users |-> {owner, bob}, invited |-> bob :> owner, role |-> (owner :> "OWNER")]

MemberOrInvited == {WithMember, WithAddress}
OnlyInvited     == {WithInvited}

Interchangeable == Permutations(Requests)
=============================================================================
