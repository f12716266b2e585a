---------------------------- MODULE SessionLife ----------------------------
(***************************************************************************)
(* What the refresh-token store promises of a sign-in session, with the    *)
(* tokens, the handlers and the database statements left out.  A session   *)
(* is a token family: it begins once, for one user, and once it is over it *)
(* never comes back, whatever tokens are presented afterwards.  The module *)
(* Tokens implements it.                                                   *)
(***************************************************************************)
CONSTANTS Families,  \* family ids (familyId of a RefreshToken row)
          Users,     \* users that sign in
          None       \* the owner of a family nobody has begun

VARIABLES phase,     \* phase[f]: "unused", then "active", then "over"
          owner      \* owner[f]: the user the family was begun for

lifeVars == <<phase, owner>>

LifeInit ==
  /\ phase = [f \in Families |-> "unused"]
  /\ owner = [f \in Families |-> None]

Begin(f, u) ==
  /\ phase[f] = "unused"
  /\ phase' = [phase EXCEPT ![f] = "active"]
  /\ owner' = [owner EXCEPT ![f] = u]

Finish(f) ==
  /\ phase[f] = "active"
  /\ phase' = [phase EXCEPT ![f] = "over"]
  /\ UNCHANGED owner

LifeNext == \E f \in Families : Finish(f) \/ \E u \in Users : Begin(f, u)

LifeSpec == LifeInit /\ [][LifeNext]_lifeVars
=============================================================================
