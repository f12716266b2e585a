------------------------------ MODULE Seeding ------------------------------
(***************************************************************************)
(* The numbers of a project's issues when they come from three sides: the  *)
(* requests that create issues, the ticks of DemoActivityProcessor, which  *)
(* do the same without a transaction, and the seed script, which may run   *)
(* again at any time on a database that is in use, and may die anywhere.    *)
(*                                                                         *)
(* The pair (project, number) is unique.  A request holds the project's    *)
(* row from its increment to the end of its transaction; every statement   *)
(* of a tick or of the seed is committed at once.                          *)
(***************************************************************************)
EXTENDS Naturals, FiniteSets

CONSTANTS Creates,   \* requests that create an issue
          Ticks,     \* ticks that create an issue
          Seeds,     \* issues of the project in the seed script
          MaxRuns,   \* bound on runs of the seed script
          MaxNumber  \* bound on the counter

ASSUME SeedingAssumption ==
  /\ Seeds \in Nat \ {0} /\ MaxRuns \in Nat /\ MaxNumber \in Nat /\ Seeds <= MaxNumber
  /\ Creates \cap Ticks = {}

VARIABLES counter, \* Project.issueCounter
          card,    \* number -> who made the issue that has it, "none" without one
          draw,    \* a create or tick: where it is and the number it drew
          seed,    \* the seed script: "idle" or the number it comes to next
          runs,    \* runs that were begun
          clashed, \* history: creates and ticks that drew a number somebody had
          counted, \* history: some run of the script came to set the counter
          setBack, \* history: the script has set the counter below a number in use
          early    \* history: numbers drawn before any run had set the counter

seedingVars == <<counter, card, draw, seed, runs, clashed, counted, setBack, early>>

Numbers == 1 .. MaxNumber
Idle == 0  \* the script is not running

SeedingInit ==
  /\ counter = 0 /\ card = [n \in Numbers |-> "none"]
  /\ draw = [d \in Creates \cup Ticks |-> [at |-> "new", n |-> 0]]
  /\ seed = Idle /\ runs = 0 /\ clashed = {}
  /\ counted = FALSE /\ setBack = FALSE /\ early = {}

\* A request holds the project's row, and the key of the row it has inserted.
RowIsFree == \A r \in Creates : draw[r].at \notin {"drawn", "inserted"}
KeyIsFree(n) == \A r \in Creates : draw[r] # [at |-> "inserted", n |-> n]

GoOn(d, place) == draw' = [draw EXCEPT ![d].at = place]

\* The counter is incremented, once the script has made the project.
Increment(d) ==
  /\ runs > 0
  /\ draw[d].at = "new" /\ RowIsFree /\ counter < MaxNumber
  /\ draw' = [draw EXCEPT ![d] = [at |-> "drawn", n |-> counter + 1]]
  /\ early' = IF counted THEN early ELSE early \cup {counter + 1}
  /\ UNCHANGED <<card, seed, runs, clashed, counted, setBack>>

-----------------------------------------------------------------------------
(* IssuesService.create: the increment is undone when the insert fails. *)

CreateIncrement(r) == Increment(r) /\ UNCHANGED counter
CreateInsert(r) ==
  /\ draw[r].at = "drawn"
  /\ IF card[draw[r].n] = "none" THEN GoOn(r, "inserted") /\ UNCHANGED clashed
                                 ELSE GoOn(r, "failed") /\ clashed' = clashed \cup {r}
  /\ UNCHANGED <<counter, card, seed, runs, counted, setBack, early>>
CreateCommit(r) ==
  /\ draw[r].at = "inserted" /\ GoOn(r, "done")
  /\ counter' = draw[r].n /\ card' = [card EXCEPT ![draw[r].n] = "user"]
  /\ UNCHANGED <<seed, runs, clashed, counted, setBack, early>>
CreateRollback(r) ==
  /\ draw[r].at \in {"drawn", "inserted"} /\ GoOn(r, "failed")
  /\ UNCHANGED <<counter, card, seed, runs, clashed, counted, setBack, early>>

-----------------------------------------------------------------------------
(* DemoActivityProcessor.createIssue: the increment stays, whatever follows. *)

TickIncrement(t) == Increment(t) /\ counter' = counter + 1
TickInsert(t) ==
  /\ draw[t].at = "drawn" /\ KeyIsFree(draw[t].n)
  /\ IF card[draw[t].n] = "none"
       THEN GoOn(t, "done") /\ card' = [card EXCEPT ![draw[t].n] = "tick"] /\ UNCHANGED clashed
       ELSE GoOn(t, "failed") /\ clashed' = clashed \cup {t} /\ UNCHANGED card
  /\ UNCHANGED <<counter, seed, runs, counted, setBack, early>>
TickDies(t) ==
  /\ draw[t].at = "drawn" /\ GoOn(t, "failed")
  /\ UNCHANGED <<counter, card, seed, runs, clashed, counted, setBack, early>>

-----------------------------------------------------------------------------
(* seed.ts *)

SeedStart ==
  /\ seed = Idle /\ runs < MaxRuns
  /\ seed' = 1 /\ runs' = runs + 1
  /\ UNCHANGED <<counter, card, draw, clashed, counted, setBack, early>>

\* An upsert by number: an issue that has it is kept, whoever made it.
SeedUpsert ==
  /\ seed \in 1 .. Seeds /\ KeyIsFree(seed)
  /\ card' = IF card[seed] = "none" THEN [card EXCEPT ![seed] = "seed"] ELSE card
  /\ seed' = seed + 1
  /\ UNCHANGED <<counter, draw, runs, clashed, counted, setBack, early>>

\* The counter becomes the number of seeded issues, whatever it was.
OneTooFew == Seeds - 1  \* a mistake: the index of the last one
NewCounter == Seeds
InUse == {n \in Numbers : card[n] # "none"}
           \cup {draw[t].n : t \in {e \in Ticks : draw[e].at = "drawn"}}
SeedCounter ==
  /\ seed = Seeds + 1 /\ RowIsFree
  /\ counter' = NewCounter /\ seed' = Idle /\ counted' = TRUE
  /\ setBack' = (setBack \/ \E n \in InUse : n > Seeds)
  /\ UNCHANGED <<card, draw, runs, clashed, early>>

\* A run dies between two statements: what it has written stays.
SeedDies ==
  /\ seed # Idle /\ seed' = Idle
  /\ UNCHANGED <<counter, card, draw, runs, clashed, counted, setBack, early>>

\* An issue is deleted.
DeleteCard ==
  /\ \E n \in Numbers : card[n] # "none" /\ card' = [card EXCEPT ![n] = "none"]
  /\ UNCHANGED <<counter, draw, seed, runs, clashed, counted, setBack, early>>

SeedingNext ==
  \/ \E r \in Creates : \/ CreateIncrement(r) \/ CreateInsert(r)
                        \/ CreateCommit(r) \/ CreateRollback(r)
  \/ \E t \in Ticks : TickIncrement(t) \/ TickInsert(t) \/ TickDies(t)
  \/ SeedStart \/ SeedUpsert \/ SeedCounter \/ SeedDies \/ DeleteCard
SeedingSpec == SeedingInit /\ [][SeedingNext]_seedingVars

-----------------------------------------------------------------------------
(* Properties *)

SeedingTypeOK ==
  /\ counter \in 0 .. MaxNumber /\ card \in [Numbers -> {"none", "user", "tick", "seed"}]
  /\ draw \in [Creates \cup Ticks ->
                 [at : {"new", "drawn", "inserted", "done", "failed"}, n : {0} \cup Numbers]]
  /\ seed \in 0 .. Seeds + 1 /\ runs \in 0 .. MaxRuns
  /\ clashed \subseteq Creates \cup Ticks
  /\ counted \in BOOLEAN /\ setBack \in BOOLEAN /\ early \subseteq Numbers

\* A create or a tick draws a number that an issue has only after the seed
\* script has set the counter below one in use, or if numbers were drawn before
\* any run had set it, because the first run is still under way or died on its
\* way there (seed.ts:439-466): requests, ticks and rollbacks alone never clash.
ClashNeedsSeed == clashed # {} => setBack \/ early # {}

\* The numbers of the seeded issues are theirs: an issue that somebody else made
\* has one of them only if it was drawn before any run had set the counter.  So
\* once one has, no later run takes an issue drawn since for one of its own,
\* deletions, ticks, clashes and dead runs notwithstanding (seed.ts:439-460).
SeedNumbersAreSeeds ==
  \A n \in 1 .. Seeds : card[n] \in {"user", "tick"} => n \in early
=============================================================================
