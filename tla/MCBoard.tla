------------------------------ MODULE MCBoard ------------------------------
(***************************************************************************)
(* An instance of six parts that share no state: the board's cache, the    *)
(* ranks of a column, the files of an issue, the numbers of a project, the *)
(* subscription of an organization and the query cache behind the pages.   *)
(* A behaviour is one of one part; the others stay as they begin.          *)
(***************************************************************************)
EXTENDS BoardCache, RankColumn, Attachments, Seeding, Billing, Pages, TLC

CONSTANTS p1, x1  \* a place and a text

\* A price that is configured, and one that is not.
Configured == [p \in {"price_pro", "price_other"} |->
                 IF p = "price_pro" THEN "PRO" ELSE "FREE"]

\* A card is created in the first column, with or without a label.
Created == {r \in Row : r.place = p1 /\ r.text = x1}

\* Mutations of one browser are interchangeable.
Interchangeable == Permutations(Mutations)

VARIABLE part

Parts == {"cache", "column", "files", "numbers", "billing", "pages"}

PartsInit ==
  /\ part \in Parts
  /\ BoardInit /\ Init /\ FilesInit /\ SeedingInit /\ BillingInit /\ PagesInit
  /\ part # "pages" => query = "me"

InCache ==
  /\ part = "cache"
  /\ UNCHANGED <<part, column, filesVars, seedingVars, billingVars, pagesVars>>
InColumn ==
  /\ part = "column"
  /\ UNCHANGED <<part, boardVars, filesVars, seedingVars, billingVars, pagesVars>>
InFiles ==
  /\ part = "files"
  /\ UNCHANGED <<part, boardVars, column, seedingVars, billingVars, pagesVars>>
InNumbers ==
  /\ part = "numbers"
  /\ UNCHANGED <<part, boardVars, column, filesVars, billingVars, pagesVars>>
InBilling ==
  /\ part = "billing"
  /\ UNCHANGED <<part, boardVars, column, filesVars, seedingVars, pagesVars>>
InPages ==
  /\ part = "pages"
  /\ UNCHANGED <<part, boardVars, column, filesVars, seedingVars, billingVars>>

PartsNext ==
  \/ InCache /\ BoardNext
  \/ InColumn /\ Next
  \/ InFiles /\ FilesNext
  \/ InNumbers /\ SeedingNext
  \/ InBilling /\ BillingNext
  \/ InPages /\ PagesNext

PartsSpec ==
  /\ PartsInit
  /\ [][PartsNext]_<<part, boardVars, column, filesVars, seedingVars, billingVars, pagesVars>>

\* Each part keeps the shape its module gives it.
PartsTypeOK ==
  CASE part = "cache"   -> BoardTypeOK
    [] part = "column"  -> TypeOK
    [] part = "files"   -> FilesTypeOK
    [] part = "numbers" -> SeedingTypeOK
    [] part = "billing" -> BillingTypeOK
    [] part = "pages"   -> PagesTypeOK
=============================================================================
