----------------------------- MODULE BoardCache -----------------------------
(***************************************************************************)
(* What one browser shows of a board: the query cache of useIssues, the    *)
(* optimistic mutations of hooks.ts, the modal that edits a card, and the  *)
(* events of the project's room.                                           *)
(*                                                                         *)
(* The server is the sequence of the changes it was asked for, in the order *)
(* of their events.  A handler emits before its transaction ends, so an    *)
(* event may be heard before a query sees the change, and it may be of one *)
(* that is rolled back.  Transactions end here in the order of their       *)
(* events; for those of one card Issues shows it, they wait for its row.   *)
(* A row is a place (where in the columns), a text (what the modal edits)  *)
(* and the labels of the card, which are in answers but in no event.       *)
(***************************************************************************)
EXTENDS Naturals, FiniteSets, Sequences, SequencesExt

CONSTANTS Cards,      \* issues of the project, present or to come
          Seeded,     \* those that are there at the start
          Places, Texts, Labels,
          Unlabelled, \* no labels
          NewRows,    \* rows that cards are created with
          Limit,      \* issues that a query answers at most
          Mutations,  \* what this browser's user does in a run
          MaxOthers,  \* bound on what everybody else does
          MaxFaults,  \* bound on lost answers, failed queries, missed events, roll-backs
          MaxTogether, \* bound on mutations, changes of others and faults in all
          Absent      \* no row, no list

Row == [place : Places, text : Texts, labels : Labels]
List == [Cards -> Row \cup {Absent}]

ASSUME BoardAssumption ==
  /\ Absent \notin Row \cup Cards \cup Mutations \cup List /\ Seeded \subseteq Cards
  /\ NewRows # {} /\ NewRows \subseteq Row /\ Unlabelled \in Labels /\ Limit \in Nat
  /\ MaxOthers \in Nat /\ MaxFaults \in Nat /\ MaxTogether \in Nat

VARIABLES log,        \* changes of the server, in the order of their events
          committed,  \* how many of them have ended: a query sees them, or they were void
          heard,      \* how many events have reached this browser, or were missed
          cache,      \* the list under issuesKey (Absent before it is loaded)
          fetch,      \* the query in flight: its state, and what it was answered
          seen,       \* the position of the answer that arrived last
          call,       \* a mutation: state in the browser, state on the server, input until that
                      \* has decided, snapshot until it ends, and whether the list was not
                      \* loaded when it began
          gap,        \* history: the cache may lack a change until the next good answer
          rolledBack, \* history: a snapshot was restored and no answer has arrived since
          failed,     \* history: the last query ended in an error
          others, faults

serverState == <<log, committed, others>>
history == <<gap, rolledBack, failed>>
boardVars == <<serverState, heard, cache, fetch, seen, call, history, faults>>

\* "labelled" is an update of the labels; "void" says whether the transaction
\* will be rolled back, and only its end (and the history) looks at it.
Change == [k : {"created", "updated", "labelled", "moved", "deleted"}, card : Cards,
           row : Row \cup {Absent}, by : Mutations \cup {Absent}, void : BOOLEAN]
NoFetch == [st |-> "none"]
Asked   == [st |-> "asked"]

-----------------------------------------------------------------------------
(* A list and the changes of it (use-board-realtime.ts) *)

\* An event carries issueSelect, which has no labels: a card that is new to the
\* list comes without, a card of the list keeps those it has.
Patch(l, e) ==
  CASE e.k = "created" /\ l[e.card] = Absent ->
         [l EXCEPT ![e.card] = [e.row EXCEPT !.labels = Unlabelled]]
    [] e.k \in {"updated", "labelled"} /\ l[e.card] # Absent ->
         [l EXCEPT ![e.card] = [e.row EXCEPT !.labels = l[e.card].labels]]
    [] e.k = "moved" /\ l[e.card] # Absent -> [l EXCEPT ![e.card].place = e.row.place]
    [] OTHER -> l
ApplyWithoutDelete(l, e) == Patch(l, e)  \* a mistake: nobody listens to issue:deleted
Apply(l, e) == IF e.k = "deleted" THEN [l EXCEPT ![e.card] = Absent] ELSE Patch(l, e)

\* Its event says more than the change came to, or less.
Misleads(e) ==
  e.void \/ e.k = "labelled" \/ (e.k = "created" /\ e.row.labels # Unlabelled)

\* The handlers patch an empty list if there is none.
Shown == IF cache = Absent THEN [c \in Cards |-> Absent] ELSE cache

\* The table after the first n changes: a card is what the last of them made it
\* that was not void.
Start == [c \in Cards |-> IF c \in Seeded THEN CHOOSE r \in NewRows : TRUE ELSE Absent]
Table(n) ==
  [c \in Cards |-> LET changes == {i \in 1 .. n : log[i].card = c /\ ~log[i].void} IN
                   IF changes = {} THEN Start[c] ELSE log[Max(changes)].row]
Latest == Table(Len(log))

Born == Seeded \cup {log[i].card : i \in DOMAIN log}

\* What a handler needs (the row is not held by a transaction that has not
\* ended), and the change it makes and announces.
Held(c) == \E i \in committed + 1 .. Len(log) : log[i].card = c
Allowed(op, c) == IF op = "create" THEN c \notin Born ELSE Latest[c] # Absent /\ ~Held(c)
KindOf == [create |-> "created", move |-> "moved", update |-> "updated",
           label |-> "labelled", delete |-> "deleted"]
RowOf(op, old, row) ==
  CASE op = "move"   -> [old EXCEPT !.place = row.place]
    [] op = "update" -> [old EXCEPT !.text = row.text]
    [] op = "label"  -> [old EXCEPT !.labels = row.labels]
    [] op = "create" -> row
    [] op = "delete" -> Absent
ChangeOf(op, c, row, m, void) ==
  [k |-> KindOf[op], card |-> c, row |-> RowOf(op, Latest[c], row), by |-> m,
   void |-> void]

-----------------------------------------------------------------------------
(* The query *)

\* Less has happened yet than a run follows.
Together == others + faults + Cardinality({m \in Mutations : call[m].ui # "idle"})
MoreToCome == Together < MaxTogether

\* invalidateQueries: a query in flight is given up for a new one, unless it is
\* the one that loads the list.
InvalidateUnlessFetching ==  \* a mistake: a query in flight is good enough
  fetch' = IF fetch = NoFetch THEN Asked ELSE fetch
Invalidate == fetch' = IF cache = Absent /\ fetch # NoFetch THEN fetch ELSE Asked

\* cancelQueries: its answer will be ignored.
Cancel == fetch' = NoFetch

BoardInit ==
  /\ log = <<>> /\ committed = 0 /\ heard = 0 /\ others = 0 /\ faults = 0
  /\ cache = Absent /\ fetch = Asked /\ seen = 0
  /\ call = [m \in Mutations |-> [ui |-> "idle"]]
  /\ gap = TRUE /\ rolledBack = FALSE /\ failed = FALSE

\* The issues of a table that are answered: as many as the query asks for.  Which
\* they are is a matter of places, in an order that is left out here.
FirstOf(t) ==
  LET present == {c \in Cards : t[c] # Absent} IN
    IF Cardinality(present) <= Limit THEN {t}
    ELSE {[c \in Cards |-> IF c \in first THEN t[c] ELSE Absent] :
            first \in {S \in SUBSET present : Cardinality(S) = Limit}}

\* The server reads the table for the query.
Read ==
  /\ fetch.st = "asked"
  /\ \E list \in FirstOf(Table(committed)) :
       fetch' = [st |-> "answered", at |-> committed, list |-> list]
  /\ UNCHANGED <<serverState, heard, cache, seen, call, history, faults>>

\* The answer replaces the list, whatever was patched into it meanwhile.
Arrive ==
  /\ fetch.st = "answered"
  /\ cache' = fetch.list /\ seen' = fetch.at /\ fetch' = NoFetch
  /\ gap' = (fetch.at < heard \/ fetch.list # Table(fetch.at)) /\ rolledBack' = FALSE /\ failed' = FALSE
  /\ UNCHANGED <<serverState, heard, call, faults>>

Fault == MoreToCome /\ faults < MaxFaults /\ faults' = faults + 1

\* The query fails, and so does its one retry.
FetchFails ==
  /\ Fault /\ fetch # NoFetch
  /\ Cancel /\ failed' = TRUE
  /\ UNCHANGED <<serverState, heard, cache, seen, call, gap, rolledBack>>

-----------------------------------------------------------------------------
(* Events *)

Hear ==
  /\ heard < Len(log) /\ heard' = heard + 1
  /\ cache' = Apply(Shown, log[heard + 1])
  /\ gap' = (gap \/ Misleads(log[heard + 1]))
  /\ UNCHANGED <<serverState, fetch, seen, call, rolledBack, failed, faults>>

\* The socket was not in the room when it was emitted; or nobody emits one, of a
\* tick, of the seed, or of a label that is deleted and leaves its cards.
Miss ==
  /\ Fault /\ heard < Len(log) /\ heard' = heard + 1
  /\ gap' = TRUE
  /\ UNCHANGED <<serverState, cache, fetch, seen, call, rolledBack, failed>>

-----------------------------------------------------------------------------
(* The server, as this browser sees it *)

Announce(op, c, row, m, void) ==
  /\ log' = Append(log, ChangeOf(op, c, row, m, void))
  /\ IF void THEN Fault ELSE UNCHANGED faults

OtherChange ==
  /\ MoreToCome /\ others < MaxOthers /\ others' = others + 1
  /\ \E op \in {"create", "move", "update", "label", "delete"}, c \in Cards, row \in Row,
        void \in BOOLEAN :
       /\ void => Together + 1 < MaxTogether
       /\ Allowed(op, c) /\ (op = "create" => row \in NewRows)
       /\ Announce(op, c, row, Absent, void)
  /\ UNCHANGED <<committed, heard, cache, fetch, seen, call, history>>

\* The next transaction ends: it commits and its handler answers, or it is rolled
\* back (a time-out, a later statement that fails) and the answer is an error.
End ==
  /\ committed < Len(log) /\ committed' = committed + 1
  /\ LET e == log[committed'] IN
       call' = IF e.by = Absent THEN call
               ELSE [call EXCEPT ![e.by].server = IF e.void THEN "refused" ELSE "done"]
  /\ UNCHANGED <<log, others, heard, cache, fetch, seen, history, faults>>

\* What a call still needs once both sides, or one of them, have decided.
Kept(c) ==
  [c EXCEPT !.op = IF c.ui = "pending" \/ c.server = "sent" THEN @ ELSE Absent,
            !.card = IF c.server = "sent" THEN @ ELSE Absent,
            !.row = IF c.server = "sent" THEN @ ELSE Absent,
            !.previous = IF c.ui = "pending" THEN @ ELSE Absent,
            !.early = @ /\ c.ui # "failed"]
Decide(m, verdict) == call' = [call EXCEPT ![m] = Kept([@ EXCEPT !.server = verdict])]
EndCall(m, ui) == call' = [call EXCEPT ![m] = Kept([@ EXCEPT !.ui = ui])]

\* The handler of a mutation makes its change, or finds the issue gone, the
\* gap full, the request not allowed.
Handle(m) ==
  /\ call[m].ui # "idle" /\ call[m].server = "sent"
  /\ \E c \in IF call[m].op = "create" THEN Cards ELSE {call[m].card} :
       \E void \in BOOLEAN :
         Allowed(call[m].op, c) /\ Announce(call[m].op, c, call[m].row, m, void)
  /\ Decide(m, "announced")
  /\ UNCHANGED <<committed, others, heard, cache, fetch, seen, history>>
Refuse(m) ==
  /\ call[m].ui # "idle" /\ call[m].server = "sent"
  /\ Decide(m, "refused")
  /\ UNCHANGED <<serverState, heard, cache, fetch, seen, history, faults>>

-----------------------------------------------------------------------------
(* Mutations *)

Pending(m) == call[m].ui = "pending"

\* What onMutate makes of the list: the ids of labels are not what a row shows.
Patched(op, c, row) ==
  CASE op = "delete" -> [Shown EXCEPT ![c] = Absent]
    [] op = "label"  -> Shown
    [] OTHER         -> [Shown EXCEPT ![c] = row]

Begin(m, op, c, row) ==
  /\ MoreToCome /\ call[m].ui = "idle"
  /\ call' = [call EXCEPT ![m] = [ui |-> "pending", server |-> "sent", op |-> op, card |-> c,
                                  row |-> row, previous |-> cache,
                                  early |-> cache = Absent]]
  /\ IF op = "create" THEN UNCHANGED <<cache, fetch>>
                      ELSE cache' = Patched(op, c, row) /\ Cancel
  /\ UNCHANGED <<serverState, heard, seen, history, faults>>

Create(m) ==
  \E row \in NewRows : Begin(m, "create", Absent, row)
Drag(m) ==
  \E c \in Cards, p \in Places :
    /\ Shown[c] # Absent /\ Shown[c].place # p
    /\ Begin(m, "move", c, [Shown[c] EXCEPT !.place = p])

\* Leaving the modal's input saves its draft if it is not what the list says
\* now.  The draft is what was typed, or what the list said when the card was
\* opened: the input does not follow the list.
Blur(m) ==
  \E c \in Cards, v \in Texts :
    /\ Shown[c] # Absent /\ Shown[c].text # v
    /\ Begin(m, "update", c, [Shown[c] EXCEPT !.text = v])

\* A choice in the modal's label picker.
Label(m) ==
  \E c \in Cards, ls \in Labels :
    /\ Shown[c] # Absent /\ Shown[c].labels # ls
    /\ Begin(m, "label", c, [Shown[c] EXCEPT !.labels = ls])

Delete(m) == \E c \in Cards : Shown[c] # Absent /\ Begin(m, "delete", c, Absent)

\* The answer arrives: onSettled (onSuccess of a creation) invalidates the list.
Succeed(m) ==
  /\ Pending(m) /\ call[m].server = "done"
  /\ EndCall(m, "succeeded")
  /\ Invalidate
  /\ UNCHANGED <<serverState, heard, cache, seen, history, faults>>

\* An error arrives: onError restores the snapshot, if there was a list.  A
\* creation patches nothing and restores nothing.
GiveUp(m) ==
  /\ EndCall(m, "failed")
  /\ IF call[m].op = "create"
       THEN UNCHANGED <<cache, fetch, gap, rolledBack>>
       ELSE /\ IF call[m].previous = Absent
                 THEN UNCHANGED <<cache, gap, rolledBack>>
                 ELSE cache' = call[m].previous /\ gap' = TRUE /\ rolledBack' = TRUE
            /\ Invalidate
  /\ UNCHANGED <<serverState, heard, seen, failed>>
Fail(m) ==
  /\ Pending(m) /\ call[m].server = "refused"
  /\ GiveUp(m) /\ UNCHANGED faults

\* The connection breaks: the browser sees an error, the server may go on.
Lose(m) == Pending(m) /\ Fault /\ GiveUp(m)

BoardNext ==
  \/ Read \/ Arrive \/ FetchFails \/ Hear \/ Miss \/ OtherChange \/ End
  \/ \E m \in Mutations : \/ Create(m) \/ Drag(m) \/ Delete(m) \/ Blur(m) \/ Label(m)
                          \/ Handle(m) \/ Refuse(m) \/ Succeed(m) \/ Fail(m) \/ Lose(m)

BoardSpec == BoardInit /\ [][BoardNext]_boardVars

-----------------------------------------------------------------------------
(* Properties *)

\* The list has rows for some cards, or was not loaded; answers and events refer
\* to changes the server has made.
BoardTypeOK ==
  /\ log \in Seq(Change) /\ committed \in 0 .. Len(log) /\ heard \in 0 .. Len(log)
  /\ cache \in List \cup {Absent} /\ seen \in 0 .. committed
  /\ fetch.st \in {"none", "asked", "answered"}
  /\ fetch.st = "answered" => fetch.at \in 0 .. committed /\ fetch.list \in List
  /\ \A m \in Mutations :
       \/ call[m] = [ui |-> "idle"]
       \/ /\ call[m].ui \in {"pending", "succeeded", "failed"}
          /\ call[m].server \in {"sent", "announced", "done", "refused"}
          /\ call[m].previous \in List \cup {Absent}

Quiet ==
  /\ fetch = NoFetch /\ heard = Len(log) /\ committed = Len(log)
  /\ \A m \in Mutations : call[m].ui # "pending"

\* Once nothing is under way the board shows what the server has, unless the list
\* was made of events before the first answer, an event was missed or never sent,
\* a snapshot was restored, an answer arrived after an event that it does not
\* reflect, an event was of a change of labels or of one that was rolled back, or
\* the project has more issues than the query asks for, and no good answer has
\* come since: these are the only ways in which a board stays wrong, however
\* mutations, events and answers overlap (hooks.ts:215, 240-255,
\* use-board-realtime.ts:28-38, issues.service.ts:20-34, 86).
Converges == Quiet /\ cache # Absent /\ ~gap => cache = Latest

\* When the mutations of this browser have ended, the answer shown last is one
\* that was read after the last of them was committed, and no restored snapshot
\* is left, unless that last query failed: that is what onSettled and onSuccess
\* invalidate the list for (hooks.ts:224, 255).  (A mutation from before the list
\* was loaded makes do with the query that loads it.)
SettledIsRefetched ==
  Quiet /\ ~failed =>
    /\ ~rolledBack
    /\ \A i \in DOMAIN log : LET m == log[i].by IN
         m # Absent /\ call[m].ui = "succeeded" /\ ~call[m].early => seen >= i
=============================================================================
