------------------------------ MODULE Presence ------------------------------
(***************************************************************************)
(* Who is on which board: RealtimeGateway on the server, useBoardRealtime  *)
(* and the socket it shares with the rest of the page in the browser.      *)
(*                                                                         *)
(* A tab shows the board of one project at a time.  The effect of the hook *)
(* leaves the board before and joins the next one over the tab's only      *)
(* connection; what is emitted while that is down waits for it.  A         *)
(* connection that is lost is dialled again by Socket.IO, which does not   *)
(* run the effect.  On the server every connection is a socket with data   *)
(* of its own, handlers of one socket start in the order of its messages,  *)
(* and those that await the database finish in any order.                  *)
(*                                                                         *)
(* One API node; everybody may see both projects (a refused join changes   *)
(* nothing).                                                               *)
(***************************************************************************)
EXTENDS Naturals, FiniteSets, Sequences

CONSTANTS Tabs,      \* browser tabs
          Users,     \* people
          SignedIn,  \* who may be signed in in which tab
          Projects,  \* projects, each with a board and a room
          MaxSockets, \* bound on the connections of a run
          MaxMoves,  \* bound on what people and networks do in a run
          Nowhere     \* no project, no socket

Sockets == 1 .. MaxSockets  \* in the order in which they connect

ASSUME PresenceAssumption ==
  /\ Nowhere \notin Projects \cup Sockets \cup Tabs \cup Users
  /\ SignedIn \subseteq [Tabs -> Users] /\ IsFiniteSet(Projects)
  /\ MaxMoves \in Nat /\ MaxSockets \in Nat

VARIABLES user,     \* who is signed in in a tab
          page,     \* the project whose board a tab shows
          line,     \* its connection: "none", "dialing", "up" or "refused"
          sock,     \* the server's socket at the other end of it
          out,      \* what it has emitted that the server has not taken up
          list,     \* the people it shows on its board
          inbox,    \* events on their way to the client of a socket
          phase,    \* "unused", "open", "closed" or "rejected"
          owner,    \* the tab a socket belongs to
          known,    \* sockets whose handleConnection has set client.data
          joining,  \* joins of a project that await the database
          inRoom,   \* rooms of a socket, as Socket.IO keeps them
          rooms,    \* client.data.rooms
          count,    \* the roster: project -> user -> sockets
          spoiled,  \* history: sockets whose handlers overtook one another
          moves

browser == <<user, page, line, sock, out, list>>
server  == <<inbox, phase, owner, known, joining, inRoom, rooms, count, spoiled>>
presenceVars == <<browser, server, moves>>

Event == [k : {"sync", "join", "leave"}, users : SUBSET Users]
Message == [k : {"join", "leave", "cursor"}, p : Projects]

PresenceInit ==
  /\ user \in SignedIn
  /\ page = [t \in Tabs |-> Nowhere]    /\ line = [t \in Tabs |-> "none"]
  /\ sock = [t \in Tabs |-> Nowhere]    /\ out = [t \in Tabs |-> <<>>]
  /\ list = [t \in Tabs |-> {}]        /\ inbox = [s \in Sockets |-> <<>>]
  /\ phase = [s \in Sockets |-> "unused"]
  /\ owner = [s \in Sockets |-> Nowhere]
  /\ known = {}                        /\ spoiled = {}
  /\ joining = [s \in Sockets |-> [p \in Projects |-> 0]]
  /\ inRoom = [s \in Sockets |-> {}]   /\ rooms = [s \in Sockets |-> {}]
  /\ count = [p \in Projects |-> [u \in Users |-> 0]]
  /\ moves = 0

-----------------------------------------------------------------------------
(* The browser *)

NoBye(t) == <<>>  \* a mistake: the effect has no cleanup
Bye(t) == IF page[t] = Nowhere THEN <<>> ELSE <<[k |-> "leave", p |-> page[t]]>>
Hello(p) == <<[k |-> "join", p |-> p]>>

\* The effect runs, after its cleanup: for another board, or for the same one
\* with a new token.  A connection that is not up is replaced by a new one.
Show(t, p) ==
  /\ moves < MaxMoves /\ moves' = moves + 1
  /\ page' = [page EXCEPT ![t] = p]
  /\ list' = [list EXCEPT ![t] = IF page[t] = p THEN @ ELSE {}]
  /\ IF line[t] = "up"
       THEN /\ out' = [out EXCEPT ![t] = @ \o Bye(t) \o Hello(p)]
            /\ UNCHANGED <<line, sock>>
       ELSE /\ out' = [out EXCEPT ![t] = Hello(p)]
            /\ line' = [line EXCEPT ![t] = "dialing"]
            /\ sock' = [sock EXCEPT ![t] = Nowhere]
  /\ UNCHANGED <<user, server>>

\* The board is unmounted: the cleanup alone.
Hide(t) ==
  /\ moves < MaxMoves /\ moves' = moves + 1
  /\ page[t] # Nowhere
  /\ page' = [page EXCEPT ![t] = Nowhere]
  /\ out' = [out EXCEPT ![t] = @ \o Bye(t)]
  /\ list' = [list EXCEPT ![t] = {}]
  /\ UNCHANGED <<user, line, sock, server>>

\* The connection is lost with what was on it; the client dials again.
Drop(t) ==
  /\ moves < MaxMoves /\ moves' = moves + 1
  /\ line[t] = "up"
  /\ line' = [line EXCEPT ![t] = "dialing"]
  /\ sock' = [sock EXCEPT ![t] = Nowhere]
  /\ out' = [out EXCEPT ![t] = <<>>]
  /\ UNCHANGED <<user, page, list, server>>

\* The list l after the event e: onSync, onUserJoined, onUserLeft.
After(l, e) == CASE e.k = "sync"  -> e.users
                 [] e.k = "join"  -> l \cup e.users
                 [] e.k = "leave" -> l \ e.users

\* A handler of the hook applies the next event; without a board there is none.
Hear(t) ==
  /\ line[t] = "up" /\ inbox[sock[t]] # <<>>
  /\ list' = [list EXCEPT ![t] =
                IF page[t] = Nowhere THEN {} ELSE After(@, Head(inbox[sock[t]]))]
  /\ inbox' = [inbox EXCEPT ![sock[t]] = Tail(@)]
  /\ UNCHANGED <<user, page, line, sock, out, moves, phase, owner, known, joining, inRoom,
                 rooms, count, spoiled>>

-----------------------------------------------------------------------------
(* The server *)

Roster(p) == {u \in Users : count[p][u] > 0}
Of(s) == user[owner[s]]
InRoom(p) == {s \in Sockets : p \in inRoom[s] /\ phase[s] = "open"}

\* inbox after the sockets in "to" were sent the event e.
Sent(to, e) == [s \in Sockets |-> IF s \in to THEN Append(inbox[s], e) ELSE inbox[s]]

\* The transport opens and handleConnection starts; messages are taken from now on.
Connect(t, s) ==
  /\ line[t] = "dialing" /\ phase[s] = "unused" /\ \A r \in 1 .. s - 1 : phase[r] # "unused"
  /\ line' = [line EXCEPT ![t] = "up"]
  /\ sock' = [sock EXCEPT ![t] = s]
  /\ phase' = [phase EXCEPT ![s] = "open"]
  /\ owner' = [owner EXCEPT ![s] = t]
  /\ UNCHANGED <<user, page, out, list, inbox, known, joining, inRoom, rooms, count, spoiled,
                 moves>>

\* handleConnection has verified the token and found the user.
Greet(s) ==
  /\ phase[s] \in {"open", "closed"} /\ s \notin known
  /\ known' = known \cup {s}
  /\ UNCHANGED <<browser, inbox, phase, owner, joining, inRoom, rooms, count, spoiled, moves>>

\* Or it has not (a token that expired meanwhile): the client does not dial again.
Reject(s) ==
  /\ phase[s] = "open" /\ s \notin known
  /\ phase' = [phase EXCEPT ![s] = "rejected"]
  /\ inRoom' = [inRoom EXCEPT ![s] = {}]
  /\ inbox' = [inbox EXCEPT ![s] = <<>>]
  /\ line' = [t \in Tabs |-> IF sock[t] = s THEN "refused" ELSE line[t]]
  /\ sock' = [t \in Tabs |-> IF sock[t] = s THEN Nowhere ELSE sock[t]]
  /\ out' = [t \in Tabs |-> IF sock[t] = s THEN <<>> ELSE out[t]]
  /\ UNCHANGED <<user, page, list, owner, known, joining, rooms, count, spoiled, moves>>

\* The roster after a socket of user u has left the rooms ps (leaveRoom).
CountWithout(ps, u) ==
  [p \in Projects |-> [count[p] EXCEPT ![u] = IF p \in ps /\ @ > 0 THEN @ - 1 ELSE @]]

\* What leaveRoom tells a socket r when s leaves the rooms ps: whoever was
\* counted once is gone.
FarewellOfAll(s, ps, r) ==  \* a mistake: "gone" is said of everybody who leaves
  LET gone == {p \in ps : r # s /\ r \in InRoom(p)} IN
  [i \in 1 .. Cardinality(gone) |-> [k |-> "leave", users |-> {Of(s)}]]
Farewell(s, ps, r) ==
  LET gone == {p \in ps : r # s /\ r \in InRoom(p) /\ count[p][Of(s)] = 1} IN
  [i \in 1 .. Cardinality(gone) |-> [k |-> "leave", users |-> {Of(s)}]]

LeaveRooms(s, ps) ==
  /\ inRoom' = [inRoom EXCEPT ![s] = @ \ ps]
  /\ rooms' = [rooms EXCEPT ![s] = @ \ ps]
  /\ count' = CountWithout(ps, Of(s))
  /\ inbox' = [r \in Sockets |-> inbox[r] \o Farewell(s, ps, r)]

\* The server takes up the next message of a tab.
Take(t, k) ==
  /\ line[t] = "up" /\ out[t] # <<>> /\ Head(out[t]).k = k
  /\ out' = [out EXCEPT ![t] = Tail(@)]

\* onJoin, as far as its query.
TakeJoin(t) ==
  /\ Take(t, "join")
  /\ LET s == sock[t]  p == Head(out[t]).p IN
       joining' = [joining EXCEPT ![s][p] = @ + 1]
  /\ UNCHANGED <<user, page, line, sock, list, inbox, phase, owner, known, inRoom, rooms, count,
                 spoiled, moves>>

\* onLeave: it throws before handleConnection is through, and does nothing
\* about a join that is still waiting.
TakeLeave(t) ==
  /\ Take(t, "leave")
  /\ LET s == sock[t]  p == Head(out[t]).p IN
       /\ IF s \in known THEN LeaveRooms(s, {p} \cap rooms[s])
                         ELSE UNCHANGED <<inbox, inRoom, rooms, count>>
       /\ spoiled' = IF s \notin known \/ joining[s][p] > 0 THEN spoiled \cup {s} ELSE spoiled
  /\ UNCHANGED <<user, page, line, sock, list, phase, owner, known, joining, moves>>

AddPresenceOnce(p, u) ==  \* a mistake: a second tab is not counted
  [count EXCEPT ![p][u] = 1]
AddPresence(p, u) == [count EXCEPT ![p][u] = @ + 1]

NotEntered(s, p) == rooms  \* a mistake: client.data.rooms is not kept up
Entered(s, p) == [rooms EXCEPT ![s] = @ \cup {p}]

\* The rest of onJoin.  Without client.data.rooms it throws once the socket has
\* joined the room; Socket.IO puts a closed socket into a room as well.
FinishJoin(s, p) ==
  /\ joining[s][p] > 0
  /\ joining' = [joining EXCEPT ![s][p] = @ - 1]
  /\ inRoom' = [inRoom EXCEPT ![s] = @ \cup {p}]
  /\ IF s \in known
       THEN /\ rooms' = Entered(s, p)
            /\ count' = AddPresence(p, Of(s))
            /\ inbox' = [r \in Sockets |->
                 CASE r = s /\ phase[s] = "open" ->
                        Append(inbox[r], [k |-> "sync", users |-> Roster(p) \cup {Of(s)}])
                   [] r # s /\ r \in InRoom(p) ->
                        Append(inbox[r], [k |-> "join", users |-> {Of(s)}])
                   [] OTHER -> inbox[r]]
            /\ UNCHANGED spoiled
       ELSE /\ spoiled' = spoiled \cup {s}
            /\ UNCHANGED <<rooms, count, inbox>>
  /\ UNCHANGED <<browser, phase, owner, known, moves>>

\* onCursor, which no page sends yet: the user's entry is told to the room again.
TakeCursor(s) ==
  /\ moves < MaxMoves /\ moves' = moves + 1
  /\ phase[s] = "open" /\ s \in known
  /\ \E p \in rooms[s] :
       /\ count[p][Of(s)] > 0
       /\ inbox' = Sent(InRoom(p) \ {s}, [k |-> "join", users |-> {Of(s)}])
  /\ UNCHANGED <<browser, phase, owner, known, joining, inRoom, rooms, count, spoiled>>

\* handleDisconnect, when the server notices that the client is gone.
Disconnect(s) ==
  /\ phase[s] = "open" /\ \A t \in Tabs : sock[t] # s
  /\ phase' = [phase EXCEPT ![s] = "closed"]
  /\ inbox' = [r \in Sockets |-> IF r = s THEN <<>> ELSE inbox[r] \o Farewell(s, rooms[s], r)]
  /\ inRoom' = [inRoom EXCEPT ![s] = {}]
  /\ rooms' = [rooms EXCEPT ![s] = {}]
  /\ count' = CountWithout(rooms[s], Of(s))
  /\ spoiled' = IF \E p \in Projects : joining[s][p] > 0 THEN spoiled \cup {s} ELSE spoiled
  /\ UNCHANGED <<browser, owner, known, joining, moves>>

PresenceNext ==
  \/ \E t \in Tabs : \/ \E p \in Projects : Show(t, p)
                     \/ Hide(t) \/ Drop(t) \/ Hear(t) \/ TakeJoin(t) \/ TakeLeave(t)
                     \/ \E s \in Sockets : Connect(t, s)
  \/ \E s \in Sockets : \/ Greet(s) \/ Reject(s) \/ Disconnect(s) \/ TakeCursor(s)
                        \/ \E p \in Projects : FinishJoin(s, p)

\* Handlers that have started go on, one or another of them; people and networks
\* owe nothing (fairness: WF of Served).
Served ==
  \/ \E t \in Tabs : TakeJoin(t) \/ TakeLeave(t)
  \/ \E s \in Sockets : Greet(s) \/ \E p \in Projects : FinishJoin(s, p)

PresenceSpec == PresenceInit /\ [][PresenceNext]_presenceVars

-----------------------------------------------------------------------------
(* Properties *)

\* Rooms, rosters and channels have the shape the gateway declares
\* (realtime.gateway.ts:22-55).
PresenceTypeOK ==
  /\ user \in [Tabs -> Users]
  /\ page \in [Tabs -> Projects \cup {Nowhere}]
  /\ line \in [Tabs -> {"none", "dialing", "up", "refused"}]
  /\ sock \in [Tabs -> Sockets \cup {Nowhere}]
  /\ \A t \in Tabs : line[t] = "up" <=> sock[t] # Nowhere
  /\ out \in [Tabs -> Seq(Message)] /\ inbox \in [Sockets -> Seq(Event)]
  /\ list \in [Tabs -> SUBSET Users]
  /\ phase \in [Sockets -> {"unused", "open", "closed", "rejected"}]
  /\ owner \in [Sockets -> Tabs \cup {Nowhere}]
  /\ \A s \in Sockets : phase[s] = "unused" <=> owner[s] = Nowhere
  /\ known \in SUBSET Sockets /\ spoiled \in SUBSET Sockets
  /\ joining \in [Sockets -> [Projects -> Nat]]
  /\ inRoom \in [Sockets -> SUBSET Projects] /\ rooms \in [Sockets -> SUBSET Projects]
  /\ count \in [Projects -> [Users -> Nat]]
  /\ moves \in 0 .. MaxMoves

Joined(p, u) == {s \in Sockets : owner[s] # Nowhere /\ p \in rooms[s] /\ Of(s) = u}

\* Nobody who is on a board is missing from its roster: leaveRoom never takes
\* away a count that another tab or connection of the user still needs, however
\* joins, leaves and disconnects of all of them overlap.
NobodyIsMissing ==
  \A p \in Projects, u \in Users : count[p][u] >= Cardinality(Joined(p, u))

\* Somebody who is counted more often than he is connected ("dedup multiple tabs
\* by counting sockets", realtime.gateway.ts:54) had a leave or a disconnect
\* overtake a join of the same connection: there is no other way to become a
\* ghost on the roster.
GhostsWereOvertaken ==
  \A p \in Projects, u \in Users :
    count[p][u] > Cardinality({s \in Joined(p, u) : phase[s] = "open"}) =>
      \E s \in spoiled : Of(s) = u

\* The list l once the events q have arrived: the last one that is about a person
\* says whether he is on it; a sync is about everybody.
IsAbout(e, u) == e.k = "sync" \/ u \in e.users
Adds(e, u) == e.k # "leave" /\ u \in e.users
Heard(l, q) ==
  {u \in Users :
     \/ u \in l /\ \A i \in 1 .. Len(q) : ~IsAbout(q[i], u)
     \/ \E i \in 1 .. Len(q) : /\ Adds(q[i], u)
                              /\ \A j \in i + 1 .. Len(q) : ~IsAbout(q[j], u)}

\* A board whose connection has joined its room, and only that, shows the roster
\* as soon as what is under way in both directions has arrived: joining sends the roster and puts
\* the socket into the room in one step, and every later change of the roster is
\* told to the room (realtime.gateway.ts:113-125, 174-186).
ListFollowsRoster ==
  \A t \in Tabs :
    /\ line[t] = "up" /\ sock[t] \notin spoiled /\ out[t] = <<>>
    /\ page[t] # Nowhere /\ rooms[sock[t]] = {page[t]} /\ inRoom[sock[t]] = rooms[sock[t]]
    => Heard(list[t], inbox[sock[t]]) = Roster(page[t])

\* A board that is shown over a connection that holds joins its room, unless
\* a handler of that connection overtook another: handleConnection is slower
\* than the join, or a leave came while the join was waiting.
Connected(t) == page[t] # Nowhere /\ line[t] = "up" /\ sock[t] \notin spoiled
Joining(t) == Connected(t) /\ \E i \in DOMAIN out[t] : out[t][i] = [k |-> "join", p |-> page[t]]
ShownIsJoined ==
  \A t \in Tabs : Joining(t) ~> (Connected(t) => page[t] \in rooms[sock[t]])
=============================================================================
