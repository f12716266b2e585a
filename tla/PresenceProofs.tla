--------------------------- MODULE PresenceProofs ---------------------------
(***************************************************************************)
(* Theorems about Presence: nobody is missing from a roster, a ghost on one *)
(* has a known cause, and the list that a board shows catches up with its  *)
(* roster, for any number of tabs, boards, connections and moves.          *)
(***************************************************************************)
EXTENDS Presence, FiniteSetTheorems, TLAPS

JoinOf(p)  == [k |-> "join", p |-> p]
LeaveOf(p) == [k |-> "leave", p |-> p]

-----------------------------------------------------------------------------
(* The order of a tab's messages *)

\* In the queue q, two joins of a board have a leave of it between them ...
Alternates(q, p) ==
  \A i, j \in 1 .. Len(q) : i < j /\ q[i] = JoinOf(p) /\ q[j] = JoinOf(p) =>
    \E l \in 1 .. Len(q) : i < l /\ l < j /\ q[l] = LeaveOf(p)
\* ... every join has one after it, or before it, or there is a leave at all.
LeftAfter(q, p) ==
  \A i \in 1 .. Len(q) : q[i] = JoinOf(p) =>
    \E l \in 1 .. Len(q) : i < l /\ q[l] = LeaveOf(p)
LeftBefore(q, p) ==
  \A j \in 1 .. Len(q) : q[j] = JoinOf(p) =>
    \E l \in 1 .. Len(q) : l < j /\ q[l] = LeaveOf(p)
IsLeft(q, p) == \E l \in 1 .. Len(q) : q[l] = LeaveOf(p)

LEMMA AppendOther ==
  ASSUME NEW q \in Seq(Message), NEW p \in Projects, NEW m \in Message, m # JoinOf(p)
  PROVE  LET r == q \o <<m>> IN
         /\ Alternates(q, p) => Alternates(r, p)
         /\ LeftAfter(q, p) => LeftAfter(r, p)
         /\ LeftBefore(q, p) => LeftBefore(r, p)
         /\ IsLeft(q, p) => IsLeft(r, p)
<1> DEFINE r == q \o <<m>>
<1>1. /\ Len(q) \in Nat /\ Len(r) = Len(q) + 1 /\ r[Len(q) + 1] = m
      /\ \A i \in 1 .. Len(q) : r[i] = q[i]
  OBVIOUS
<1> HIDE DEF r
<1>2. \A i \in 1 .. Len(r) : r[i] = JoinOf(p) => i \in 1 .. Len(q) /\ q[i] = JoinOf(p)
  BY <1>1
<1>3. \A l \in 1 .. Len(q) : l \in 1 .. Len(r) /\ r[l] = q[l]
  BY <1>1
<1>4. Alternates(q, p) => Alternates(r, p)
  BY <1>2, <1>3 DEF Alternates
<1>5. LeftAfter(q, p) => LeftAfter(r, p)
  BY <1>2, <1>3 DEF LeftAfter
<1>6. LeftBefore(q, p) => LeftBefore(r, p)
  BY <1>2, <1>3 DEF LeftBefore
<1>7. IsLeft(q, p) => IsLeft(r, p)
  BY <1>3 DEF IsLeft
<1>8. QED
  BY <1>4, <1>5, <1>6, <1>7 DEF r

LEMMA AppendLeave ==
  ASSUME NEW q \in Seq(Message), NEW p \in Projects
  PROVE  LET r == q \o <<LeaveOf(p)>> IN LeftAfter(r, p) /\ IsLeft(r, p)
<1> DEFINE r == q \o <<LeaveOf(p)>>
<1>1. /\ Len(q) \in Nat /\ Len(r) = Len(q) + 1 /\ r[Len(q) + 1] = LeaveOf(p)
  OBVIOUS
<1> HIDE DEF r
<1>2. LeaveOf(p) # JoinOf(p)
  BY DEF LeaveOf, JoinOf
<1>3. IsLeft(r, p)
  BY <1>1 DEF IsLeft
<1>4. LeftAfter(r, p)
  <2> SUFFICES ASSUME NEW i \in 1 .. Len(r), r[i] = JoinOf(p)
               PROVE  i < Len(q) + 1
    BY <1>1 DEF LeftAfter
  <2>1. QED
    BY <1>1, <1>2
<1>5. QED
  BY <1>3, <1>4 DEF r

LEMMA AppendJoin ==
  ASSUME NEW q \in Seq(Message), NEW p \in Projects
  PROVE  LET r == q \o <<JoinOf(p)>> IN
         /\ Alternates(q, p) /\ LeftAfter(q, p) => Alternates(r, p)
         /\ LeftBefore(q, p) /\ IsLeft(q, p) => LeftBefore(r, p)
<1> DEFINE r == q \o <<JoinOf(p)>>
<1>1. /\ Len(q) \in Nat /\ Len(r) = Len(q) + 1 /\ r[Len(q) + 1] = JoinOf(p)
      /\ \A i \in 1 .. Len(q) : r[i] = q[i]
  OBVIOUS
<1> HIDE DEF r
<1>2. \A l \in 1 .. Len(q) : l \in 1 .. Len(r) /\ r[l] = q[l]
  BY <1>1
<1>3. ASSUME Alternates(q, p), LeftAfter(q, p) PROVE Alternates(r, p)
  <2> SUFFICES ASSUME NEW i \in 1 .. Len(r), NEW j \in 1 .. Len(r), i < j,
                      r[i] = JoinOf(p), r[j] = JoinOf(p)
               PROVE  \E l \in 1 .. Len(r) : i < l /\ l < j /\ r[l] = LeaveOf(p)
    BY DEF Alternates
  <2>1. i \in 1 .. Len(q) /\ q[i] = JoinOf(p)
    BY <1>1
  <2>2. CASE j = Len(q) + 1
    BY <1>2, <1>3, <2>1, <2>2 DEF LeftAfter
  <2>3. CASE j # Len(q) + 1
    BY <1>1, <1>2, <1>3, <2>1, <2>3 DEF Alternates
  <2>4. QED
    BY <2>2, <2>3
<1>4. ASSUME LeftBefore(q, p), IsLeft(q, p) PROVE LeftBefore(r, p)
  <2> SUFFICES ASSUME NEW j \in 1 .. Len(r), r[j] = JoinOf(p)
               PROVE  \E l \in 1 .. Len(r) : l < j /\ r[l] = LeaveOf(p)
    BY DEF LeftBefore
  <2>1. CASE j = Len(q) + 1
    BY <1>2, <1>4, <2>1 DEF IsLeft
  <2>2. CASE j # Len(q) + 1
    BY <1>1, <1>2, <1>4, <2>2 DEF LeftBefore
  <2>3. QED
    BY <2>1, <2>2
<1>5. QED
  BY <1>3, <1>4 DEF r

\* The server takes the first message.
LEMMA TakeFirst ==
  ASSUME NEW q \in Seq(Message), q # <<>>, NEW p \in Projects
  PROVE  /\ Alternates(q, p) => Alternates(Tail(q), p)
         /\ LeftAfter(q, p) => LeftAfter(Tail(q), p)
         /\ Head(q) = JoinOf(p) /\ Alternates(q, p) => LeftBefore(Tail(q), p)
         /\ Head(q) = JoinOf(p) /\ LeftAfter(q, p) => IsLeft(Tail(q), p)
         /\ Head(q) = JoinOf(p) => ~ LeftBefore(q, p)
         /\ Head(q) # LeaveOf(p) /\ LeftBefore(q, p) => LeftBefore(Tail(q), p)
         /\ Head(q) # LeaveOf(p) /\ IsLeft(q, p) => IsLeft(Tail(q), p)
<1> DEFINE r == Tail(q)
<1>1. /\ Len(q) \in Nat /\ Len(q) > 0 /\ Len(r) = Len(q) - 1 /\ q[1] = Head(q)
      /\ \A i \in 1 .. Len(r) : r[i] = q[i + 1]
  OBVIOUS
<1> HIDE DEF r
<1>2. \A i \in 1 .. Len(r) : i + 1 \in 1 .. Len(q) /\ r[i] = q[i + 1]
  BY <1>1
<1>3. \A l \in 1 .. Len(q) : l > 1 => l - 1 \in 1 .. Len(r) /\ r[l - 1] = q[l]
  BY <1>1
<1>4. ASSUME Alternates(q, p) PROVE Alternates(r, p)
  <2> SUFFICES ASSUME NEW i \in 1 .. Len(r), NEW j \in 1 .. Len(r), i < j,
                      r[i] = JoinOf(p), r[j] = JoinOf(p)
               PROVE  \E l \in 1 .. Len(r) : i < l /\ l < j /\ r[l] = LeaveOf(p)
    BY DEF Alternates
  <2>1. PICK l \in 1 .. Len(q) : i + 1 < l /\ l < j + 1 /\ q[l] = LeaveOf(p)
    <3>1. i + 1 \in 1 .. Len(q) /\ q[i + 1] = JoinOf(p) /\ j + 1 \in 1 .. Len(q) /\ q[j + 1] = JoinOf(p)
      BY <1>2
    <3>2. i + 1 < j + 1
      OBVIOUS
    <3> QED
      BY <1>4, <3>1, <3>2 DEF Alternates
  <2>2. QED
    BY <1>3, <2>1
<1>5. ASSUME LeftAfter(q, p) PROVE LeftAfter(r, p)
  <2> SUFFICES ASSUME NEW i \in 1 .. Len(r), r[i] = JoinOf(p)
               PROVE  \E l \in 1 .. Len(r) : i < l /\ r[l] = LeaveOf(p)
    BY DEF LeftAfter
  <2>1. PICK l \in 1 .. Len(q) : i + 1 < l /\ q[l] = LeaveOf(p)
    BY <1>2, <1>5 DEF LeftAfter
  <2>2. QED
    BY <1>3, <2>1
<1>6. ASSUME Head(q) = JoinOf(p), Alternates(q, p) PROVE LeftBefore(r, p)
  <2> SUFFICES ASSUME NEW j \in 1 .. Len(r), r[j] = JoinOf(p)
               PROVE  \E l \in 1 .. Len(r) : l < j /\ r[l] = LeaveOf(p)
    BY DEF LeftBefore
  <2>1. 1 \in 1 .. Len(q) /\ 1 < j + 1 /\ q[1] = JoinOf(p) /\ q[j + 1] = JoinOf(p)
    BY <1>1, <1>2, <1>6
  <2>2. PICK l \in 1 .. Len(q) : 1 < l /\ l < j + 1 /\ q[l] = LeaveOf(p)
    BY <1>2, <1>6, <2>1 DEF Alternates
  <2>3. QED
    BY <1>3, <2>2
<1>7. ASSUME Head(q) = JoinOf(p), LeftAfter(q, p) PROVE IsLeft(r, p)
  <2>1. PICK l \in 1 .. Len(q) : 1 < l /\ q[l] = LeaveOf(p)
    BY <1>1, <1>7 DEF LeftAfter
  <2>2. QED
    BY <1>3, <2>1 DEF IsLeft
<1>8. Head(q) = JoinOf(p) => ~ LeftBefore(q, p)
  BY <1>1 DEF LeftBefore
<1>9. ASSUME Head(q) # LeaveOf(p), LeftBefore(q, p) PROVE LeftBefore(r, p)
  <2> SUFFICES ASSUME NEW j \in 1 .. Len(r), r[j] = JoinOf(p)
               PROVE  \E l \in 1 .. Len(r) : l < j /\ r[l] = LeaveOf(p)
    BY DEF LeftBefore
  <2>1. PICK l \in 1 .. Len(q) : l < j + 1 /\ q[l] = LeaveOf(p)
    BY <1>2, <1>9 DEF LeftBefore
  <2>2. l > 1
    BY <1>1, <1>9, <2>1
  <2>3. QED
    BY <1>3, <2>1, <2>2
<1>10. ASSUME Head(q) # LeaveOf(p), IsLeft(q, p) PROVE IsLeft(r, p)
  <2>1. PICK l \in 1 .. Len(q) : q[l] = LeaveOf(p)
    BY <1>10 DEF IsLeft
  <2>2. l > 1
    BY <1>1, <1>10, <2>1
  <2>3. QED
    BY <1>3, <2>1, <2>2 DEF IsLeft
<1>11. QED
  BY <1>4, <1>5, <1>6, <1>7, <1>8, <1>9, <1>10 DEF r

-----------------------------------------------------------------------------
(* The invariant *)

\* A tab that is connected has a socket of its own, and nothing happens to a socket
\* before it has connected.
Links ==
  /\ \A t \in Tabs : sock[t] # Nowhere => phase[sock[t]] = "open" /\ owner[sock[t]] = t
  /\ \A s \in Sockets : phase[s] = "rejected" => s \notin known
  /\ \A s \in Sockets : owner[s] = Nowhere =>
       /\ s \notin known \cup spoiled
       /\ rooms[s] = {} /\ \A p \in Projects : joining[s][p] = 0

\* A connection whose handlers have not overtaken one another is in a room, or on
\* its way into it by one join, only while it is open.
Orderly ==
  \A s \in Sockets \ spoiled :
    /\ phase[s] # "open" \/ s \notin known => rooms[s] = {}
    /\ phase[s] = "closed" => \A p \in Projects : joining[s][p] = 0
    /\ \A p \in Projects : joining[s][p] > 0 => joining[s][p] = 1 /\ p \notin rooms[s]

\* The server has a tab in a room, or will have.
Holds(t, p) ==
  /\ sock[t] # Nowhere /\ sock[t] \notin spoiled
  /\ joining[sock[t]][p] > 0 \/ p \in rooms[sock[t]]

\* The messages of a tab alternate between joins and leaves of a board, counting
\* what the server has taken already and what the tab shows now.
InTurn ==
  \A t \in Tabs, p \in Projects :
    /\ Alternates(out[t], p)
    /\ page[t] # p => LeftAfter(out[t], p)
    /\ Holds(t, p) => LeftBefore(out[t], p)
    /\ Holds(t, p) /\ page[t] # p => IsLeft(out[t], p)

\* The roster counts the connections of a user exactly, if none of them is spoiled.
CountsAreExact ==
  \A p \in Projects, u \in Users :
    (\A s \in spoiled : Of(s) # u) => count[p][u] = Cardinality(Joined(p, u))

PresenceInv ==
  PresenceTypeOK /\ Links /\ Orderly /\ InTurn /\ NobodyIsMissing /\ CountsAreExact

LEMMA SocketsAreNumbers == Sockets \subseteq Nat \ {0} /\ Nowhere \notin Sockets
  BY PresenceAssumption DEF Sockets

LEMMA TabsAreSomewhere == \A t \in Tabs : t # Nowhere
  BY PresenceAssumption

LEMMA JoinedIsFinite ==
  ASSUME NEW p \in Projects, NEW u \in Users
  PROVE  IsFiniteSet(Joined(p, u)) /\ Cardinality(Joined(p, u)) \in Nat
<1>1. IsFiniteSet(Sockets)
  BY PresenceAssumption, FS_Interval DEF Sockets
<1>2. Joined(p, u) \in SUBSET Sockets
  BY DEF Joined
<1>3. IsFiniteSet(Joined(p, u))
  BY <1>1, <1>2, FS_Subset
<1>4. QED
  BY <1>3, FS_CardinalityType

LEMMA NoneIsJoined ==
  ASSUME NEW p \in Projects, NEW u \in Users, Joined(p, u) = {}
  PROVE  Cardinality(Joined(p, u)) = 0
  BY FS_EmptySet

LEMMA OneMore ==
  ASSUME NEW S, NEW T, NEW x, IsFiniteSet(S), T = S \cup {x}
  PROVE  Cardinality(T) = IF x \in S THEN Cardinality(S) ELSE Cardinality(S) + 1
  BY FS_AddElement

LEMMA OneLess ==
  ASSUME NEW S, NEW T, NEW x \in S, IsFiniteSet(S), T = S \ {x}
  PROVE  Cardinality(T) = Cardinality(S) - 1 /\ Cardinality(S) # 0
<1>1. Cardinality(S) # 0
  BY FS_EmptySet
<1>2. QED
  BY <1>1, FS_RemoveElement

LEMMA PresenceInvInit == PresenceInit => PresenceInv
<1> SUFFICES ASSUME PresenceInit PROVE PresenceInv
  OBVIOUS
<1> USE PresenceAssumption, SocketsAreNumbers DEF PresenceInit
<1>1. PresenceTypeOK
  BY DEF PresenceTypeOK
<1>2. Links /\ Orderly
  BY DEF Links, Orderly
<1>3. InTurn
  BY DEF InTurn, Holds, Alternates, LeftAfter, LeftBefore, IsLeft
<1>4. ASSUME NEW p \in Projects, NEW u \in Users
      PROVE  Cardinality(Joined(p, u)) = 0 /\ count[p][u] = 0
  <2>1. Joined(p, u) = {}
    BY DEF Joined
  <2>2. QED
    BY <2>1, NoneIsJoined
<1>5. NobodyIsMissing /\ CountsAreExact
  BY <1>4 DEF NobodyIsMissing, CountsAreExact
<1>6. QED
  BY <1>1, <1>2, <1>3, <1>5 DEF PresenceInv

-----------------------------------------------------------------------------
(* What steps have in common *)

\* Counts do not change, nobody enters or leaves a room.
LEMMA SameCounts ==
  ASSUME PresenceInv, UNCHANGED <<user, rooms, count>>, spoiled \subseteq spoiled',
         \A s \in Sockets : owner'[s] = owner[s] \/ owner[s] = Nowhere
  PROVE  NobodyIsMissing' /\ CountsAreExact'
<1> USE DEF PresenceInv, PresenceTypeOK, Links
<1>1. \A p \in Projects, u \in Users : Joined(p, u)' = Joined(p, u)
  BY DEF Joined, Of
<1>2. \A s \in spoiled : Of(s)' = Of(s)
  BY DEF Of
<1>3. NobodyIsMissing'
  BY <1>1 DEF NobodyIsMissing
<1>4. CountsAreExact'
  BY <1>1, <1>2 DEF CountsAreExact
<1>5. QED
  BY <1>3, <1>4

\* A socket enters a room and is counted.
LEMMA EnteringCounts ==
  ASSUME PresenceInv, NEW s \in Sockets, NEW q \in Projects,
         owner[s] # Nowhere, joining[s][q] > 0,
         rooms' = Entered(s, q), count' = AddPresence(q, Of(s)),
         UNCHANGED <<user, owner, spoiled>>
  PROVE  NobodyIsMissing' /\ CountsAreExact'
<1> USE DEF PresenceInv, PresenceTypeOK, Links
<1>1. Of(s) \in Users
  BY DEF Of
<1>2. ASSUME NEW p \in Projects, NEW u \in Users
      PROVE  /\ count'[p][u] >= Cardinality(Joined(p, u)')
             /\ (\A r \in spoiled : Of(r) # u) => count'[p][u] = Cardinality(Joined(p, u)')
  <2>1. IsFiniteSet(Joined(p, u)) /\ Cardinality(Joined(p, u)) \in Nat
    BY JoinedIsFinite
  <2>2. CASE p = q /\ u = Of(s)
    <3>1. Joined(p, u)' = Joined(p, u) \cup {s}
      BY <2>2 DEF Joined, Of, Entered
    <3>2. count'[p][u] = count[p][u] + 1
      BY <2>2 DEF AddPresence
    <3>3. Cardinality(Joined(p, u)') =
            IF s \in Joined(p, u) THEN Cardinality(Joined(p, u)) ELSE Cardinality(Joined(p, u)) + 1
      BY <2>1, <3>1, OneMore
    <3>4. count[p][u] >= Cardinality(Joined(p, u)) /\ count[p][u] \in Nat
      BY DEF NobodyIsMissing
    <3>5. ASSUME \A r \in spoiled : Of(r) # u
          PROVE  count[p][u] = Cardinality(Joined(p, u)) /\ s \notin Joined(p, u)
      <4>1. s \notin spoiled
        BY <2>2, <3>5
      <4>2. q \notin rooms[s]
        BY <4>1 DEF Orderly
      <4>3. count[p][u] = Cardinality(Joined(p, u))
        BY <3>5 DEF CountsAreExact
      <4>4. QED
        BY <2>2, <4>2, <4>3 DEF Joined
    <3>6. QED
      BY SMTT(30), <2>1, <3>2, <3>3, <3>4, <3>5
  <2>3. CASE ~ (p = q /\ u = Of(s))
    <3>1. Joined(p, u)' = Joined(p, u)
      BY <2>3 DEF Joined, Of, Entered
    <3>2. count'[p][u] = count[p][u]
      BY <1>1, <2>3 DEF AddPresence
    <3>3. QED
      BY <3>1, <3>2 DEF NobodyIsMissing, CountsAreExact
  <2>4. QED
    BY <2>2, <2>3
<1>3. \A r \in spoiled : Of(r)' = Of(r)
  BY DEF Of
<1>4. NobodyIsMissing'
  BY <1>2 DEF NobodyIsMissing
<1>5. CountsAreExact'
  BY <1>2, <1>3 DEF CountsAreExact
<1>6. QED
  BY <1>4, <1>5

\* A socket leaves rooms and is no longer counted there.
LEMMA LeavingCounts ==
  ASSUME PresenceInv, NEW s \in Sockets, owner[s] # Nowhere, NEW ps \in SUBSET rooms[s],
         rooms' = [rooms EXCEPT ![s] = @ \ ps], count' = CountWithout(ps, Of(s)),
         spoiled \subseteq spoiled', UNCHANGED <<user, owner>>
  PROVE  NobodyIsMissing' /\ CountsAreExact'
<1> USE DEF PresenceInv, PresenceTypeOK, Links
<1>1. Of(s) \in Users
  BY DEF Of
<1>2. ASSUME NEW p \in Projects, NEW u \in Users
      PROVE  /\ count'[p][u] >= Cardinality(Joined(p, u)')
             /\ (\A r \in spoiled : Of(r) # u) => count'[p][u] = Cardinality(Joined(p, u)')
  <2>1. IsFiniteSet(Joined(p, u)) /\ Cardinality(Joined(p, u)) \in Nat
    BY JoinedIsFinite
  <2>2. count[p][u] >= Cardinality(Joined(p, u)) /\ count[p][u] \in Nat
    BY DEF NobodyIsMissing
  <2>3. (\A r \in spoiled : Of(r) # u) => count[p][u] = Cardinality(Joined(p, u))
    BY DEF CountsAreExact
  <2>4. CASE p \in ps /\ u = Of(s)
    <3>1. s \in Joined(p, u) /\ Joined(p, u)' = Joined(p, u) \ {s}
      BY <2>4 DEF Joined, Of
    <3>2. /\ Cardinality(Joined(p, u)') = Cardinality(Joined(p, u)) - 1
          /\ Cardinality(Joined(p, u)) # 0
      BY <2>1, <3>1, OneLess
    <3>3. count'[p][u] = count[p][u] - 1
      BY <2>1, <2>2, <2>4, <3>2 DEF CountWithout
    <3>4. QED
      BY <2>1, <2>2, <2>3, <3>2, <3>3
  <2>5. CASE ~ (p \in ps /\ u = Of(s))
    <3>1. Joined(p, u)' = Joined(p, u)
      BY <2>5 DEF Joined, Of
    <3>2. count'[p][u] = count[p][u]
      BY <1>1, <2>5 DEF CountWithout
    <3>3. QED
      BY <2>2, <2>3, <3>1, <3>2
  <2>6. QED
    BY <2>4, <2>5
<1>3. \A r \in spoiled : Of(r)' = Of(r)
  BY DEF Of
<1>4. NobodyIsMissing'
  BY <1>2 DEF NobodyIsMissing
<1>5. CountsAreExact'
  BY <1>2, <1>3 DEF CountsAreExact
<1>6. QED
  BY <1>4, <1>5

\* No tab turns, and the server takes on nobody.
LEMMA SameTurns ==
  ASSUME InTurn, UNCHANGED <<page, out>>,
         \A t \in Tabs, p \in Projects : Holds(t, p)' => Holds(t, p)
  PROVE  InTurn'
  BY DEF InTurn

-----------------------------------------------------------------------------
(* The type invariant *)

LEMMA FarewellIsEvents ==
  ASSUME PresenceTypeOK, NEW s \in Sockets, owner[s] # Nowhere, NEW ps \in SUBSET Projects,
         NEW r \in Sockets
  PROVE  inbox[r] \o Farewell(s, ps, r) \in Seq(Event)
<1> DEFINE gone == {p \in ps : r # s /\ r \in InRoom(p) /\ count[p][Of(s)] = 1}
           bye == [k |-> "leave", users |-> {Of(s)}]
<1>1. IsFiniteSet(gone)
  BY PresenceAssumption, FS_Subset
<1>2. Cardinality(gone) \in Nat
  BY <1>1, FS_CardinalityType
<1>3. bye \in Event
  BY DEF PresenceTypeOK, Event, Of
<1> HIDE DEF gone, bye
<1>4. [i \in 1 .. Cardinality(gone) |-> bye] \in Seq(Event)
  BY <1>2, <1>3
<1>5. Farewell(s, ps, r) = [i \in 1 .. Cardinality(gone) |-> bye]
  BY DEF Farewell, gone, bye
<1>6. inbox[r] \in Seq(Event)
  BY DEF PresenceTypeOK
<1>7. QED
  BY <1>4, <1>5, <1>6

LEMMA MessagesAreTyped ==
  ASSUME PresenceTypeOK, NEW t \in Tabs
  PROVE  /\ Bye(t) \in Seq(Message)
         /\ \A p \in Projects : Hello(p) \in Seq(Message)
<1>1. \A p \in Projects : LeaveOf(p) \in Message /\ JoinOf(p) \in Message
  BY DEF LeaveOf, JoinOf, Message
<1>2. Bye(t) \in Seq(Message)
  BY <1>1 DEF Bye, PresenceTypeOK, LeaveOf
<1>3. QED
  BY <1>1, <1>2 DEF Hello, JoinOf

LEMMA CountWithoutIsTyped ==
  ASSUME PresenceTypeOK, NEW ps, NEW u \in Users
  PROVE  CountWithout(ps, u) \in [Projects -> [Users -> Nat]]
<1>1. ASSUME NEW p \in Projects
      PROVE  [count[p] EXCEPT ![u] = IF p \in ps /\ @ > 0 THEN @ - 1 ELSE @] \in [Users -> Nat]
  <2>1. count[p] \in [Users -> Nat]
    BY DEF PresenceTypeOK
  <2>2. (IF p \in ps /\ count[p][u] > 0 THEN count[p][u] - 1 ELSE count[p][u]) \in Nat
    BY <2>1
  <2>3. QED
    BY <2>1, <2>2
<1>2. QED
  BY <1>1 DEF CountWithout

\* What people and networks do.
LEMMA BrowserIsTyped ==
  ASSUME PresenceTypeOK, NEW t \in Tabs,
         (\E p \in Projects : Show(t, p)) \/ Hide(t) \/ Drop(t) \/ Hear(t)
  PROVE  PresenceTypeOK'
<1> USE PresenceAssumption, SocketsAreNumbers DEF PresenceTypeOK, server
<1>1. ASSUME NEW p \in Projects, Show(t, p) PROVE PresenceTypeOK'
  <2>1. /\ out[t] \o Bye(t) \o Hello(p) \in Seq(Message)
        /\ Hello(p) \in Seq(Message)
    <3>1. out[t] \in Seq(Message) /\ Bye(t) \in Seq(Message) /\ Hello(p) \in Seq(Message)
      BY MessagesAreTyped
    <3>2. QED
      BY <3>1
  <2>2. /\ out' \in [Tabs -> Seq(Message)] /\ line' \in [Tabs -> {"none", "dialing", "up", "refused"}]
        /\ sock' \in [Tabs -> Sockets \cup {Nowhere}]
        /\ \A q \in Tabs : line'[q] = "up" <=> sock'[q] # Nowhere
    <3>1. CASE line[t] = "up"
      <4>1. out' = [out EXCEPT ![t] = @ \o Bye(t) \o Hello(p)] /\ UNCHANGED <<line, sock>>
        BY <1>1, <3>1 DEF Show
      <4>2. QED
        BY <2>1, <4>1
    <3>2. CASE line[t] # "up"
      <4>1. /\ out' = [out EXCEPT ![t] = Hello(p)]
            /\ line' = [line EXCEPT ![t] = "dialing"] /\ sock' = [sock EXCEPT ![t] = Nowhere]
        BY <1>1, <3>2 DEF Show
      <4>2. QED
        BY <2>1, <4>1
    <3>3. QED
      BY <3>1, <3>2
  <2>3. /\ page' \in [Tabs -> Projects \cup {Nowhere}] /\ list' \in [Tabs -> SUBSET Users]
        /\ moves' \in 0 .. MaxMoves
    BY <1>1 DEF Show
  <2>4. UNCHANGED <<user, server>>
    BY <1>1 DEF Show
  <2>5. QED
    BY <2>2, <2>3, <2>4
<1>2. CASE Hide(t)
  <2>1. out[t] \o Bye(t) \in Seq(Message)
    <3>1. out[t] \in Seq(Message) /\ Bye(t) \in Seq(Message)
      BY MessagesAreTyped
    <3>2. QED
      BY <3>1
  <2>2. QED
    BY <1>2, <2>1 DEF Hide
<1>3. CASE Drop(t)
  BY <1>3 DEF Drop
<1>4. CASE Hear(t)
  <2>1. sock[t] \in Sockets /\ inbox[sock[t]] \in Seq(Event) /\ inbox[sock[t]] # <<>>
    BY <1>4 DEF Hear
  <2>2. Head(inbox[sock[t]]) \in Event /\ Tail(inbox[sock[t]]) \in Seq(Event)
    BY <2>1
  <2>3. inbox' \in [Sockets -> Seq(Event)]
    BY <1>4, <2>1, <2>2 DEF Hear
  <2>4. list' \in [Tabs -> SUBSET Users]
    <3> DEFINE e == Head(inbox[sock[t]])
    <3>1. e.users \subseteq Users /\ e.k \in {"sync", "join", "leave"} /\ list[t] \subseteq Users
      BY <2>2 DEF Event
    <3> HIDE DEF e
    <3>2. After(list[t], e) \subseteq Users
      BY <3>1 DEF After
    <3>3. QED
      BY <1>4, <3>2 DEF Hear, e
  <2>5. QED
    BY <1>4, <2>3, <2>4 DEF Hear
<1>5. QED
  BY <1>1, <1>2, <1>3, <1>4

\* Messages that the server takes up.
LEMMA TakingIsTyped ==
  ASSUME PresenceTypeOK, Links, NEW t \in Tabs, TakeJoin(t) \/ TakeLeave(t)
  PROVE  PresenceTypeOK'
<1> USE PresenceAssumption, SocketsAreNumbers DEF PresenceTypeOK, Take
<1>1. out[t] \in Seq(Message) /\ out[t] # <<>> /\ out' = [out EXCEPT ![t] = Tail(@)]
  BY DEF TakeJoin, TakeLeave
<1>2. Tail(out[t]) \in Seq(Message) /\ Head(out[t]) \in Message
  BY <1>1
<1>3. out' \in [Tabs -> Seq(Message)] /\ Head(out[t]).p \in Projects
  BY <1>1, <1>2 DEF Message
<1>4. sock[t] \in Sockets /\ owner[sock[t]] # Nowhere /\ Of(sock[t]) \in Users
  BY DEF TakeJoin, TakeLeave, Links, Of
<1>5. CASE TakeJoin(t)
  <2> DEFINE p == Head(out[t]).p
  <2>1. [joining[sock[t]] EXCEPT ![p] = @ + 1] \in [Projects -> Nat]
    <3>1. joining[sock[t]] \in [Projects -> Nat]
      BY <1>4
    <3>2. p \in Projects
      BY <1>3
    <3> HIDE DEF p
    <3>3. QED
      BY <3>1, <3>2
  <2>2. joining' = [joining EXCEPT ![sock[t]] = [joining[sock[t]] EXCEPT ![p] = @ + 1]]
    BY <1>5 DEF TakeJoin
  <2> HIDE DEF p
  <2>3. joining' \in [Sockets -> [Projects -> Nat]]
    BY <1>4, <2>1, <2>2
  <2>4. UNCHANGED <<user, page, line, sock, list, inbox, phase, owner, known, inRoom, rooms, count,
                    spoiled, moves>>
    BY <1>5 DEF TakeJoin
  <2>5. QED
    BY <1>3, <2>3, <2>4
<1>6. CASE TakeLeave(t)
  <2> DEFINE s == sock[t]
             ps == {Head(out[t]).p} \cap rooms[s]
  <2>1. CASE s \in known
    <3>1. ps \subseteq Projects
      BY <1>4
    <3>2. \A r \in Sockets : inbox[r] \o Farewell(s, ps, r) \in Seq(Event)
      BY <1>4, <3>1, FarewellIsEvents
    <3>3. LeaveRooms(s, ps) /\ spoiled' \in SUBSET Sockets
      BY <1>4, <1>6, <2>1 DEF TakeLeave
    <3>4. UNCHANGED <<user, page, line, sock, list, phase, owner, known, joining, moves>>
      BY <1>6 DEF TakeLeave
    <3>5. s \in Sockets /\ Of(s) \in Users
      BY <1>4
    <3> HIDE DEF s, ps
    <3>6. inbox' \in [Sockets -> Seq(Event)] /\ inRoom' \in [Sockets -> SUBSET Projects]
          /\ rooms' \in [Sockets -> SUBSET Projects]
      <4>1. /\ inbox' = [r \in Sockets |-> inbox[r] \o Farewell(s, ps, r)]
            /\ inRoom' = [inRoom EXCEPT ![s] = @ \ ps] /\ rooms' = [rooms EXCEPT ![s] = @ \ ps]
        BY <3>3 DEF LeaveRooms
      <4>2. QED
        BY <3>2, <3>5, <4>1
    <3>7. count' \in [Projects -> [Users -> Nat]]
      BY <3>3, <3>5, CountWithoutIsTyped DEF LeaveRooms
    <3>8. QED
      BY <1>3, <3>3, <3>4, <3>6, <3>7
  <2>2. CASE s \notin known
    BY <1>3, <1>4, <1>6, <2>2 DEF TakeLeave
  <2>3. QED
    BY <2>1, <2>2
<1>7. QED
  BY <1>5, <1>6

\* Connections that come and go.
LEMMA ConnectionsAreTyped ==
  ASSUME PresenceTypeOK, Links, NEW s \in Sockets,
         (\E t \in Tabs : Connect(t, s)) \/ Greet(s) \/ Reject(s) \/ Disconnect(s)
  PROVE  PresenceTypeOK'
<1> USE PresenceAssumption, SocketsAreNumbers DEF PresenceTypeOK, browser
<1>1. ASSUME NEW t \in Tabs, Connect(t, s) PROVE PresenceTypeOK'
  BY <1>1 DEF Connect
<1>2. CASE Greet(s)
  BY <1>2 DEF Greet
<1>3. CASE Reject(s)
  BY <1>3 DEF Reject
<1>4. CASE Disconnect(s)
  <2>1. owner[s] # Nowhere /\ rooms[s] \subseteq Projects
    BY <1>4 DEF Disconnect
  <2>2. \A r \in Sockets : inbox[r] \o Farewell(s, rooms[s], r) \in Seq(Event)
    BY <2>1, FarewellIsEvents
  <2>3. inbox' \in [Sockets -> Seq(Event)]
    BY <1>4, <2>2 DEF Disconnect
  <2>4. count' \in [Projects -> [Users -> Nat]]
    <3>1. Of(s) \in Users
      BY <2>1 DEF Of
    <3>2. QED
      BY <1>4, <3>1, CountWithoutIsTyped DEF Disconnect
  <2>5. QED
    BY <1>4, <2>3, <2>4 DEF Disconnect
<1>5. QED
  BY <1>1, <1>2, <1>3, <1>4

\* Joins that end, and cursors.
LEMMA JoiningIsTyped ==
  ASSUME PresenceTypeOK, Links, NEW s \in Sockets,
         (\E p \in Projects : FinishJoin(s, p)) \/ TakeCursor(s)
  PROVE  PresenceTypeOK'
<1> USE PresenceAssumption, SocketsAreNumbers DEF PresenceTypeOK, browser
<1>1. ASSUME NEW q \in Sockets, NEW e \in Event PROVE Append(inbox[q], e) \in Seq(Event)
  BY <1>1
<1>2. owner[s] # Nowhere => Of(s) \in Users
  BY DEF Of
<1>3. ASSUME NEW p \in Projects, FinishJoin(s, p) PROVE PresenceTypeOK'
  <2>1. owner[s] # Nowhere
    BY <1>3 DEF FinishJoin, Links
  <2>2. CASE s \in known
    <3>1. /\ [k |-> "sync", users |-> Roster(p) \cup {Of(s)}] \in Event
          /\ [k |-> "join", users |-> {Of(s)}] \in Event
      BY <1>2, <2>1 DEF Event, Roster
    <3>2. inbox' \in [Sockets -> Seq(Event)]
      <4> DEFINE e == [k |-> "sync", users |-> Roster(p) \cup {Of(s)}]
                 f == [k |-> "join", users |-> {Of(s)}]
      <4>1. inbox' = [r \in Sockets |->
                 CASE r = s /\ phase[s] = "open" -> Append(inbox[r], e)
                   [] r # s /\ r \in InRoom(p) -> Append(inbox[r], f)
                   [] OTHER -> inbox[r]]
        BY <1>3, <2>2 DEF FinishJoin
      <4>2. e \in Event /\ f \in Event
        BY <3>1
      <4> HIDE DEF e, f
      <4>3. \A r \in Sockets : /\ Append(inbox[r], e) \in Seq(Event) /\ inbox[r] \in Seq(Event)
                               /\ Append(inbox[r], f) \in Seq(Event)
        BY <1>1, <4>2
      <4>4. QED
        BY <4>1, <4>3
    <3>3. count' \in [Projects -> [Users -> Nat]]
      <4>1. count' = [count EXCEPT ![p] = [count[p] EXCEPT ![Of(s)] = @ + 1]]
        BY <1>3, <2>2 DEF FinishJoin, AddPresence
      <4>2. [count[p] EXCEPT ![Of(s)] = @ + 1] \in [Users -> Nat]
        BY <1>2, <2>1
      <4>3. QED
        BY <4>1, <4>2
    <3>4. /\ joining' = [joining EXCEPT ![s] = [joining[s] EXCEPT ![p] = @ - 1]]
          /\ joining[s][p] > 0
      BY <1>3 DEF FinishJoin
    <3>5. [joining[s] EXCEPT ![p] = @ - 1] \in [Projects -> Nat]
      BY <3>4
    <3>6. joining' \in [Sockets -> [Projects -> Nat]]
      BY <3>4, <3>5
    <3>7. /\ inRoom' \in [Sockets -> SUBSET Projects] /\ rooms' \in [Sockets -> SUBSET Projects]
          /\ UNCHANGED <<user, page, line, sock, out, list, phase, owner, known, spoiled, moves>>
      <4>1. /\ inRoom' = [inRoom EXCEPT ![s] = @ \cup {p}] /\ rooms' = [rooms EXCEPT ![s] = @ \cup {p}]
            /\ UNCHANGED <<user, page, line, sock, out, list, phase, owner, known, spoiled, moves>>
        BY <1>3, <2>2 DEF FinishJoin, Entered
      <4>2. QED
        BY <4>1
    <3>8. QED
      BY <3>2, <3>3, <3>6, <3>7
  <2>3. CASE s \notin known
    BY <1>3, <2>3 DEF FinishJoin
  <2>4. QED
    BY <2>2, <2>3
<1>4. CASE TakeCursor(s)
  <2>1. [k |-> "join", users |-> {Of(s)}] \in Event
    BY <1>2, <1>4 DEF TakeCursor, Event
  <2>2. inbox' \in [Sockets -> Seq(Event)]
    BY <1>1, <1>4, <2>1 DEF TakeCursor, Sent
  <2>3. moves' \in 0 .. MaxMoves
    BY <1>4 DEF TakeCursor
  <2>4. UNCHANGED <<browser, phase, owner, known, joining, inRoom, rooms, count, spoiled>>
    BY <1>4 DEF TakeCursor
  <2>5. QED
    BY <2>2, <2>3, <2>4
<1>5. QED
  BY <1>3, <1>4

-----------------------------------------------------------------------------
(* The steps of the browser *)

\* After the cleanup of its effect a tab has left every board it joined.
LEMMA ByeSettles ==
  ASSUME PresenceTypeOK, InTurn, NEW t \in Tabs, NEW p \in Projects
  PROVE  LET q == out[t] \o Bye(t) IN
         /\ Alternates(q, p) /\ LeftAfter(q, p)
         /\ Holds(t, p) => LeftBefore(q, p) /\ IsLeft(q, p)
<1> DEFINE o == out[t]
<1>1. o \in Seq(Message) /\ page[t] \in Projects \cup {Nowhere}
  BY DEF PresenceTypeOK
<1>2. /\ Alternates(o, p) /\ (page[t] # p => LeftAfter(o, p))
      /\ Holds(t, p) => LeftBefore(o, p) /\ (page[t] # p => IsLeft(o, p))
  BY DEF InTurn
<1>3. CASE page[t] = Nowhere
  <2>1. o \o Bye(t) = o
    BY <1>1, <1>3 DEF Bye
  <2>2. page[t] # p
    BY <1>3, PresenceAssumption
  <2>3. QED
    BY <1>2, <2>1, <2>2
<1>4. CASE page[t] # Nowhere
  <2> DEFINE x == page[t]
             q == o \o <<LeaveOf(x)>>
  <2>1. out[t] \o Bye(t) = q
    BY <1>4 DEF Bye, LeaveOf
  <2>2. x \in Projects /\ LeaveOf(x) \in Message /\ LeaveOf(x) # JoinOf(p)
    BY <1>1, <1>4 DEF LeaveOf, JoinOf, Message
  <2> HIDE DEF x, o
  <2>3. /\ Alternates(o, p) => Alternates(q, p)
        /\ LeftAfter(o, p) => LeftAfter(q, p)
        /\ LeftBefore(o, p) => LeftBefore(q, p)
        /\ IsLeft(o, p) => IsLeft(q, p)
    BY <1>1, <2>2, AppendOther
  <2>4. x = p => LeftAfter(q, p) /\ IsLeft(q, p)
    BY <1>1, AppendLeave
  <2>5. QED
    BY <1>2, <2>1, <2>3, <2>4 DEF x
<1>5. QED
  BY <1>3, <1>4

LEMMA ShowKeepsInv ==
  ASSUME PresenceInv, NEW t \in Tabs, NEW p \in Projects, Show(t, p)
  PROVE  PresenceInv'
<1>1. PresenceTypeOK /\ PresenceTypeOK'
  BY BrowserIsTyped DEF PresenceInv
<1>2. UNCHANGED <<user, phase, owner, known, joining, rooms, count, spoiled>>
  BY DEF Show, server
<1>3. \A x \in Tabs : sock'[x] # Nowhere => sock'[x] = sock[x]
  BY <1>1 DEF Show, PresenceTypeOK
<1>4. Links' /\ Orderly'
  BY <1>2, <1>3 DEF PresenceInv, Links, Orderly
<1>5. NobodyIsMissing' /\ CountsAreExact'
  BY <1>2, SameCounts
<1>6. \A x \in Tabs, y \in Projects : Holds(x, y)' => Holds(x, y)
  BY <1>2, <1>3 DEF Holds
<1>7. ASSUME NEW y \in Projects
      PROVE  /\ Alternates(out'[t], y) /\ (page'[t] # y => LeftAfter(out'[t], y))
             /\ Holds(t, y)' => LeftBefore(out'[t], y) /\ (page'[t] # y => IsLeft(out'[t], y))
  <2>1. page'[t] = p
    BY <1>1 DEF Show, PresenceTypeOK
  <2>2. JoinOf(p) \in Message /\ (y # p => JoinOf(p) # JoinOf(y))
    BY DEF JoinOf, Message
  <2>3. CASE line[t] = "up"
    <3> DEFINE q == out[t] \o Bye(t)
               r == q \o <<JoinOf(p)>>
    <3>1. q \in Seq(Message)
      <4>1. out[t] \in Seq(Message) /\ Bye(t) \in Seq(Message)
        BY <1>1, MessagesAreTyped DEF PresenceTypeOK
      <4>2. QED
        BY <4>1
    <3>2. out'[t] = r
      BY <1>1, <2>3 DEF Show, PresenceTypeOK, Hello, JoinOf
    <3>3. /\ Alternates(q, y) /\ LeftAfter(q, y)
          /\ Holds(t, y) => LeftBefore(q, y) /\ IsLeft(q, y)
      BY <1>1, ByeSettles DEF PresenceInv
    <3> HIDE DEF q
    <3>4. CASE y = p
      <4>1. /\ Alternates(q, p) /\ LeftAfter(q, p) => Alternates(r, p)
            /\ LeftBefore(q, p) /\ IsLeft(q, p) => LeftBefore(r, p)
        BY <3>1, AppendJoin
      <4>2. QED
        BY <1>6, <2>1, <3>2, <3>3, <3>4, <4>1
    <3>5. CASE y # p
      <4>1. /\ Alternates(q, y) => Alternates(r, y)
            /\ LeftAfter(q, y) => LeftAfter(r, y)
            /\ LeftBefore(q, y) => LeftBefore(r, y)
            /\ IsLeft(q, y) => IsLeft(r, y)
        BY <2>2, <3>1, <3>5, AppendOther
      <4>2. QED
        BY <1>6, <3>2, <3>3, <4>1
    <3>6. QED
      BY <3>4, <3>5
  <2>4. CASE line[t] # "up"
    <3>1. out'[t] = <<JoinOf(p)>> /\ sock'[t] = Nowhere
      BY <1>1, <2>4 DEF Show, PresenceTypeOK, Hello, JoinOf
    <3>2. Alternates(out'[t], y) /\ (y # p => LeftAfter(out'[t], y))
      BY <2>2, <3>1 DEF Alternates, LeftAfter
    <3>3. ~ Holds(t, y)'
      BY <3>1 DEF Holds
    <3>4. QED
      BY <2>1, <3>2, <3>3
  <2>5. QED
    BY <2>3, <2>4
<1>8. ASSUME NEW x \in Tabs, x # t PROVE out'[x] = out[x] /\ page'[x] = page[x]
  BY <1>1, <1>8 DEF Show, PresenceTypeOK
<1>9. InTurn'
  BY <1>6, <1>7, <1>8 DEF PresenceInv, InTurn
<1>10. QED
  BY <1>1, <1>4, <1>5, <1>9 DEF PresenceInv

LEMMA HideKeepsInv ==
  ASSUME PresenceInv, NEW t \in Tabs, Hide(t)
  PROVE  PresenceInv'
<1>1. PresenceTypeOK /\ PresenceTypeOK'
  BY BrowserIsTyped DEF PresenceInv
<1>2. UNCHANGED <<user, sock, phase, owner, known, joining, rooms, count, spoiled>>
  BY DEF Hide, server
<1>3. Links' /\ Orderly'
  BY <1>2 DEF PresenceInv, Links, Orderly
<1>4. NobodyIsMissing' /\ CountsAreExact'
  BY <1>2, SameCounts
<1>5. \A x \in Tabs, y \in Projects : Holds(x, y)' => Holds(x, y)
  BY <1>2 DEF Holds
<1>6. out'[t] = out[t] \o Bye(t)
  BY <1>1 DEF Hide, PresenceTypeOK
<1>7. ASSUME NEW y \in Projects
      PROVE  /\ Alternates(out'[t], y) /\ LeftAfter(out'[t], y)
             /\ Holds(t, y)' => LeftBefore(out'[t], y) /\ IsLeft(out'[t], y)
  BY <1>1, <1>5, <1>6, ByeSettles DEF PresenceInv
<1>8. ASSUME NEW x \in Tabs, x # t PROVE out'[x] = out[x] /\ page'[x] = page[x]
  BY <1>1, <1>8 DEF Hide, PresenceTypeOK
<1>9. InTurn'
  BY <1>5, <1>7, <1>8 DEF PresenceInv, InTurn
<1>10. QED
  BY <1>1, <1>3, <1>4, <1>9 DEF PresenceInv

LEMMA NothingSent ==
  ASSUME NEW p \in Projects
  PROVE  Alternates(<<>>, p) /\ LeftAfter(<<>>, p)
  BY DEF Alternates, LeftAfter

LEMMA DropKeepsInv ==
  ASSUME PresenceInv, NEW t \in Tabs, Drop(t)
  PROVE  PresenceInv'
<1>1. PresenceTypeOK /\ PresenceTypeOK'
  BY BrowserIsTyped DEF PresenceInv
<1>2. UNCHANGED <<user, page, phase, owner, known, joining, rooms, count, spoiled>>
  BY DEF Drop, server
<1>3. /\ sock'[t] = Nowhere /\ out'[t] = <<>>
      /\ \A x \in Tabs : x # t => sock'[x] = sock[x] /\ out'[x] = out[x]
  BY <1>1 DEF Drop, PresenceTypeOK
<1>4. Links' /\ Orderly'
  BY <1>2, <1>3 DEF PresenceInv, Links, Orderly
<1>5. NobodyIsMissing' /\ CountsAreExact'
  BY <1>2, SameCounts
<1>6. \A y \in Projects : ~ Holds(t, y)'
  BY <1>3 DEF Holds
<1>7. \A x \in Tabs, y \in Projects : Holds(x, y)' => Holds(x, y) /\ x # t
  BY <1>2, <1>3, <1>6 DEF Holds
<1>8. InTurn'
  BY <1>2, <1>3, <1>7, NothingSent DEF PresenceInv, InTurn
<1>9. QED
  BY <1>1, <1>4, <1>5, <1>8 DEF PresenceInv

\* Steps that change neither where a socket is nor what a tab sends.
LEMMA HearKeepsInv ==
  ASSUME PresenceInv, NEW t \in Tabs, Hear(t)
  PROVE  PresenceInv'
<1>1. PresenceTypeOK'
  BY BrowserIsTyped DEF PresenceInv
<1>2. UNCHANGED <<user, page, sock, out, phase, owner, known, joining, rooms, count, spoiled>>
  BY DEF Hear
<1>3. Links' /\ Orderly'
  BY <1>2 DEF PresenceInv, Links, Orderly
<1>4. NobodyIsMissing' /\ CountsAreExact'
  BY <1>2, SameCounts
<1>5. InTurn'
  BY <1>2, SameTurns DEF PresenceInv, Holds
<1>6. QED
  BY <1>1, <1>3, <1>4, <1>5 DEF PresenceInv

-----------------------------------------------------------------------------
(* The steps of the server *)

LEMMA TakeJoinKeepsInv ==
  ASSUME PresenceInv, NEW t \in Tabs, TakeJoin(t)
  PROVE  PresenceInv'
<1> DEFINE s == sock[t]
           p == Head(out[t]).p
<1>1. PresenceTypeOK /\ PresenceTypeOK'
  BY TakingIsTyped DEF PresenceInv
<1>2. UNCHANGED <<user, page, line, sock, phase, owner, known, rooms, count, spoiled>>
  BY DEF TakeJoin
<1>3. /\ s \in Sockets /\ phase[s] = "open" /\ owner[s] = t /\ owner[s] # Nowhere /\ sock[t] = s
      /\ out[t] \in Seq(Message) /\ out[t] # <<>>
      /\ out' = [out EXCEPT ![t] = Tail(@)] /\ Head(out[t]).k = "join"
  BY <1>1, TabsAreSomewhere DEF TakeJoin, Take, PresenceTypeOK, PresenceInv, Links
<1>4. Head(out[t]) \in Message
  BY <1>3
<1>5. p \in Projects /\ Head(out[t]) = JoinOf(p)
  BY <1>3, <1>4 DEF Message, JoinOf
<1>6. joining' = [joining EXCEPT ![s] = [joining[s] EXCEPT ![p] = @ + 1]]
  BY DEF TakeJoin
<1> HIDE DEF p, s
<1>7. /\ joining'[s][p] = joining[s][p] + 1 /\ joining[s][p] \in Nat
      /\ \A r \in Sockets, q \in Projects : r # s \/ q # p => joining'[r][q] = joining[r][q]
  BY <1>1, <1>3, <1>5, <1>6 DEF PresenceTypeOK
<1>8. Links'
  BY <1>2, <1>3, <1>7 DEF PresenceInv, Links
<1>9. ~ Holds(t, p)
  BY <1>3, <1>5, TakeFirst DEF PresenceInv, InTurn
<1>10. s \notin spoiled => joining[s][p] = 0 /\ p \notin rooms[s]
  BY <1>3, <1>7, <1>9, SocketsAreNumbers DEF Holds
<1>11. Orderly'
  <2> SUFFICES ASSUME NEW r \in Sockets \ spoiled
               PROVE  /\ phase[r] # "open" \/ r \notin known => rooms[r] = {}
                      /\ phase[r] = "closed" => \A q \in Projects : joining'[r][q] = 0
                      /\ \A q \in Projects :
                           joining'[r][q] > 0 => joining'[r][q] = 1 /\ q \notin rooms[r]
    BY <1>2 DEF Orderly
  <2>1. QED
    BY <1>3, <1>7, <1>10 DEF PresenceInv, Orderly
<1>12. NobodyIsMissing' /\ CountsAreExact'
  BY <1>2, SameCounts
<1>13. \A x \in Tabs, y \in Projects : Holds(x, y)' => Holds(x, y) \/ (x = t /\ y = p)
  <2> SUFFICES ASSUME NEW x \in Tabs, NEW y \in Projects, Holds(x, y)', ~ (x = t /\ y = p)
               PROVE  Holds(x, y)
    OBVIOUS
  <2>1. sock[x] \in Sockets /\ owner[sock[x]] = x
    BY <1>1, <1>2 DEF Holds, PresenceInv, Links, PresenceTypeOK
  <2>2. joining'[sock[x]][y] = joining[sock[x]][y]
    BY <1>3, <1>7, <2>1
  <2>3. QED
    BY <1>2, <2>2 DEF Holds
<1>14. ASSUME NEW y \in Projects
       PROVE  /\ Alternates(out'[t], y) /\ (page'[t] # y => LeftAfter(out'[t], y))
              /\ Holds(t, y)' => LeftBefore(out'[t], y) /\ (page'[t] # y => IsLeft(out'[t], y))
  <2>1. /\ Alternates(out[t], y) /\ (page[t] # y => LeftAfter(out[t], y))
        /\ Holds(t, y) => LeftBefore(out[t], y) /\ (page[t] # y => IsLeft(out[t], y))
    BY DEF PresenceInv, InTurn
  <2>2. out'[t] = Tail(out[t]) /\ page'[t] = page[t]
    BY <1>1, <1>2, <1>3 DEF PresenceTypeOK
  <2>3. Head(out[t]) # LeaveOf(y) /\ (y = p => Head(out[t]) = JoinOf(y))
    BY <1>5 DEF JoinOf, LeaveOf
  <2>4. CASE y = p
    BY <1>3, <2>1, <2>2, <2>3, <2>4, TakeFirst
  <2>5. CASE y # p
    BY <1>3, <1>13, <2>1, <2>2, <2>3, <2>5, TakeFirst
  <2>6. QED
    BY <2>4, <2>5
<1>15. \A x \in Tabs : x # t => out'[x] = out[x]
  BY <1>1, <1>3 DEF PresenceTypeOK
<1>16. InTurn'
  BY <1>2, <1>13, <1>14, <1>15 DEF PresenceInv, InTurn
<1>17. QED
  BY <1>1, <1>8, <1>11, <1>12, <1>16 DEF PresenceInv

\* The first message of a tab was a leave; the board it names is held no more.
LEMMA TakingALeave ==
  ASSUME PresenceTypeOK, InTurn, NEW t \in Tabs, NEW p \in Projects,
         out[t] \in Seq(Message), out[t] # <<>>, Head(out[t]) = LeaveOf(p),
         out' = [out EXCEPT ![t] = Tail(@)], UNCHANGED page, ~ Holds(t, p)',
         \A x \in Tabs, y \in Projects : Holds(x, y)' => Holds(x, y)
  PROVE  InTurn'
<1>1. ASSUME NEW y \in Projects
      PROVE  /\ Alternates(out'[t], y) /\ (page'[t] # y => LeftAfter(out'[t], y))
             /\ Holds(t, y)' => LeftBefore(out'[t], y) /\ (page'[t] # y => IsLeft(out'[t], y))
  <2>1. /\ Alternates(out[t], y) /\ (page[t] # y => LeftAfter(out[t], y))
        /\ Holds(t, y) => LeftBefore(out[t], y) /\ (page[t] # y => IsLeft(out[t], y))
    BY DEF InTurn
  <2>2. out'[t] = Tail(out[t]) /\ page'[t] = page[t]
    BY DEF PresenceTypeOK
  <2>3. y # p => Head(out[t]) # LeaveOf(y)
    BY DEF LeaveOf
  <2>4. CASE y = p
    BY <2>1, <2>2, <2>4, TakeFirst
  <2>5. CASE y # p
    BY <2>1, <2>2, <2>3, <2>5, TakeFirst
  <2>6. QED
    BY <2>4, <2>5
<1>2. \A x \in Tabs : x # t => out'[x] = out[x]
  BY DEF PresenceTypeOK
<1>3. QED
  BY <1>1, <1>2 DEF InTurn

LEMMA TakeLeaveKeepsInv ==
  ASSUME PresenceInv, NEW t \in Tabs, TakeLeave(t)
  PROVE  PresenceInv'
<1> DEFINE s == sock[t]
<1>1. PresenceTypeOK /\ PresenceTypeOK'
  BY TakingIsTyped DEF PresenceInv
<1>2. UNCHANGED <<user, page, line, sock, phase, owner, known, joining>>
  BY DEF TakeLeave
<1>3. /\ s \in Sockets /\ phase[s] = "open" /\ owner[s] = t /\ t # Nowhere /\ sock[t] = s
      /\ out[t] \in Seq(Message) /\ out[t] # <<>>
      /\ out' = [out EXCEPT ![t] = Tail(@)] /\ Head(out[t]).k = "leave"
  BY <1>1, PresenceAssumption DEF TakeLeave, Take, PresenceTypeOK, PresenceInv, Links
<1>4. Head(out[t]) \in Message
  BY <1>3
<1>5. PICK p \in Projects : p = Head(out[t]).p /\ Head(out[t]) = LeaveOf(p)
  BY <1>3, <1>4 DEF Message, LeaveOf
<1> DEFINE ps == {p} \cap rooms[s]
<1>6. spoiled' = IF s \notin known \/ joining[s][p] > 0 THEN spoiled \cup {s} ELSE spoiled
  BY <1>5 DEF TakeLeave
<1>7. CASE s \in known
  <2>1. rooms' = [rooms EXCEPT ![s] = @ \ ps] /\ count' = CountWithout(ps, Of(s))
    BY <1>5, <1>7 DEF TakeLeave, LeaveRooms
  <2>2. spoiled \subseteq spoiled' /\ spoiled' \subseteq spoiled \cup {s}
    BY <1>6
  <2>3. NobodyIsMissing' /\ CountsAreExact'
    <3>1. ps \in SUBSET rooms[s] /\ owner[s] # Nowhere /\ UNCHANGED <<user, owner>>
      BY <1>2, <1>3
    <3> HIDE DEF ps, s
    <3>2. QED
      BY <1>3, <2>1, <2>2, <3>1, LeavingCounts
  <2>4. /\ p \notin rooms'[s]
        /\ \A r \in Sockets, q \in Projects : q \in rooms'[r] => q \in rooms[r]
        /\ \A r \in Sockets : rooms'[r] \subseteq rooms[r]
    <3>1. \A r \in Sockets : rooms'[r] = IF r = s THEN rooms[s] \ ps ELSE rooms[r]
      BY <1>1, <2>1 DEF PresenceTypeOK
    <3> QED
      BY <1>3, <3>1
  <2> HIDE DEF s, ps
  <2>5. Links'
    BY <1>1, <1>2, <1>3, <2>2, <2>4 DEF PresenceInv, Links, PresenceTypeOK
  <2>6. Orderly'
    BY <1>1, <1>2, <2>2, <2>4 DEF PresenceInv, Orderly, PresenceTypeOK
  <2>7. \A x \in Tabs, y \in Projects : Holds(x, y)' => Holds(x, y)
    BY <1>1, <1>2, <2>2, <2>4 DEF Holds, PresenceTypeOK
  <2>8. ~ Holds(t, p)'
    <3>1. joining[s][p] \in Nat
      BY <1>1, <1>3, <1>5 DEF PresenceTypeOK
    <3>2. s \in spoiled' \/ joining[s][p] = 0
      BY <1>6, <3>1
    <3>3. QED
      BY <1>2, <1>3, <2>4, <3>2 DEF Holds
  <2>9. QED
    BY <1>1, <2>3, <2>5, <2>6, <2>7, <2>8, <1>2, <1>3, <1>5, TakingALeave DEF PresenceInv
<1>8. CASE s \notin known
  <2>1. UNCHANGED <<rooms, count>> /\ spoiled' = spoiled \cup {s}
    BY <1>6, <1>8 DEF TakeLeave
  <2>2. NobodyIsMissing' /\ CountsAreExact'
    BY <1>2, <2>1, SameCounts
  <2> HIDE DEF s
  <2>3. Links' /\ Orderly'
    BY <1>2, <1>3, <2>1 DEF PresenceInv, Links, Orderly
  <2>4. \A x \in Tabs, y \in Projects : Holds(x, y)' => Holds(x, y)
    BY <1>2, <2>1 DEF Holds
  <2>5. ~ Holds(t, p)'
    BY <1>2, <1>3, <2>1 DEF Holds
  <2>6. QED
    BY <1>1, <2>2, <2>3, <2>4, <2>5, <1>2, <1>3, <1>5, TakingALeave DEF PresenceInv
<1>9. QED
  BY <1>7, <1>8

LEMMA ConnectKeepsInv ==
  ASSUME PresenceInv, NEW t \in Tabs, NEW s \in Sockets, Connect(t, s)
  PROVE  PresenceInv'
<1> USE PresenceAssumption, SocketsAreNumbers
<1>1. PresenceTypeOK /\ PresenceTypeOK'
  BY ConnectionsAreTyped DEF PresenceInv
<1>2. UNCHANGED <<user, page, out, known, joining, rooms, count, spoiled>>
  BY DEF Connect
<1>3. /\ owner[s] = Nowhere /\ owner'[s] = t /\ phase'[s] = "open" /\ sock'[t] = s
      /\ \A r \in Sockets : r # s => owner'[r] = owner[r] /\ phase'[r] = phase[r]
      /\ \A x \in Tabs : x # t => sock'[x] = sock[x]
  BY <1>1 DEF Connect, PresenceTypeOK
<1>4. s \notin known \cup spoiled /\ rooms[s] = {} /\ \A p \in Projects : joining[s][p] = 0
  BY <1>3 DEF PresenceInv, Links
<1>5. \A x \in Tabs : sock[x] # s
  BY <1>3, TabsAreSomewhere DEF PresenceInv, Links
<1>6. Links'
  <2>1. \A x \in Tabs : sock'[x] # Nowhere => phase'[sock'[x]] = "open" /\ owner'[sock'[x]] = x
    <3> SUFFICES ASSUME NEW x \in Tabs, x # t, sock'[x] # Nowhere
                 PROVE  phase'[sock'[x]] = "open" /\ owner'[sock'[x]] = x
      BY <1>3
    <3>1. /\ sock'[x] = sock[x] /\ sock[x] \in Sockets /\ sock[x] # s
          /\ phase[sock[x]] = "open" /\ owner[sock[x]] = x
      BY <1>1, <1>3, <1>5 DEF PresenceInv, Links, PresenceTypeOK
    <3>2. QED
      BY <1>3, <3>1
  <2>2. \A r \in Sockets : phase'[r] = "rejected" => r \notin known
    BY <1>3 DEF PresenceInv, Links
  <2>3. \A r \in Sockets : owner'[r] = Nowhere => r # s /\ owner[r] = Nowhere
    BY <1>3, TabsAreSomewhere
  <2>4. QED
    BY <1>2, <2>1, <2>2, <2>3 DEF PresenceInv, Links
<1>7. Orderly'
  BY <1>1, <1>2, <1>3, <1>4 DEF PresenceInv, Orderly, PresenceTypeOK
<1>8. NobodyIsMissing' /\ CountsAreExact'
  BY <1>2, <1>3, SameCounts
<1>9. \A x \in Tabs, y \in Projects : Holds(x, y)' => Holds(x, y)
  BY <1>2, <1>3, <1>4 DEF Holds
<1>10. InTurn'
  BY <1>2, <1>9, SameTurns DEF PresenceInv
<1>11. QED
  BY <1>1, <1>6, <1>7, <1>8, <1>10 DEF PresenceInv

LEMMA GreetKeepsInv ==
  ASSUME PresenceInv, NEW s \in Sockets, Greet(s)
  PROVE  PresenceInv'
<1>1. PresenceTypeOK /\ PresenceTypeOK'
  BY ConnectionsAreTyped DEF PresenceInv
<1>2. /\ UNCHANGED <<user, page, sock, out, phase, owner, joining, rooms, count, spoiled>>
      /\ known' = known \cup {s} /\ phase[s] \in {"open", "closed"} /\ owner[s] # Nowhere
  BY <1>1 DEF Greet, browser, PresenceTypeOK
<1>3. Links' /\ Orderly'
  BY <1>2 DEF PresenceInv, Links, Orderly
<1>4. NobodyIsMissing' /\ CountsAreExact'
  BY <1>2, SameCounts
<1>5. InTurn'
  BY <1>2, SameTurns DEF PresenceInv, Holds
<1>6. QED
  BY <1>1, <1>3, <1>4, <1>5 DEF PresenceInv

LEMMA RejectKeepsInv ==
  ASSUME PresenceInv, NEW s \in Sockets, Reject(s)
  PROVE  PresenceInv'
<1>1. PresenceTypeOK /\ PresenceTypeOK'
  BY ConnectionsAreTyped DEF PresenceInv
<1>2. UNCHANGED <<user, page, owner, known, joining, rooms, count, spoiled>>
  BY DEF Reject
<1>3. /\ phase[s] = "open" /\ s \notin known /\ phase'[s] = "rejected"
      /\ \A r \in Sockets : r # s => phase'[r] = phase[r]
      /\ \A x \in Tabs : sock[x] = s => sock'[x] = Nowhere /\ out'[x] = <<>>
      /\ \A x \in Tabs : sock[x] # s => sock'[x] = sock[x] /\ out'[x] = out[x]
  BY <1>1 DEF Reject, PresenceTypeOK
<1>4. Links'
  BY <1>1, <1>2, <1>3 DEF PresenceInv, Links, PresenceTypeOK
<1>5. Orderly'
  BY <1>2, <1>3 DEF PresenceInv, Orderly
<1>6. NobodyIsMissing' /\ CountsAreExact'
  BY <1>2, SameCounts
<1>7. \A x \in Tabs, y \in Projects : Holds(x, y)' => Holds(x, y) /\ sock[x] # s
  BY <1>2, <1>3 DEF Holds
<1>8. InTurn'
  BY <1>2, <1>3, <1>7, NothingSent DEF PresenceInv, InTurn
<1>9. QED
  BY <1>1, <1>4, <1>5, <1>6, <1>8 DEF PresenceInv

LEMMA DisconnectKeepsInv ==
  ASSUME PresenceInv, NEW s \in Sockets, Disconnect(s)
  PROVE  PresenceInv'
<1>1. PresenceTypeOK /\ PresenceTypeOK'
  BY ConnectionsAreTyped DEF PresenceInv
<1>2. UNCHANGED <<user, page, sock, out, owner, known, joining>>
  BY DEF Disconnect, browser
<1>3. /\ \A x \in Tabs : sock[x] # s
      /\ phase[s] = "open" /\ phase'[s] = "closed" /\ owner[s] # Nowhere
      /\ \A r \in Sockets : r # s => phase'[r] = phase[r]
  BY <1>1 DEF Disconnect, PresenceTypeOK
<1>4. /\ rooms' = [rooms EXCEPT ![s] = @ \ rooms[s]]
      /\ count' = CountWithout(rooms[s], Of(s))
      /\ rooms'[s] = {} /\ \A r \in Sockets : r # s => rooms'[r] = rooms[r]
  <2>1. rooms' = [rooms EXCEPT ![s] = {}] /\ count' = CountWithout(rooms[s], Of(s))
    BY DEF Disconnect
  <2>2. rooms \in [Sockets -> SUBSET Projects] /\ rooms[s] \ rooms[s] = {}
    BY <1>1 DEF PresenceTypeOK
  <2>3. QED
    BY <2>1, <2>2
<1>5. /\ spoiled \subseteq spoiled' /\ spoiled' \subseteq spoiled \cup {s}
      /\ s \in spoiled' \/ \A p \in Projects : joining[s][p] = 0
  <2>1. \A p \in Projects : joining[s][p] \in Nat
    BY <1>1 DEF PresenceTypeOK
  <2>2. QED
    BY <2>1 DEF Disconnect
<1>6. Links'
  BY <1>1, <1>2, <1>3, <1>4, <1>5 DEF PresenceInv, Links, PresenceTypeOK
<1>7. Orderly'
  BY <1>1, <1>2, <1>3, <1>4, <1>5 DEF PresenceInv, Orderly, PresenceTypeOK
<1>8. NobodyIsMissing' /\ CountsAreExact'
  BY <1>2, <1>3, <1>4, <1>5, LeavingCounts
<1>9. \A x \in Tabs, y \in Projects : Holds(x, y)' => Holds(x, y)
  BY <1>1, <1>2, <1>3, <1>4, <1>5 DEF Holds, PresenceTypeOK
<1>10. InTurn'
  BY <1>2, <1>9, SameTurns DEF PresenceInv
<1>11. QED
  BY <1>1, <1>6, <1>7, <1>8, <1>10 DEF PresenceInv

LEMMA FinishJoinKeepsInv ==
  ASSUME PresenceInv, NEW s \in Sockets, NEW p \in Projects, FinishJoin(s, p)
  PROVE  PresenceInv'
<1>1. PresenceTypeOK /\ PresenceTypeOK'
  BY JoiningIsTyped DEF PresenceInv
<1>2. UNCHANGED <<user, page, sock, out, phase, owner, known>> /\ joining[s][p] > 0
  BY DEF FinishJoin, browser
<1>3. /\ joining'[s][p] = joining[s][p] - 1 /\ joining[s][p] \in Nat
      /\ \A r \in Sockets, q \in Projects : r # s \/ q # p => joining'[r][q] = joining[r][q]
  BY <1>1 DEF FinishJoin, PresenceTypeOK
<1>4. owner[s] # Nowhere
  BY <1>2 DEF PresenceInv, Links
<1>5. CASE s \in known
  <2>1. UNCHANGED spoiled /\ rooms' = Entered(s, p) /\ count' = AddPresence(p, Of(s))
    BY <1>5 DEF FinishJoin
  <2>2. NobodyIsMissing' /\ CountsAreExact'
    BY <1>2, <1>4, <2>1, EnteringCounts
  <2>3. /\ rooms'[s] = rooms[s] \cup {p}
        /\ \A r \in Sockets : r # s => rooms'[r] = rooms[r]
    BY <1>1, <2>1 DEF Entered, PresenceTypeOK
  <2>4. Links'
    <3>1. \A r \in Sockets : owner[r] = Nowhere => r # s
      BY <1>4
    <3>2. QED
      BY <1>2, <1>3, <2>1, <2>3, <3>1 DEF PresenceInv, Links
  <2>5. Orderly'
    <3>1. s \notin spoiled => phase[s] = "open" /\ joining'[s][p] = 0
      <4>1. phase[s] \notin {"unused", "rejected"} /\ phase[s] \in {"unused", "open", "closed", "rejected"}
        BY <1>1, <1>4, <1>5 DEF PresenceInv, Links, PresenceTypeOK
      <4>2. s \notin spoiled => phase[s] # "closed" /\ joining[s][p] = 1
        BY <1>2 DEF PresenceInv, Orderly
      <4>3. QED
        BY <1>3, <4>1, <4>2
    <3> SUFFICES ASSUME NEW r \in Sockets \ spoiled
                 PROVE  /\ phase[r] # "open" \/ r \notin known => rooms'[r] = {}
                        /\ phase[r] = "closed" => \A q \in Projects : joining'[r][q] = 0
                        /\ \A q \in Projects :
                             joining'[r][q] > 0 => joining'[r][q] = 1 /\ q \notin rooms'[r]
      BY <1>2, <2>1 DEF Orderly
    <3>2. CASE r = s
      <4>1. \A q \in Projects : q # p /\ joining[s][q] > 0 => joining[s][q] = 1 /\ q \notin rooms[s]
        BY <3>2 DEF PresenceInv, Orderly
      <4>2. QED
        BY <1>3, <1>5, <2>3, <3>1, <3>2, <4>1
    <3>3. CASE r # s
      BY <1>3, <2>3, <3>3 DEF PresenceInv, Orderly
    <3>4. QED
      BY <3>2, <3>3
  <2>6. \A x \in Tabs, y \in Projects : Holds(x, y)' => Holds(x, y)
    <3> SUFFICES ASSUME NEW x \in Tabs, NEW y \in Projects, Holds(x, y)'
                 PROVE  Holds(x, y)
      OBVIOUS
    <3>1. sock[x] \in Sockets
      BY <1>1, <1>2 DEF Holds, PresenceTypeOK
    <3>2. CASE sock[x] = s /\ y = p
      BY <1>2, <2>1, <3>2 DEF Holds
    <3>3. CASE ~ (sock[x] = s /\ y = p)
      <4>1. joining'[sock[x]][y] = joining[sock[x]][y]
        BY <1>3, <3>1, <3>3
      <4>2. y \in rooms'[sock[x]] => y \in rooms[sock[x]]
        BY <2>3, <3>1, <3>3
      <4>3. QED
        BY <1>2, <2>1, <4>1, <4>2 DEF Holds
    <3>4. QED
      BY <3>2, <3>3
  <2>7. InTurn'
    BY <1>2, <2>6, SameTurns DEF PresenceInv
  <2>8. QED
    BY <1>1, <2>2, <2>4, <2>5, <2>7 DEF PresenceInv
<1>6. CASE s \notin known
  <2>1. UNCHANGED <<rooms, count>> /\ spoiled' = spoiled \cup {s}
    BY <1>6 DEF FinishJoin
  <2>2. NobodyIsMissing' /\ CountsAreExact'
    BY <1>2, <2>1, SameCounts
  <2>3. Links' /\ Orderly'
    BY <1>1, <1>2, <1>3, <1>4, <2>1 DEF PresenceInv, Links, Orderly, PresenceTypeOK
  <2>4. \A x \in Tabs, y \in Projects : Holds(x, y)' => Holds(x, y)
    BY <1>1, <1>2, <1>3, <2>1 DEF Holds, PresenceTypeOK
  <2>5. InTurn'
    BY <1>2, <2>4, SameTurns DEF PresenceInv
  <2>6. QED
    BY <1>1, <2>2, <2>3, <2>5 DEF PresenceInv
<1>7. QED
  BY <1>5, <1>6

LEMMA TakeCursorKeepsInv ==
  ASSUME PresenceInv, NEW s \in Sockets, TakeCursor(s)
  PROVE  PresenceInv'
<1>1. PresenceTypeOK'
  BY JoiningIsTyped DEF PresenceInv
<1>2. UNCHANGED <<user, page, sock, out, phase, owner, known, joining, rooms, count, spoiled>>
  BY DEF TakeCursor, browser
<1>3. Links' /\ Orderly'
  BY <1>2 DEF PresenceInv, Links, Orderly
<1>4. NobodyIsMissing' /\ CountsAreExact'
  BY <1>2, SameCounts
<1>5. InTurn'
  BY <1>2, SameTurns DEF PresenceInv, Holds
<1>6. QED
  BY <1>1, <1>3, <1>4, <1>5 DEF PresenceInv

LEMMA StutterKeepsInv ==
  ASSUME PresenceInv, UNCHANGED presenceVars
  PROVE  PresenceInv'
<1>1. UNCHANGED <<user, page, line, sock, out, list, inbox, phase, owner, known, joining, inRoom,
                  rooms, count, spoiled, moves>>
  BY DEF presenceVars, browser, server
<1>2. PresenceTypeOK' /\ Links' /\ Orderly'
  BY <1>1 DEF PresenceInv, PresenceTypeOK, Links, Orderly
<1>3. NobodyIsMissing' /\ CountsAreExact'
  BY <1>1, SameCounts
<1>4. InTurn'
  BY <1>1, SameTurns DEF PresenceInv, Holds
<1>5. QED
  BY <1>2, <1>3, <1>4 DEF PresenceInv

\* A spoiled connection apart, nobody is counted who has no open connection.
LEMMA ExactMeansNoGhosts == PresenceInv => GhostsWereOvertaken
<1> SUFFICES ASSUME PresenceInv, NEW p \in Projects, NEW u \in Users,
                    \A s \in spoiled : Of(s) # u
             PROVE  ~ (count[p][u] > Cardinality({s \in Joined(p, u) : phase[s] = "open"}))
  BY DEF GhostsWereOvertaken
<1>1. \A s \in Joined(p, u) : phase[s] = "open"
  BY DEF PresenceInv, PresenceTypeOK, Orderly, Joined
<1>2. {s \in Joined(p, u) : phase[s] = "open"} = Joined(p, u)
  BY <1>1
<1>3. count[p][u] = Cardinality(Joined(p, u)) /\ count[p][u] \in Nat
  BY DEF PresenceInv, CountsAreExact, PresenceTypeOK
<1>4. QED
  BY <1>2, <1>3

\* The inductive invariant of the gateway and the browser's side of it.
THEOREM RostersAreKept == PresenceSpec => []PresenceInv
<1>1. PresenceInit => PresenceInv
  BY PresenceInvInit
<1>2. PresenceInv /\ [PresenceNext]_presenceVars => PresenceInv'
  BY ShowKeepsInv, HideKeepsInv, DropKeepsInv, HearKeepsInv, TakeJoinKeepsInv, TakeLeaveKeepsInv,
     ConnectKeepsInv, GreetKeepsInv, RejectKeepsInv, DisconnectKeepsInv, TakeCursorKeepsInv,
     FinishJoinKeepsInv, StutterKeepsInv DEF PresenceNext
<1>3. QED
  BY <1>1, <1>2, PTL DEF PresenceSpec

\* Whoever is on a board is on its roster (realtime.gateway.ts:54, 167-186), however joins,
\* leaves and disconnects of any number of connections overlap.
THEOREM NobodyMissing == PresenceSpec => []NobodyIsMissing
<1>1. PresenceInv => NobodyIsMissing
  BY DEF PresenceInv
<1>2. QED
  BY <1>1, RostersAreKept, PTL

\* Whoever is counted too often had a handler of one of his connections overtaken by
\* another (realtime.gateway.ts:90-125): messages alternate, so that one join is counted once
\* and taken back once, unless that happens.
THEOREM GhostsExplained == PresenceSpec => []GhostsWereOvertaken
<1>1. PresenceInv => GhostsWereOvertaken
  BY ExactMeansNoGhosts
<1>2. QED
  BY <1>1, RostersAreKept, PTL
-----------------------------------------------------------------------------
(* What a tab shows *)

\* What a tab sends last is that it joins the board it shows.
LastIsJoin ==
  \A t \in Tabs : page[t] # Nowhere /\ out[t] # <<>> => out[t][Len(out[t])] = JoinOf(page[t])

ListInv == LastIsJoin /\ ListFollowsRoster

LEMMA AfterIsPeople ==
  ASSUME NEW l \in SUBSET Users, NEW e \in Event
  PROVE  /\ After(l, e) \in SUBSET Users
         /\ \A u \in Users : u \in After(l, e) <=> Adds(e, u) \/ (u \in l /\ ~IsAbout(e, u))
<1>1. e.users \subseteq Users /\ e.k \in {"sync", "join", "leave"}
  BY DEF Event
<1>2. CASE e.k = "sync"
  BY <1>1, <1>2 DEF After, Adds, IsAbout
<1>3. CASE e.k = "join"
  BY <1>1, <1>3 DEF After, Adds, IsAbout
<1>4. CASE e.k = "leave"
  BY <1>1, <1>4 DEF After, Adds, IsAbout
<1> QED
  BY <1>1, <1>2, <1>3, <1>4

\* One event more has the effect on what will be shown that it has on a list.
LEMMA HeardMore ==
  ASSUME NEW l \in SUBSET Users, NEW q \in Seq(Event), NEW e \in Event
  PROVE  Heard(l, Append(q, e)) = After(Heard(l, q), e)
<1> DEFINE r == Append(q, e)
           n == Len(q)
<1>1. n \in Nat /\ Len(r) = n + 1 /\ r[n + 1] = e /\ \A i \in 1 .. n : r[i] = q[i]
  OBVIOUS
<1>2. Heard(l, q) \in SUBSET Users
  BY DEF Heard
<1> HIDE DEF r, n
<1>3. ASSUME NEW u \in Users
      PROVE  u \in Heard(l, r) <=> Adds(e, u) \/ (u \in Heard(l, q) /\ ~IsAbout(e, u))
  <2>1. CASE Adds(e, u)
    <3>1. n + 1 \in 1 .. Len(r) /\ \A j \in n + 2 .. Len(r) : ~IsAbout(r[j], u)
      BY <1>1
    <3>2. Adds(r[n + 1], u)
      BY <1>1, <2>1
    <3>3. \E i \in 1 .. Len(r) : Adds(r[i], u) /\ \A j \in i + 1 .. Len(r) : ~IsAbout(r[j], u)
      <4>1. \A j \in (n + 1) + 1 .. Len(r) : ~IsAbout(r[j], u)
        BY <1>1
      <4> QED
        BY <3>1, <3>2, <4>1
    <3> QED
      BY <2>1, <3>3 DEF Heard
  <2>2. CASE ~Adds(e, u) /\ IsAbout(e, u)
    <3>1. n + 1 \in 1 .. Len(r) /\ IsAbout(r[n + 1], u) /\ ~Adds(r[n + 1], u)
      BY <1>1, <2>2
    <3>2. \A i \in 1 .. Len(r) : i # n + 1 => n + 1 \in i + 1 .. Len(r)
      BY <1>1
    <3>3. \A i \in 1 .. Len(r) : ~(Adds(r[i], u) /\ \A j \in i + 1 .. Len(r) : ~IsAbout(r[j], u))
      BY <3>1, <3>2
    <3> QED
      BY <2>2, <3>1, <3>3 DEF Heard
  <2>3. CASE ~Adds(e, u) /\ ~IsAbout(e, u)
    <3>1. (\A i \in 1 .. Len(r) : ~IsAbout(r[i], u)) <=> (\A i \in 1 .. n : ~IsAbout(q[i], u))
      <4>1. \A i \in 1 .. Len(r) : i \in 1 .. n \/ i = n + 1
        BY <1>1
      <4>2. \A i \in 1 .. n : i \in 1 .. Len(r)
        BY <1>1
      <4> QED
        BY <1>1, <2>3, <4>1, <4>2
    <3>2. ASSUME NEW i \in 1 .. n
          PROVE  (\A j \in i + 1 .. Len(r) : ~IsAbout(r[j], u))
                   <=> (\A j \in i + 1 .. n : ~IsAbout(q[j], u))
      <4>1. \A j \in i + 1 .. Len(r) : j = n + 1 \/ (j \in i + 1 .. n /\ r[j] = q[j])
        BY <1>1
      <4>2. \A j \in i + 1 .. n : j \in i + 1 .. Len(r) /\ r[j] = q[j]
        BY <1>1
      <4> QED
        BY <1>1, <2>3, <4>1, <4>2
    <3>3. (\E i \in 1 .. Len(r) : Adds(r[i], u) /\ \A j \in i + 1 .. Len(r) : ~IsAbout(r[j], u))
            <=> (\E i \in 1 .. n : Adds(q[i], u) /\ \A j \in i + 1 .. n : ~IsAbout(q[j], u))
      <4>1. \A i \in 1 .. Len(r) : i = n + 1 \/ (i \in 1 .. n /\ r[i] = q[i])
        BY <1>1
      <4>2. \A i \in 1 .. n : i \in 1 .. Len(r) /\ r[i] = q[i]
        BY <1>1
      <4> QED
        BY <1>1, <2>3, <3>2, <4>1, <4>2
    <3> QED
      BY <2>3, <3>1, <3>3 DEF Heard, n
  <2> QED
    BY <2>1, <2>2, <2>3
<1>4. After(Heard(l, q), e) \in SUBSET Users /\ Heard(l, r) \in SUBSET Users
  BY <1>2, AfterIsPeople DEF Heard
<1>5. \A u \in Users : u \in After(Heard(l, q), e) <=>
                         Adds(e, u) \/ (u \in Heard(l, q) /\ ~IsAbout(e, u))
  BY <1>2, AfterIsPeople
<1> QED
  BY <1>3, <1>4, <1>5 DEF r

\* Hearing the first event changes nothing about what will be shown.
LEMMA HeardFirst ==
  ASSUME NEW l \in SUBSET Users, NEW q \in Seq(Event), q # <<>>
  PROVE  Heard(After(l, Head(q)), Tail(q)) = Heard(l, q)
<1> DEFINE e == Head(q)
           r == Tail(q)
           n == Len(q)
<1>1. /\ n \in Nat /\ n >= 1 /\ Len(r) = n - 1 /\ q[1] = e /\ e \in Event
      /\ \A i \in 1 .. n - 1 : r[i] = q[i + 1]
  OBVIOUS
<1> HIDE DEF e, r, n
<1>2. \A u \in Users : u \in After(l, e) <=> Adds(e, u) \/ (u \in l /\ ~IsAbout(e, u))
  BY <1>1, AfterIsPeople
<1>3. ASSUME NEW u \in Users
      PROVE  u \in Heard(After(l, e), r) <=> u \in Heard(l, q)
  <2> DEFINE LastAdds(s, i) == /\ Adds(s[i], u)
                               /\ \A j \in i + 1 .. Len(s) : ~IsAbout(s[j], u)
  <2>1. ASSUME NEW i \in 1 .. n - 1
        PROVE  LastAdds(r, i) <=> LastAdds(q, i + 1)
    <3>1. \A j \in i + 1 .. Len(r) : j + 1 \in (i + 1) + 1 .. n /\ r[j] = q[j + 1]
      BY <1>1
    <3>2. \A j \in (i + 1) + 1 .. n : j - 1 \in i + 1 .. Len(r) /\ r[j - 1] = q[j]
      BY <1>1
    <3>3. (\A j \in i + 1 .. Len(r) : ~IsAbout(r[j], u))
            <=> (\A j \in (i + 1) + 1 .. n : ~IsAbout(q[j], u))
      BY <3>1, <3>2
    <3> QED
      BY <1>1, <3>3 DEF n
  <2>2. (\A i \in 1 .. Len(r) : ~IsAbout(r[i], u)) <=> (\A j \in 2 .. n : ~IsAbout(q[j], u))
    <3>1. \A i \in 1 .. Len(r) : i + 1 \in 2 .. n /\ r[i] = q[i + 1]
      BY <1>1
    <3>2. \A j \in 2 .. n : j - 1 \in 1 .. Len(r) /\ r[j - 1] = q[j]
      BY <1>1
    <3> QED
      BY <3>1, <3>2
  <2> HIDE DEF LastAdds
  <2>3. (\E i \in 1 .. Len(r) : LastAdds(r, i)) <=> (\E i \in 2 .. n : LastAdds(q, i))
    <3>1. \A i \in 1 .. Len(r) : i + 1 \in 2 .. n /\ (LastAdds(r, i) <=> LastAdds(q, i + 1))
      BY <1>1, <2>1
    <3>2. \A i \in 2 .. n : i - 1 \in 1 .. Len(r) /\ (LastAdds(r, i - 1) <=> LastAdds(q, i))
      <4> SUFFICES ASSUME NEW i \in 2 .. n
                   PROVE  i - 1 \in 1 .. Len(r) /\ (LastAdds(r, i - 1) <=> LastAdds(q, i))
        OBVIOUS
      <4>1. i - 1 \in 1 .. n - 1 /\ (i - 1) + 1 = i
        BY <1>1
      <4>2. LastAdds(r, i - 1) <=> LastAdds(q, (i - 1) + 1)
        BY <2>1, <4>1
      <4> QED
        BY <1>1, <4>1, <4>2
    <3> QED
      BY <3>1, <3>2
  <2>4. u \in Heard(After(l, e), r) <=>
          \/ u \in After(l, e) /\ \A j \in 2 .. n : ~IsAbout(q[j], u)
          \/ \E i \in 2 .. n : LastAdds(q, i)
    BY <2>2, <2>3 DEF Heard, LastAdds
  <2>5. LastAdds(q, 1) <=> Adds(e, u) /\ \A j \in 2 .. n : ~IsAbout(q[j], u)
    BY <1>1 DEF LastAdds, n
  <2>6. (\E i \in 1 .. n : LastAdds(q, i)) <=> LastAdds(q, 1) \/ \E i \in 2 .. n : LastAdds(q, i)
    <3>1. \A i \in 1 .. n : i = 1 \/ i \in 2 .. n
      BY <1>1
    <3>2. 1 \in 1 .. n /\ \A i \in 2 .. n : i \in 1 .. n
      BY <1>1
    <3> QED
      BY <3>1, <3>2
  <2>7. (\A j \in 1 .. n : ~IsAbout(q[j], u))
          <=> ~IsAbout(e, u) /\ \A j \in 2 .. n : ~IsAbout(q[j], u)
    <3>1. \A i \in 1 .. n : i = 1 \/ i \in 2 .. n
      BY <1>1
    <3>2. 1 \in 1 .. n /\ \A i \in 2 .. n : i \in 1 .. n
      BY <1>1
    <3> QED
      BY <1>1, <3>1, <3>2
  <2>8. u \in Heard(l, q) <=>
          \/ u \in l /\ \A j \in 1 .. n : ~IsAbout(q[j], u)
          \/ \E i \in 1 .. n : LastAdds(q, i)
    BY DEF Heard, LastAdds, n
  <2> QED
    BY <1>2, <2>4, <2>5, <2>6, <2>7, <2>8
<1>4. Heard(After(l, e), r) \subseteq Users /\ Heard(l, q) \subseteq Users
  BY DEF Heard
<1> QED
  BY <1>3, <1>4 DEF e, r

LEMMA ListInvInit == PresenceInit => ListInv
  BY DEF PresenceInit, ListInv, LastIsJoin, ListFollowsRoster

\* A tab whose list is to follow the roster, and what is known of it.
Settled(t) ==
  /\ line[t] = "up" /\ sock[t] \notin spoiled /\ out[t] = <<>>
  /\ page[t] # Nowhere /\ rooms[sock[t]] = {page[t]} /\ inRoom[sock[t]] = rooms[sock[t]]

LEMMA SettledIs ==
  ASSUME PresenceInv, NEW t \in Tabs, Settled(t)
  PROVE  /\ sock[t] \in Sockets /\ phase[sock[t]] = "open" /\ owner[sock[t]] = t
         /\ page[t] \in Projects /\ list[t] \in SUBSET Users /\ inbox[sock[t]] \in Seq(Event)
         /\ \A p \in Projects : sock[t] \in InRoom(p) <=> p = page[t]
<1>1. /\ sock[t] \in Sockets /\ page[t] \in Projects
      /\ list[t] \in SUBSET Users /\ inbox[sock[t]] \in Seq(Event)
  BY DEF PresenceInv, PresenceTypeOK, Settled
<1>2. phase[sock[t]] = "open" /\ owner[sock[t]] = t
  BY <1>1, SocketsAreNumbers DEF PresenceInv, Links
<1>3. inRoom[sock[t]] = {page[t]}
  BY DEF Settled
<1> QED
  BY <1>1, <1>2, <1>3 DEF InRoom

\* The tabs that were settled before, and whose list, channel and roster are what they were.
LEMMA NobodyIsConcerned ==
  ASSUME ListFollowsRoster,
         \A t \in Tabs : Settled(t)' =>
           /\ Settled(t) /\ page'[t] = page[t]
           /\ Heard(list'[t], inbox'[sock'[t]]) = Heard(list[t], inbox[sock[t]])
           /\ Roster(page[t])' = Roster(page[t])
  PROVE  ListFollowsRoster'
<1> SUFFICES ASSUME NEW t \in Tabs, Settled(t)'
             PROVE  Heard(list'[t], inbox'[sock'[t]]) = Roster(page[t])'
  BY DEF ListFollowsRoster, Settled
<1>1. Heard(list[t], inbox[sock[t]]) = Roster(page[t])
  BY DEF ListFollowsRoster, Settled
<1> QED
  BY <1>1

\* Nothing happens to the server, and a tab that is settled was so before.
LEMMA BrowserKeepsLists ==
  ASSUME PresenceInv, ListFollowsRoster, UNCHANGED <<inbox, count>>,
         \A t \in Tabs : Settled(t)' =>
           Settled(t) /\ page'[t] = page[t] /\ list'[t] = list[t] /\ sock'[t] = sock[t]
  PROVE  ListFollowsRoster'
<1>1. \A p : Roster(p)' = Roster(p)
  BY DEF Roster
<1> QED
  BY <1>1, NobodyIsConcerned

LEMMA ShowKeepsLists ==
  ASSUME PresenceInv, ListInv, NEW t \in Tabs, NEW p \in Projects, Show(t, p)
  PROVE  ListInv'
<1>1. PresenceTypeOK
  BY DEF PresenceInv
<1>2. /\ UNCHANGED <<inbox, count, rooms, inRoom, spoiled>> /\ page' = [page EXCEPT ![t] = p]
      /\ \A x \in Tabs : x # t => /\ page'[x] = page[x] /\ list'[x] = list[x] /\ out'[x] = out[x]
                                  /\ line'[x] = line[x] /\ sock'[x] = sock[x]
  BY <1>1 DEF Show, server, PresenceTypeOK
<1>3. out'[t] # <<>> /\ out'[t][Len(out'[t])] = JoinOf(p)
  <2>1. CASE line[t] = "up"
    <3> DEFINE q == out[t] \o Bye(t)
    <3>1. q \in Seq(Message)
      <4>1. out[t] \in Seq(Message) /\ Bye(t) \in Seq(Message)
        BY <1>1, MessagesAreTyped DEF PresenceTypeOK
      <4> QED
        BY <4>1
    <3>2. out'[t] = q \o <<JoinOf(p)>>
      BY <1>1, <2>1 DEF Show, PresenceTypeOK, Hello, JoinOf
    <3> HIDE DEF q
    <3> QED
      BY <3>1, <3>2
  <2>2. CASE line[t] # "up"
    <3>1. out'[t] = <<JoinOf(p)>>
      BY <1>1, <2>2 DEF Show, PresenceTypeOK, Hello, JoinOf
    <3> QED
      BY <3>1
  <2> QED
    BY <2>1, <2>2
<1>4. LastIsJoin'
  BY <1>1, <1>2, <1>3 DEF ListInv, LastIsJoin, PresenceTypeOK
<1>5. \A x \in Tabs : Settled(x)' => x # t
  BY <1>3 DEF Settled
<1>6. ListFollowsRoster'
  BY <1>2, <1>5, BrowserKeepsLists DEF ListInv, Settled
<1> QED
  BY <1>4, <1>6 DEF ListInv

LEMMA HideKeepsLists ==
  ASSUME PresenceInv, ListInv, NEW t \in Tabs, Hide(t) \/ Drop(t)
  PROVE  ListInv'
<1>1. PresenceTypeOK
  BY DEF PresenceInv
<1>2. /\ UNCHANGED <<inbox, count, rooms, inRoom, spoiled>>
      /\ \A x \in Tabs : x # t => /\ page'[x] = page[x] /\ list'[x] = list[x] /\ out'[x] = out[x]
                                  /\ line'[x] = line[x] /\ sock'[x] = sock[x]
  BY <1>1 DEF Hide, Drop, server, PresenceTypeOK
<1>3. page'[t] = Nowhere \/ (out'[t] = <<>> /\ line'[t] = "dialing")
  BY <1>1 DEF Hide, Drop, PresenceTypeOK
<1>4. LastIsJoin'
  BY <1>2, <1>3 DEF ListInv, LastIsJoin
<1>5. \A x \in Tabs : Settled(x)' => x # t
  BY <1>3 DEF Settled
<1>6. ListFollowsRoster'
  BY <1>2, <1>5, BrowserKeepsLists DEF ListInv, Settled
<1> QED
  BY <1>4, <1>6 DEF ListInv

LEMMA HearKeepsLists ==
  ASSUME PresenceInv, ListInv, NEW t \in Tabs, Hear(t)
  PROVE  ListInv'
<1>1. PresenceTypeOK
  BY DEF PresenceInv
<1>2. UNCHANGED <<page, line, sock, out, rooms, inRoom, spoiled, count>>
  BY DEF Hear
<1>3. LastIsJoin'
  BY <1>2 DEF ListInv, LastIsJoin
<1>4. ASSUME NEW x \in Tabs, Settled(x)'
      PROVE  /\ Settled(x) /\ page'[x] = page[x]
             /\ Heard(list'[x], inbox'[sock'[x]]) = Heard(list[x], inbox[sock[x]])
             /\ Roster(page[x])' = Roster(page[x])
  <2>1. Settled(x) /\ page'[x] = page[x] /\ Roster(page[x])' = Roster(page[x])
    BY <1>2, <1>4 DEF Settled, Roster
  <2> DEFINE q == inbox[sock[x]]
  <2>2. /\ sock[x] \in Sockets /\ owner[sock[x]] = x /\ list[x] \in SUBSET Users
        /\ q \in Seq(Event)
    BY <2>1, SettledIs
  <2>3. CASE x = t
    <3>1. q # <<>> /\ page[x] # Nowhere
      BY <2>1, <2>3 DEF Hear, Settled
    <3>2. list'[x] = After(list[x], Head(q)) /\ inbox'[sock'[x]] = Tail(q)
      BY <1>1, <1>2, <2>2, <2>3, <3>1 DEF Hear, PresenceTypeOK
    <3> HIDE DEF q
    <3>3. Heard(list'[x], inbox'[sock'[x]]) = Heard(list[x], q)
      BY <2>2, <3>1, <3>2, HeardFirst
    <3> QED
      BY <2>1, <3>3 DEF q
  <2>4. CASE x # t
    <3>1. sock[t] \in Sockets /\ owner[sock[t]] = t
      BY <1>1, SocketsAreNumbers DEF Hear, PresenceTypeOK, PresenceInv, Links
    <3>2. sock[x] # sock[t]
      BY <2>2, <2>4, <3>1
    <3>3. list'[x] = list[x] /\ inbox'[sock[x]] = inbox[sock[x]]
      BY <1>1, <2>2, <2>4, <3>2 DEF Hear, PresenceTypeOK
    <3> QED
      BY <1>2, <2>1, <3>3
  <2> QED
    BY <2>3, <2>4
<1>5. ListFollowsRoster'
  BY <1>4, NobodyIsConcerned DEF ListInv
<1> QED
  BY <1>3, <1>5 DEF ListInv

\* The first message of a queue with nothing behind it is its last.
LEMMA OnlyOne ==
  ASSUME NEW q \in Seq(Message), q # <<>>, Tail(q) = <<>>
  PROVE  Head(q) = q[Len(q)]
<1>1. Len(q) = 1
  <2>1. Len(Tail(q)) = Len(q) - 1 /\ Len(q) \in Nat
    OBVIOUS
  <2>2. \A r \in Seq(Message) : r = <<>> => Len(r) = 0
    OBVIOUS
  <2>3. Tail(q) \in Seq(Message)
    OBVIOUS
  <2> QED
    BY <2>1, <2>2, <2>3
<1> QED
  BY <1>1

\* What remains of a queue after its first message ends as the queue does.
LEMMA RestEndsAlike ==
  ASSUME NEW q \in Seq(Message), q # <<>>, Tail(q) # <<>>
  PROVE  Tail(q)[Len(Tail(q))] = q[Len(q)]
  OBVIOUS

LEMMA TakingKeepsLast ==
  ASSUME PresenceTypeOK, LastIsJoin, NEW t \in Tabs, out[t] # <<>>,
         out' = [out EXCEPT ![t] = Tail(@)], UNCHANGED page
  PROVE  LastIsJoin'
<1> SUFFICES ASSUME NEW x \in Tabs, page[x] # Nowhere, out'[x] # <<>>
             PROVE  out'[x][Len(out'[x])] = JoinOf(page[x])
  BY DEF LastIsJoin
<1>1. CASE x = t
  <2>1. out'[t] = Tail(out[t]) /\ out[t] \in Seq(Message)
    BY DEF PresenceTypeOK
  <2> QED
    BY <1>1, <2>1, RestEndsAlike DEF LastIsJoin
<1>2. CASE x # t
  BY <1>2 DEF LastIsJoin, PresenceTypeOK
<1> QED
  BY <1>1, <1>2

LEMMA TakeJoinKeepsLists ==
  ASSUME PresenceInv, ListInv, NEW t \in Tabs, TakeJoin(t)
  PROVE  ListInv'
<1>1. PresenceTypeOK /\ PresenceTypeOK'
  BY TakingIsTyped DEF PresenceInv
<1>2. /\ UNCHANGED <<page, line, sock, list, inbox, rooms, inRoom, count, spoiled>>
      /\ out' = [out EXCEPT ![t] = Tail(@)] /\ out[t] # <<>> /\ Head(out[t]).k = "join"
      /\ line[t] = "up" /\ sock[t] \in Sockets
  BY <1>1 DEF TakeJoin, Take, PresenceTypeOK
<1>3. LastIsJoin'
  BY <1>1, <1>2, TakingKeepsLast DEF ListInv
<1>4. ~Settled(t)'
  <2> SUFFICES ASSUME Settled(t)' PROVE FALSE
    OBVIOUS
  <2>1. /\ page[t] \in Projects /\ sock[t] \notin spoiled /\ rooms[sock[t]] = {page[t]}
        /\ Tail(out[t]) = <<>> /\ out[t] \in Seq(Message)
    BY <1>1, <1>2 DEF Settled, PresenceTypeOK
  <2>2. Head(out[t]) = JoinOf(page[t])
    <3>1. Head(out[t]) = out[t][Len(out[t])]
      BY <1>2, <2>1, OnlyOne
    <3>2. page[t] # Nowhere
      BY <2>1, PresenceAssumption
    <3> QED
      BY <1>2, <3>1, <3>2 DEF ListInv, LastIsJoin
  <2>3. Holds(t, page[t])
    BY <1>2, <2>1, SocketsAreNumbers DEF Holds
  <2>4. LeftBefore(out[t], page[t])
    BY <2>1, <2>3 DEF PresenceInv, InTurn
  <2> QED
    BY <1>2, <2>1, <2>2, <2>4, TakeFirst
<1>5. \A x \in Tabs : x # t => out'[x] = out[x]
  BY <1>1, <1>2 DEF PresenceTypeOK
<1>6. ListFollowsRoster'
  BY <1>2, <1>4, <1>5, BrowserKeepsLists DEF ListInv, Settled
<1> QED
  BY <1>3, <1>6 DEF ListInv

LEMMA ConnectKeepsLists ==
  ASSUME PresenceInv, ListInv, NEW t \in Tabs, NEW s \in Sockets, Connect(t, s)
  PROVE  ListInv'
<1>1. PresenceTypeOK
  BY DEF PresenceInv
<1>2. /\ UNCHANGED <<page, out, list, inbox, rooms, inRoom, count, spoiled>>
      /\ sock'[t] = s /\ owner[s] = Nowhere
      /\ \A x \in Tabs : x # t => sock'[x] = sock[x] /\ line'[x] = line[x]
  BY <1>1 DEF Connect, PresenceTypeOK
<1>3. LastIsJoin'
  BY <1>2 DEF ListInv, LastIsJoin
<1>4. rooms[s] = {}
  BY <1>2 DEF PresenceInv, Links
<1>5. ~Settled(t)'
  BY <1>2, <1>4 DEF Settled
<1>6. ListFollowsRoster'
  BY <1>2, <1>5, BrowserKeepsLists DEF ListInv, Settled
<1> QED
  BY <1>3, <1>6 DEF ListInv

LEMMA GreetKeepsLists ==
  ASSUME PresenceInv, ListInv, NEW s \in Sockets, Greet(s)
  PROVE  ListInv'
<1>1. UNCHANGED <<page, line, sock, out, list, inbox, rooms, inRoom, count, spoiled>>
  BY DEF Greet, browser
<1>2. LastIsJoin'
  BY <1>1 DEF ListInv, LastIsJoin
<1>3. ListFollowsRoster'
  BY <1>1, BrowserKeepsLists DEF ListInv, Settled
<1> QED
  BY <1>2, <1>3 DEF ListInv

LEMMA RejectKeepsLists ==
  ASSUME PresenceInv, ListInv, NEW s \in Sockets, Reject(s)
  PROVE  ListInv'
<1>1. PresenceTypeOK
  BY DEF PresenceInv
<1>2. /\ UNCHANGED <<page, list, rooms, count, spoiled>>
      /\ \A x \in Tabs : sock[x] = s => line'[x] = "refused" /\ out'[x] = <<>>
      /\ \A x \in Tabs : sock[x] # s =>
           sock'[x] = sock[x] /\ line'[x] = line[x] /\ out'[x] = out[x]
      /\ \A r \in Sockets : r # s => inbox'[r] = inbox[r] /\ inRoom'[r] = inRoom[r]
  BY <1>1 DEF Reject, PresenceTypeOK
<1>3. LastIsJoin'
  BY <1>2 DEF ListInv, LastIsJoin
<1>4. ASSUME NEW x \in Tabs, Settled(x)'
      PROVE  /\ Settled(x) /\ page'[x] = page[x]
             /\ Heard(list'[x], inbox'[sock'[x]]) = Heard(list[x], inbox[sock[x]])
             /\ Roster(page[x])' = Roster(page[x])
  <2>1. sock[x] # s /\ sock'[x] = sock[x] /\ line'[x] = line[x] /\ out'[x] = out[x]
    BY <1>2, <1>4 DEF Settled
  <2>2. sock[x] \in Sockets
    BY <1>1, <1>4, <2>1 DEF Settled, PresenceTypeOK
  <2>3. inbox'[sock[x]] = inbox[sock[x]] /\ inRoom'[sock[x]] = inRoom[sock[x]]
    BY <1>2, <2>1, <2>2
  <2>4. Settled(x)
    BY <1>2, <1>4, <2>1, <2>3 DEF Settled
  <2> QED
    BY <1>2, <2>1, <2>3, <2>4 DEF Roster
<1>5. ListFollowsRoster'
  BY <1>4, NobodyIsConcerned DEF ListInv
<1> QED
  BY <1>3, <1>5 DEF ListInv

\* What those in a room are told when somebody else leaves it is what becomes of its roster.
LEMMA FarewellTells ==
  ASSUME PresenceInv, NEW t \in Tabs, Settled(t), NEW s \in Sockets, s # sock[t],
         owner[s] # Nowhere, NEW ps \in SUBSET Projects,
         Heard(list[t], inbox[sock[t]]) = Roster(page[t])
  PROVE  Heard(list[t], inbox[sock[t]] \o Farewell(s, ps, sock[t]))
           = {u \in Users : CountWithout(ps, Of(s))[page[t]][u] > 0}
<1> DEFINE r == sock[t]
           p == page[t]
           v == Of(s)
           bye == [k |-> "leave", users |-> {v}]
           gone == {y \in ps : r # s /\ r \in InRoom(y) /\ count[y][v] = 1}
<1>1. /\ r \in Sockets /\ p \in Projects /\ list[t] \in SUBSET Users /\ inbox[r] \in Seq(Event)
      /\ \A y \in Projects : r \in InRoom(y) <=> y = p
  BY SettledIs
<1>2. v \in Users /\ count \in [Projects -> [Users -> Nat]]
  BY DEF Of, PresenceInv, PresenceTypeOK
<1>3. bye \in Event
  BY <1>2 DEF Event
<1>4. \A u \in Users : CountWithout(ps, v)[p][u] =
        IF u = v /\ p \in ps /\ count[p][u] > 0 THEN count[p][u] - 1 ELSE count[p][u]
  BY <1>1, <1>2 DEF CountWithout
<1>5. Farewell(s, ps, r) = [i \in 1 .. Cardinality(gone) |-> bye]
  BY DEF Farewell
<1> HIDE DEF v, bye, gone, r, p
<1>6. CASE p \in ps /\ count[p][v] = 1
  <2>1. gone = {p}
    BY <1>1, <1>6 DEF gone, r
  <2>2. Cardinality(gone) = 1
    BY <2>1, FS_Singleton
  <2>3. Farewell(s, ps, r) = <<bye>>
    BY <1>5, <2>2
  <2>4. inbox[r] \o Farewell(s, ps, r) = Append(inbox[r], bye)
    BY <1>1, <1>3, <2>3
  <2>5. Heard(list[t], Append(inbox[r], bye)) = After(Heard(list[t], inbox[r]), bye)
    BY <1>1, <1>3, HeardMore
  <2>6. After(Roster(p), bye) = Roster(p) \ {v}
    BY DEF After, bye
  <2>7. Roster(p) \ {v} = {u \in Users : CountWithout(ps, v)[p][u] > 0}
    BY <1>2, <1>4, <1>6 DEF Roster
  <2> QED
    BY <2>4, <2>5, <2>6, <2>7 DEF r, p, v
<1>7. CASE ~(p \in ps /\ count[p][v] = 1)
  <2>1. gone = {}
    BY <1>1, <1>7 DEF gone
  <2>2. Cardinality(gone) = 0
    BY <2>1, FS_EmptySet
  <2>3. Farewell(s, ps, r) = <<>>
    BY <1>5, <2>2
  <2>4. inbox[r] \o Farewell(s, ps, r) = inbox[r]
    BY <1>1, <2>3
  <2>5. Roster(p) = {u \in Users : CountWithout(ps, v)[p][u] > 0}
    <3>1. \A u \in Users : count[p][u] \in Nat
      BY <1>1, <1>2
    <3>2. \A u \in Users : CountWithout(ps, v)[p][u] > 0 <=> count[p][u] > 0
      BY <1>4, <1>7, <3>1
    <3> QED
      BY <3>2 DEF Roster
  <2> QED
    BY <2>4, <2>5 DEF r, p, v
<1> QED
  BY <1>6, <1>7

\* Somebody leaves rooms whose tab is not settled afterwards.
LEMMA LeavingKeepsLists ==
  ASSUME PresenceInv, PresenceTypeOK', ListFollowsRoster, NEW s \in Sockets, owner[s] # Nowhere,
         NEW ps \in SUBSET Projects, UNCHANGED <<page, list, sock, line>>,
         count' = CountWithout(ps, Of(s)), spoiled \subseteq spoiled',
         \A r \in Sockets : r # s => /\ inbox'[r] = inbox[r] \o Farewell(s, ps, r)
                                     /\ inRoom'[r] = inRoom[r] /\ rooms'[r] = rooms[r],
         \A t \in Tabs : Settled(t)' => sock[t] # s /\ out'[t] = out[t]
  PROVE  ListFollowsRoster'
<1> SUFFICES ASSUME NEW t \in Tabs, Settled(t)'
             PROVE  Heard(list'[t], inbox'[sock'[t]]) = Roster(page[t])'
  BY DEF ListFollowsRoster, Settled
<1>1. sock[t] \in Sockets /\ sock[t] # s
  <2>1. line[t] = "up" /\ PresenceTypeOK
    BY DEF Settled, PresenceInv
  <2> QED
    BY <2>1 DEF PresenceTypeOK
<1>2. Settled(t)
  BY <1>1 DEF Settled
<1>3. Heard(list[t], inbox[sock[t]]) = Roster(page[t])
  BY <1>2 DEF ListFollowsRoster, Settled
<1>4. Heard(list[t], inbox[sock[t]] \o Farewell(s, ps, sock[t]))
           = {u \in Users : CountWithout(ps, Of(s))[page[t]][u] > 0}
  BY <1>1, <1>2, <1>3, FarewellTells
<1>5. Roster(page[t])' = {u \in Users : count'[page[t]][u] > 0}
  BY DEF Roster
<1> QED
  BY <1>1, <1>4, <1>5

LEMMA TakeLeaveKeepsLists ==
  ASSUME PresenceInv, ListInv, NEW t \in Tabs, TakeLeave(t)
  PROVE  ListInv'
<1> DEFINE s == sock[t]
           ps == {Head(out[t]).p} \cap rooms[s]
<1>1. PresenceTypeOK /\ PresenceTypeOK'
  BY TakingIsTyped DEF PresenceInv
<1>2. /\ UNCHANGED <<page, line, sock, list>>
      /\ out' = [out EXCEPT ![t] = Tail(@)] /\ out[t] # <<>> /\ Head(out[t]).k = "leave"
      /\ s \in Sockets /\ out[t] \in Seq(Message) /\ spoiled \subseteq spoiled'
      /\ \A x \in Tabs : x # t => out'[x] = out[x]
  BY <1>1 DEF TakeLeave, Take, PresenceTypeOK
<1>3. LastIsJoin'
  BY <1>1, <1>2, TakingKeepsLast DEF ListInv
<1>4. ~Settled(t)'
  <2> SUFFICES ASSUME Settled(t)' PROVE FALSE
    OBVIOUS
  <2>1. page[t] # Nowhere /\ Tail(out[t]) = <<>>
    BY <1>1, <1>2 DEF Settled, PresenceTypeOK
  <2>2. Head(out[t]) = out[t][Len(out[t])]
    BY <1>2, <2>1, OnlyOne
  <2>3. Head(out[t]) = JoinOf(page[t])
    BY <1>2, <2>1, <2>2 DEF ListInv, LastIsJoin
  <2> QED
    BY <1>2, <2>3 DEF JoinOf
<1>5. owner[s] = t /\ owner[s] # Nowhere
  BY <1>2, SocketsAreNumbers, TabsAreSomewhere DEF PresenceInv, Links
<1>6. \A x \in Tabs : Settled(x)' => sock[x] # s /\ out'[x] = out[x]
  <2> SUFFICES ASSUME NEW x \in Tabs, Settled(x)' PROVE sock[x] # s /\ out'[x] = out[x]
    OBVIOUS
  <2>1. x # t
    BY <1>4
  <2>2. sock[x] \in Sockets => owner[sock[x]] = x
    BY SocketsAreNumbers DEF PresenceInv, Links
  <2> QED
    BY <1>2, <1>5, <2>1, <2>2
<1>7. CASE s \in known
  <2>1. /\ count' = CountWithout(ps, Of(s))
        /\ inbox' = [r \in Sockets |-> inbox[r] \o Farewell(s, ps, r)]
        /\ inRoom' = [inRoom EXCEPT ![s] = @ \ ps] /\ rooms' = [rooms EXCEPT ![s] = @ \ ps]
    BY <1>7 DEF TakeLeave, LeaveRooms
  <2>2. \A r \in Sockets : r # s => /\ inbox'[r] = inbox[r] \o Farewell(s, ps, r)
                                    /\ inRoom'[r] = inRoom[r] /\ rooms'[r] = rooms[r]
    BY <1>1, <2>1 DEF PresenceTypeOK
  <2>3. ps \in SUBSET Projects
    BY <1>1, <1>2 DEF PresenceTypeOK
  <2> HIDE DEF s, ps
  <2>4. ListFollowsRoster'
    BY <1>1, <1>2, <1>5, <1>6, <2>1, <2>2, <2>3, LeavingKeepsLists DEF ListInv
  <2> QED
    BY <1>3, <2>4 DEF ListInv
<1>8. CASE s \notin known
  <2>1. UNCHANGED <<inbox, inRoom, rooms, count>>
    BY <1>8 DEF TakeLeave
  <2> HIDE DEF s, ps
  <2>2. ListFollowsRoster'
    BY <1>2, <1>6, <2>1, BrowserKeepsLists DEF ListInv, Settled
  <2> QED
    BY <1>3, <2>2 DEF ListInv
<1> QED
  BY <1>7, <1>8

LEMMA DisconnectKeepsLists ==
  ASSUME PresenceInv, ListInv, NEW s \in Sockets, Disconnect(s)
  PROVE  ListInv'
<1>1. PresenceTypeOK /\ PresenceTypeOK'
  BY ConnectionsAreTyped DEF PresenceInv
<1>2. /\ UNCHANGED <<page, line, sock, out, list>> /\ spoiled \subseteq spoiled'
      /\ \A x \in Tabs : sock[x] # s
      /\ phase[s] = "open" /\ count' = CountWithout(rooms[s], Of(s))
  BY DEF Disconnect, browser
<1>3. owner[s] # Nowhere /\ rooms[s] \in SUBSET Projects
  BY <1>1, <1>2 DEF PresenceTypeOK
<1>4. \A r \in Sockets : r # s => /\ inbox'[r] = inbox[r] \o Farewell(s, rooms[s], r)
                                  /\ inRoom'[r] = inRoom[r] /\ rooms'[r] = rooms[r]
  BY <1>1 DEF Disconnect, PresenceTypeOK
<1>5. LastIsJoin'
  BY <1>2 DEF ListInv, LastIsJoin
<1>6. ListFollowsRoster'
  BY <1>1, <1>2, <1>3, <1>4, LeavingKeepsLists DEF ListInv
<1> QED
  BY <1>5, <1>6 DEF ListInv

\* Those in the room hear of whoever is told to have joined it.
LEMMA WelcomeTells ==
  ASSUME PresenceInv, NEW t \in Tabs, Settled(t), NEW v \in Users,
         Heard(list[t], inbox[sock[t]]) = Roster(page[t])
  PROVE  Heard(list[t], Append(inbox[sock[t]], [k |-> "join", users |-> {v}]))
           = Roster(page[t]) \cup {v}
<1> DEFINE e == [k |-> "join", users |-> {v}]
<1>1. e \in Event /\ list[t] \in SUBSET Users /\ inbox[sock[t]] \in Seq(Event)
  BY SettledIs DEF Event
<1>2. After(Roster(page[t]), e) = Roster(page[t]) \cup {v}
  BY DEF After
<1> HIDE DEF e
<1>3. Heard(list[t], Append(inbox[sock[t]], e)) = After(Heard(list[t], inbox[sock[t]]), e)
  BY <1>1, HeardMore
<1> QED
  BY <1>2, <1>3 DEF e

LEMMA TakeCursorKeepsLists ==
  ASSUME PresenceInv, ListInv, NEW s \in Sockets, TakeCursor(s)
  PROVE  ListInv'
<1>1. PresenceTypeOK
  BY DEF PresenceInv
<1>2. UNCHANGED <<page, line, sock, out, list, rooms, inRoom, count, spoiled>> /\ phase[s] = "open"
  BY DEF TakeCursor, browser
<1>3. PICK p \in rooms[s] : /\ count[p][Of(s)] > 0
                            /\ inbox' = Sent(InRoom(p) \ {s}, [k |-> "join", users |-> {Of(s)}])
  BY DEF TakeCursor
<1>4. p \in Projects /\ Of(s) \in Users
  BY <1>1, <1>2 DEF PresenceTypeOK, Of
<1>5. LastIsJoin'
  BY <1>2 DEF ListInv, LastIsJoin
<1>6. ListFollowsRoster'
  <2> SUFFICES ASSUME NEW t \in Tabs, Settled(t)'
               PROVE  Heard(list'[t], inbox'[sock'[t]]) = Roster(page[t])'
    BY DEF ListFollowsRoster, Settled
  <2>1. Settled(t) /\ Roster(page[t])' = Roster(page[t])
    BY <1>2 DEF Settled, Roster
  <2>2. /\ sock[t] \in Sockets /\ \A y \in Projects : sock[t] \in InRoom(y) <=> y = page[t]
    BY <2>1, SettledIs
  <2>3. Heard(list[t], inbox[sock[t]]) = Roster(page[t])
    BY <2>1 DEF ListInv, ListFollowsRoster, Settled
  <2>4. CASE p = page[t] /\ sock[t] # s
    <3>1. inbox'[sock[t]] = Append(inbox[sock[t]], [k |-> "join", users |-> {Of(s)}])
      BY <1>3, <1>4, <2>2, <2>4 DEF Sent
    <3>2. Roster(page[t]) \cup {Of(s)} = Roster(page[t])
      BY <1>3, <1>4, <2>4 DEF Roster
    <3> QED
      BY <1>2, <1>4, <2>1, <2>3, <3>1, <3>2, WelcomeTells
  <2>5. CASE ~(p = page[t] /\ sock[t] # s)
    <3>1. inbox'[sock[t]] = inbox[sock[t]]
      BY <1>3, <1>4, <2>2, <2>5 DEF Sent
    <3> QED
      BY <1>2, <2>1, <2>3, <3>1
  <2> QED
    BY <2>4, <2>5
<1> QED
  BY <1>5, <1>6 DEF ListInv

LEMMA FinishJoinKeepsLists ==
  ASSUME PresenceInv, ListInv, NEW s \in Sockets, NEW p \in Projects, FinishJoin(s, p)
  PROVE  ListInv'
<1> DEFINE v == Of(s)
           sync == [k |-> "sync", users |-> Roster(p) \cup {v}]
           join == [k |-> "join", users |-> {v}]
<1>1. PresenceTypeOK
  BY DEF PresenceInv
<1>2. /\ UNCHANGED <<page, line, sock, out, list, phase>> /\ joining[s][p] > 0
      /\ \A r \in Sockets : r # s => inRoom'[r] = inRoom[r]
  BY <1>1 DEF FinishJoin, browser, PresenceTypeOK
<1>3. owner[s] # Nowhere
  BY <1>2 DEF PresenceInv, Links
<1>4. v \in Users
  BY <1>1, <1>3 DEF PresenceTypeOK, Of
<1>5. LastIsJoin'
  BY <1>2 DEF ListInv, LastIsJoin
<1>6. CASE s \in known
  <2>1. /\ UNCHANGED spoiled /\ rooms' = [rooms EXCEPT ![s] = @ \cup {p}]
        /\ count' = [count EXCEPT ![p][v] = @ + 1]
        /\ inbox' = [r \in Sockets |->
                       CASE r = s /\ phase[s] = "open" -> Append(inbox[r], sync)
                         [] r # s /\ r \in InRoom(p) -> Append(inbox[r], join)
                         [] OTHER -> inbox[r]]
    BY <1>6 DEF FinishJoin, Entered, AddPresence
  <2>2. \A y \in Projects : Roster(y)' = IF y = p THEN Roster(p) \cup {v} ELSE Roster(y)
    <3>1. \A u \in Users : count'[p][u] = IF u = v THEN count[p][u] + 1 ELSE count[p][u]
      BY <1>1, <1>4, <2>1 DEF PresenceTypeOK
    <3>2. \A y \in Projects : y # p => count'[y] = count[y]
      BY <1>1, <2>1 DEF PresenceTypeOK
    <3>3. \A u \in Users : count[p][u] \in Nat
      BY <1>1 DEF PresenceTypeOK
    <3>4. {u \in Users : count'[p][u] > 0} = {u \in Users : count[p][u] > 0} \cup {v}
      BY <1>4, <3>1, <3>3
    <3>5. \A y \in Projects : y # p =>
            {u \in Users : count'[y][u] > 0} = {u \in Users : count[y][u] > 0}
      BY <3>2
    <3> QED
      BY <3>4, <3>5 DEF Roster
  <2>3. ASSUME NEW t \in Tabs, Settled(t)'
        PROVE  Heard(list'[t], inbox'[sock'[t]]) = Roster(page[t])'
    <3>1. sock[t] \in Sockets /\ page[t] \in Projects /\ list[t] \in SUBSET Users
      BY <1>1, <1>2, <2>3 DEF Settled, PresenceTypeOK
    <3>2. phase[sock[t]] = "open" /\ inbox[sock[t]] \in Seq(Event)
      <4>1. phase[sock[t]] = "open"
        BY <3>1, SocketsAreNumbers DEF PresenceInv, Links
      <4>2. inbox[sock[t]] \in Seq(Event)
        BY <1>1, <3>1 DEF PresenceTypeOK
      <4> QED
        BY <4>1, <4>2
    <3>3. CASE sock[t] = s
      <4>1. page[t] = p
        <5>1. rooms'[s] = rooms[s] \cup {p} /\ rooms'[s] = {page[t]}
          BY <1>1, <1>2, <2>1, <2>3, <3>3 DEF Settled, PresenceTypeOK
        <5> QED
          BY <5>1
      <4>2. inbox'[s] = Append(inbox[s], sync)
        BY <2>1, <3>2, <3>3
      <4>3. sync \in Event
        BY <1>4 DEF Event, Roster
      <4>4. \A l : After(l, sync) = Roster(p) \cup {v}
        BY DEF After
      <4> HIDE DEF sync, v
      <4>5. Heard(list[t], Append(inbox[s], sync)) = After(Heard(list[t], inbox[s]), sync)
        BY <3>1, <3>2, <3>3, <4>3, HeardMore
      <4> QED
        BY <1>2, <2>2, <3>3, <4>1, <4>2, <4>4, <4>5
    <3>4. CASE sock[t] # s
      <4>1. rooms'[sock[t]] = rooms[sock[t]] /\ inRoom'[sock[t]] = inRoom[sock[t]]
        BY <1>1, <1>2, <2>1, <3>1, <3>4 DEF PresenceTypeOK
      <4>2. Settled(t)
        BY <1>2, <2>1, <2>3, <4>1 DEF Settled
      <4>3. \A y \in Projects : sock[t] \in InRoom(y) <=> y = page[t]
        BY <4>2, SettledIs
      <4>4. Heard(list[t], inbox[sock[t]]) = Roster(page[t])
        BY <4>2 DEF ListInv, ListFollowsRoster, Settled
      <4>5. CASE page[t] = p
        <5>1. inbox'[sock[t]] = Append(inbox[sock[t]], join)
          BY <2>1, <3>1, <3>4, <4>3, <4>5
        <5> HIDE DEF v
        <5>2. Heard(list[t], Append(inbox[sock[t]], join)) = Roster(page[t]) \cup {v}
          BY <1>4, <4>2, <4>4, WelcomeTells
        <5> QED
          BY <1>2, <2>2, <4>5, <5>1, <5>2
      <4>6. CASE page[t] # p
        <5>1. inbox'[sock[t]] = inbox[sock[t]]
          BY <2>1, <3>1, <3>4, <4>3, <4>6
        <5> QED
          BY <1>2, <2>2, <3>1, <4>4, <4>6, <5>1
      <4> QED
        BY <4>5, <4>6
    <3> QED
      BY <3>3, <3>4
  <2>4. ListFollowsRoster'
    BY <2>3 DEF ListFollowsRoster, Settled
  <2> QED
    BY <1>5, <2>4 DEF ListInv
<1>7. CASE s \notin known
  <2>1. UNCHANGED <<rooms, count, inbox>> /\ spoiled' = spoiled \cup {s}
    BY <1>7 DEF FinishJoin
  <2>2. ASSUME NEW t \in Tabs, Settled(t)'
        PROVE  Settled(t) /\ page'[t] = page[t] /\ list'[t] = list[t] /\ sock'[t] = sock[t]
    <3>1. sock[t] # s /\ sock[t] \in Sockets
      BY <1>1, <1>2, <2>1, <2>2 DEF Settled, PresenceTypeOK
    <3> QED
      BY <1>2, <2>1, <2>2, <3>1 DEF Settled
  <2>3. ListFollowsRoster'
    BY <2>1, <2>2, BrowserKeepsLists DEF ListInv
  <2> QED
    BY <1>5, <2>3 DEF ListInv
<1> QED
  BY <1>6, <1>7

LEMMA StutterKeepsLists ==
  ASSUME PresenceInv, ListInv, UNCHANGED presenceVars
  PROVE  ListInv'
<1>1. UNCHANGED <<page, line, sock, out, list, inbox, rooms, inRoom, count, spoiled>>
  BY DEF presenceVars, browser, server
<1>2. LastIsJoin'
  BY <1>1 DEF ListInv, LastIsJoin
<1>3. ListFollowsRoster'
  BY <1>1, BrowserKeepsLists DEF ListInv, Settled
<1> QED
  BY <1>2, <1>3 DEF ListInv

\* A board shows the roster of its project once what is under way has arrived
\* (realtime.gateway.ts:113-125, 174-186; use-board-realtime.ts:40-46), however many tabs,
\* boards and connections there are: whatever changes the roster is told, in the same
\* step, to everybody in the room.
THEOREM ListsFollow == PresenceSpec => []ListFollowsRoster
<1>1. PresenceInit => ListInv
  BY ListInvInit
<1>2. PresenceInv /\ ListInv /\ [PresenceNext]_presenceVars => ListInv'
  BY ShowKeepsLists, HideKeepsLists, HearKeepsLists, TakeJoinKeepsLists, TakeLeaveKeepsLists,
     ConnectKeepsLists, GreetKeepsLists, RejectKeepsLists, DisconnectKeepsLists,
     TakeCursorKeepsLists, FinishJoinKeepsLists, StutterKeepsLists DEF PresenceNext
<1>3. ListInv => ListFollowsRoster
  BY DEF ListInv
<1> QED
  BY <1>1, <1>2, <1>3, RostersAreKept, PTL DEF PresenceSpec

=============================================================================
