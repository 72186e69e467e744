------------------------ MODULE NativeRooms_proofs ------------------------
(***************************************************************************)
(* Proofs about NativeRooms, for every set of users and all bounds.        *)
(***************************************************************************)
EXTENDS NativeRooms, FiniteSetTheorems, TLAPS

(***************************************************************************)
(* The inductive invariant.                                                *)
(***************************************************************************)
RowType  == (1 .. MaxRows) \X Users
ViewType == [active : SUBSET RowType, ended : BOOLEAN, host : Users \cup {NoUser}]
CallType == [n : 1 .. MaxCalls, op : {"put", "delete"}, user : Users,
             pc : {"sent", "read", "chat"}, view : ViewType, closes : BOOLEAN]

\* Rows, seen by the tables or by a handler, are older than the next one.
RowsFit(rows, next) ==
    /\ rows \subseteq RowType /\ IsFiniteSet(rows) /\ Cardinality(rows) < next

TableInv ==
    /\ RowsFit(active, nextRow)
    /\ \A r \in active : r[1] < nextRow
    /\ \A r, q \in active : r[1] = q[1] => r = q
    /\ nextRow \in 1 .. MaxRows + 1 /\ count \in 0 .. MaxRows
    /\ {dbHost, host, leaving} \subseteq Users \cup {NoUser}
    /\ {ended, overlap} \subseteq BOOLEAN /\ chat \subseteq Users
    /\ sent \in 0 .. MaxCalls /\ repeats \in 0 .. MaxRepeats

CallFits(c, next) == c \in CallType /\ RowsFit(c.view.active, next)

CallInv == \A c \in calls : CallFits(c, nextRow)

OnceEach(list) == \A i, j \in DOMAIN list : list[i] = list[j] => i = j

Listed(list) == {list[i] : i \in DOMAIN list}

\* The spectator lists a user once, and has had a row for each.
ListInv ==
    /\ members \in Seq(Users) /\ Len(members) < nextRow
    /\ OnceEach(members)

\* What becomes of a room: nobody is in it before it opens, somebody is there
\* while it is open but for the moment in which the last one leaves.
RoomInv ==
    /\ room \in {"absent", "made", "dropped", "open", "gone"}
    /\ room \in {"absent", "made", "dropped"} =>
          calls = {} /\ active = {} /\ members = <<>> /\ leaving = NoUser /\ ~ended
    /\ room = "made" => chat = {dbHost}
    /\ room = "open" /\ members = <<>> => leaving # NoUser
    /\ room = "gone" => members = <<>> /\ leaving = NoUser

\* While the moves of a player are handled one by one: one row for each user
\* in the room, ...
RowInv ==
    /\ {r[2] : r \in active} = InRoom
    /\ \A r, q \in active : r[2] = q[2] => r = q
    /\ Cardinality(active) = Len(members)

\* ... one call for each player, which agrees with the list and with what its
\* handler has seen, ...
CallAgrees(c, list) ==
    /\ c.user \in Listed(list) <=> c.op = "put"
    /\ c.pc = "read" =>
          /\ RowsOf(c.user, c.view.active) = {} <=> c.op = "delete"
          /\ \A r, q \in c.view.active : r[2] = q[2] => r = q
          /\ c.view.active = {} => list = <<>>
    /\ c.closes => list = <<>>

MoveInv ==
    /\ \A c, d \in calls : c.user = d.user => c = d
    /\ \A c \in calls : CallAgrees(c, members)

\* ... and the channel has those who are in the room and have no call pending.
ChatInv ==
    members # <<>> => \A u \in Users : ~Pending(u) => (u \in chat <=> u \in InRoom)

QuietInv == RowInv /\ MoveInv /\ ChatInv /\ (ended => members = <<>>)

Inv == TableInv /\ CallInv /\ ListInv /\ RoomInv /\ (~overlap => QuietInv)

(***************************************************************************)
(* Facts about rows and lists.                                             *)
(***************************************************************************)
LEMMA FewerFit ==
    ASSUME NEW rows, NEW next \in Nat, RowsFit(rows, next),
           NEW less, less \subseteq rows, NEW later \in Nat, next <= later
    PROVE  RowsFit(less, later) /\ Cardinality(less) \in Nat
  <1>1. IsFiniteSet(less) /\ Cardinality(less) <= Cardinality(rows)
    BY FS_Subset DEF RowsFit
  <1>2. Cardinality(less) \in Nat /\ Cardinality(rows) \in Nat
    BY <1>1, FS_CardinalityType DEF RowsFit
  <1> QED
    BY <1>1, <1>2 DEF RowsFit

LEMMA OneMoreFits ==
    ASSUME NEW rows, NEW next \in Nat, RowsFit(rows, next), NEW row \in RowType, row \notin rows
    PROVE  /\ RowsFit(rows \cup {row}, next + 1)
           /\ Cardinality(rows \cup {row}) = Cardinality(rows) + 1
           /\ Cardinality(rows) \in Nat
  <1>1. /\ IsFiniteSet(rows \cup {row})
        /\ Cardinality(rows \cup {row}) = Cardinality(rows) + 1
    BY FS_AddElement DEF RowsFit
  <1>2. Cardinality(rows) \in Nat
    BY FS_CardinalityType DEF RowsFit
  <1> QED
    BY <1>1, <1>2 DEF RowsFit

\* Taking a user off a list leaves the others, once each.
LEMMA WithoutOne ==
    ASSUME NEW list \in Seq(Users), OnceEach(list), NEW u \in Listed(list)
    PROVE  /\ Without(list, u) \in Seq(Users)
           /\ Len(Without(list, u)) = Len(list) - 1
           /\ OnceEach(Without(list, u))
           /\ Listed(Without(list, u)) = Listed(list) \ {u}
  <1> DEFINE n == Len(list)
             k == CHOOSE i \in DOMAIN list : list[i] = u
             w == Without(list, u)
  <1>1. n \in Nat /\ DOMAIN list = 1 .. n /\ \A i \in 1 .. n : list[i] \in Users
    OBVIOUS
  <1>2. k \in 1 .. n /\ list[k] = u
    BY <1>1 DEF Listed
  <1>3. w = [i \in 1 .. n - 1 |-> IF i < k THEN list[i] ELSE list[i + 1]]
    BY DEF Without
  <1> HIDE DEF n, k, w
  <1>4. n - 1 \in Nat
    BY <1>1, <1>2
  <1>5. w \in [1 .. n - 1 -> Users]
    BY <1>1, <1>2, <1>3
  <1>6. w \in Seq(Users) /\ Len(w) = n - 1 /\ DOMAIN w = 1 .. n - 1
    BY <1>4, <1>5
  <1>7. OnceEach(w)
    <2> SUFFICES ASSUME NEW i \in 1 .. n - 1, NEW j \in 1 .. n - 1, w[i] = w[j]
                 PROVE  i = j
      BY <1>6 DEF OnceEach
    <2> DEFINE at(x) == IF x < k THEN x ELSE x + 1
    <2>1. at(i) \in 1 .. n /\ at(j) \in 1 .. n
      BY <1>1, <1>2
    <2>2. w[i] = list[at(i)] /\ w[j] = list[at(j)]
      BY <1>3
    <2>3. at(i) = at(j)
      BY <1>1, <2>1, <2>2 DEF OnceEach
    <2> QED
      BY <1>1, <1>2, <2>3
  <1>8. \A i \in 1 .. n - 1 : w[i] \in Listed(list) \ {u}
    <2> TAKE i \in 1 .. n - 1
    <2>1. w[i] = list[IF i < k THEN i ELSE i + 1]
      BY <1>3
    <2>2. (IF i < k THEN i ELSE i + 1) \in (1 .. n) \ {k}
      BY <1>1, <1>2
    <2> QED
      BY <1>1, <1>2, <2>1, <2>2 DEF Listed, OnceEach
  <1>9. ASSUME NEW i \in 1 .. n, list[i] # u
        PROVE  \E j \in 1 .. n - 1 : w[j] = list[i]
    <2>1. i # k
      BY <1>2, <1>9
    <2>2. CASE i < k
      <3>1. i \in 1 .. n - 1 /\ w[i] = list[i]
        BY <1>1, <1>2, <1>3, <2>2
      <3> QED
        BY <3>1
    <2>3. CASE i > k
      <3>1. i - 1 \in 1 .. n - 1 /\ w[i - 1] = list[i]
        BY <1>1, <1>2, <1>3, <2>3
      <3> QED
        BY <3>1
    <2> QED
      <3>1. i < k \/ i > k
        BY <1>1, <1>2, <2>1
      <3> QED
        BY <2>2, <2>3, <3>1
  <1>10. Listed(w) = Listed(list) \ {u}
    <2>1. Listed(w) \subseteq Listed(list) \ {u}
      BY <1>6, <1>8 DEF Listed
    <2>2. ASSUME NEW v \in Listed(list) \ {u}
          PROVE  v \in Listed(w)
      <3>1. PICK i \in 1 .. n : list[i] = v
        BY <1>1 DEF Listed
      <3>2. \E j \in 1 .. n - 1 : w[j] = v
        BY <1>9, <3>1
      <3> QED
        BY <1>6, <3>2 DEF Listed
    <2> QED
      BY <2>1, <2>2
  <1> QED
    BY <1>6, <1>7, <1>10 DEF w, n

(***************************************************************************)
(* The spectator's list and the life of a room.                            *)
(***************************************************************************)
LEMMA Bounds ==
    ASSUME TableInv
    PROVE  /\ nextRow \in Nat /\ MaxRows \in Nat /\ MaxRows >= 1
           /\ MaxCalls \in Nat /\ MaxRepeats \in Nat
  BY RoomBounds DEF TableInv

LEMMA HandlersKeepSpectator ==
    ASSUME NEW c \in calls, Read(c) \/ Put(c) \/ Delete(c) \/ Chat(c) \/ Repeat(c)
    PROVE  UNCHANGED spectator
  BY DEF Read, Put, Delete, Chat, Repeat

LEMMA ListStep ==
    ASSUME TableInv, ListInv, [Next]_vars, nextRow' \in Nat, nextRow' >= nextRow
    PROVE  ListInv'
  <1>1. CASE UNCHANGED members
    <2>1. members' = members /\ Len(members) \in Nat
      BY <1>1 DEF ListInv
    <2> QED
      BY <2>1, Bounds DEF ListInv
  <1>2. ASSUME NEW u \in Users, JoinRoom(u)
        PROVE  ListInv'
    <2>1. members' = Append(members, u) /\ nextRow' = nextRow + 1 /\ u \notin InRoom
      BY <1>2 DEF JoinRoom
    <2> QED
      BY <2>1, Bounds DEF ListInv, OnceEach, InRoom
  <1>3. ASSUME NEW u \in Users, LeaveRoom(u)
        PROVE  ListInv'
    <2>1. members' = Without(members, u) /\ u \in Listed(members)
      BY <1>3 DEF LeaveRoom, InRoom, Listed
    <2>2. /\ members' \in Seq(Users) /\ Len(members') = Len(members) - 1
          /\ OnceEach(members')
      BY <2>1, WithoutOne DEF ListInv
    <2> QED
      BY <2>2, Bounds DEF ListInv
  <1>4. ASSUME NEW u \in Users, CreateRoom(u)
        PROVE  ListInv'
    BY <1>1, <1>4 DEF CreateRoom
  <1>5. CASE CreateFails \/ CloseRoom \/ KeepRoom
    BY <1>1, <1>5 DEF CreateFails, CloseRoom, KeepRoom
  <1>6. CASE \E c \in calls : Read(c) \/ Put(c) \/ Delete(c) \/ Chat(c) \/ Repeat(c)
    BY <1>1, <1>6, HandlersKeepSpectator DEF spectator
  <1>7. CASE UNCHANGED vars
    BY <1>1, <1>7 DEF vars
  <1> QED
    BY <1>2, <1>3, <1>4, <1>5, <1>6, <1>7 DEF Next

(***************************************************************************)
(* Tables and calls.                                                       *)
(***************************************************************************)
LEMMA TableStep ==
    ASSUME TableInv, CallInv, ListInv, [Next]_vars
    PROVE  TableInv' /\ nextRow' \in Nat /\ nextRow' >= nextRow
  <1>1. /\ RowsFit(active, nextRow) /\ \A r \in active : r[1] < nextRow
        /\ \A r, q \in active : r[1] = q[1] => r = q
        /\ nextRow \in 1 .. MaxRows + 1
    BY DEF TableInv
  <1>2. ASSUME NEW u \in Users, nextRow <= MaxRows,
               active' = active \cup {<<nextRow, u>>}, nextRow' = nextRow + 1
        PROVE  /\ RowsFit(active', nextRow') /\ \A r \in active' : r[1] < nextRow'
               /\ \A r, q \in active' : r[1] = q[1] => r = q
               /\ nextRow' \in 1 .. MaxRows + 1 /\ nextRow' >= nextRow
    <2>1. <<nextRow, u>> \in RowType /\ <<nextRow, u>> \notin active
      BY <1>1, <1>2, Bounds DEF RowType
    <2>2. RowsFit(active', nextRow')
      BY <1>1, <1>2, <2>1, OneMoreFits, Bounds
    <2>3. \A r \in active : r[1] \in Nat
      BY <1>1 DEF RowsFit, RowType
    <2> QED
      BY <1>1, <1>2, <2>2, <2>3, Bounds
  <1>3. ASSUME active' \subseteq active, nextRow' = nextRow
        PROVE  /\ RowsFit(active', nextRow') /\ \A r \in active' : r[1] < nextRow'
               /\ \A r, q \in active' : r[1] = q[1] => r = q
               /\ nextRow' \in 1 .. MaxRows + 1 /\ nextRow' >= nextRow
    <2>1. RowsFit(active', nextRow')
      BY <1>1, <1>3, FewerFit, Bounds
    <2> QED
      BY <1>1, <1>3, <2>1, Bounds
  <1>4. ASSUME NEW u \in Users, CreateRoom(u)
        PROVE  TableInv' /\ nextRow' \in Nat /\ nextRow' >= nextRow
    <2>1. /\ dbHost' = u /\ count' = 1 /\ chat' = {u}
          /\ UNCHANGED <<host, leaving, active, nextRow, ended, sent, repeats, overlap>>
      BY <1>4 DEF CreateRoom
    <2> QED
      BY <1>3, <2>1, Bounds DEF TableInv
  <1>5. CASE CreateFails
    <2>1. /\ dbHost' = NoUser /\ count' = 0
          /\ UNCHANGED <<host, leaving, active, nextRow, ended, chat, sent, repeats, overlap>>
      BY <1>5 DEF CreateFails
    <2> QED
      BY <1>3, <2>1, Bounds DEF TableInv
  <1>6. ASSUME NEW u \in Users, JoinRoom(u)
        PROVE  TableInv' /\ nextRow' \in Nat /\ nextRow' >= nextRow
    <2>1. /\ sent < MaxCalls /\ nextRow <= MaxRows /\ members' = Append(members, u)
          /\ host' \in {host, u} /\ count' = Len(members') /\ sent' = sent + 1
          /\ active' = active \cup {<<nextRow, u>>} /\ nextRow' = nextRow + 1
          /\ UNCHANGED <<leaving, dbHost, ended, chat, repeats>>
      BY <1>6 DEF JoinRoom
    <2>2. overlap' \in BOOLEAN
      BY <1>6 DEF JoinRoom
    <2>3. count' \in 0 .. MaxRows
      BY <2>1, Bounds DEF ListInv
    <2>4. sent' \in 0 .. MaxCalls
      BY <2>1, Bounds DEF TableInv
    <2>5. /\ RowsFit(active', nextRow') /\ \A r \in active' : r[1] < nextRow'
          /\ \A r, q \in active' : r[1] = q[1] => r = q
          /\ nextRow' \in 1 .. MaxRows + 1 /\ nextRow' >= nextRow
      BY <1>2, <2>1
    <2>6. nextRow' \in Nat /\ {host', dbHost', leaving'} \subseteq Users \cup {NoUser}
      BY <2>1, Bounds DEF TableInv
    <2>7. ended' \in BOOLEAN /\ chat' \subseteq Users /\ repeats' \in 0 .. MaxRepeats
      BY <2>1 DEF TableInv
    <2> QED
      BY <2>2, <2>3, <2>4, <2>5, <2>6, <2>7 DEF TableInv
  <1>7. ASSUME NEW u \in Users, LeaveRoom(u)
        PROVE  TableInv' /\ nextRow' \in Nat /\ nextRow' >= nextRow
    <2>1. /\ sent < MaxCalls /\ members' = Without(members, u) /\ leaving' = u
          /\ count' = Len(members') /\ sent' = sent + 1
          /\ active' = active \ RowsOf(u, active) /\ u \in Listed(members)
          /\ UNCHANGED <<host, nextRow, dbHost, ended, chat, repeats>>
      BY <1>7 DEF LeaveRoom, InRoom, Listed
    <2>2. overlap' \in BOOLEAN
      BY <1>7 DEF LeaveRoom
    <2>3. Len(members') = Len(members) - 1 /\ Len(members') \in Nat
      BY <2>1, WithoutOne DEF ListInv
    <2>4. count' \in 0 .. MaxRows
      BY <1>1, <2>1, <2>3, Bounds DEF ListInv
    <2>5. sent' \in 0 .. MaxCalls
      BY <2>1, Bounds DEF TableInv
    <2> QED
      BY <1>3, <2>1, <2>2, <2>4, <2>5, Bounds DEF TableInv
  <1>8. CASE CloseRoom
    <2>1. /\ leaving' = NoUser /\ ended' = TRUE /\ count' = nextRow - 1
          /\ UNCHANGED <<host, active, nextRow, dbHost, chat, sent, repeats, overlap>>
      BY <1>8 DEF CloseRoom
    <2>2. count' \in 0 .. MaxRows
      BY <1>1, <2>1, Bounds
    <2> QED
      BY <1>3, <2>1, <2>2, Bounds DEF TableInv
  <1>9. CASE KeepRoom
    <2>1. /\ leaving' = NoUser /\ members # <<>>
          /\ host' \in {host, members[1]} /\ dbHost' \in {dbHost, members[1]}
          /\ UNCHANGED <<active, nextRow, count, ended, chat, sent, repeats, overlap>>
      BY <1>9 DEF KeepRoom
    <2>2. members[1] \in Users
      BY <2>1 DEF ListInv
    <2> QED
      BY <1>3, <2>1, <2>2, Bounds DEF TableInv
  <1>10. ASSUME NEW c \in calls, Read(c)
         PROVE  TableInv' /\ nextRow' \in Nat /\ nextRow' >= nextRow
    <2>1. UNCHANGED <<spectator, active, nextRow, dbHost, count, ended, chat, repeats>>
      BY <1>10 DEF Read
    <2> QED
      BY <1>3, <2>1, Bounds DEF TableInv, spectator
  <1>11. ASSUME NEW c \in calls, Put(c)
         PROVE  TableInv' /\ nextRow' \in Nat /\ nextRow' >= nextRow
    <2>1. c \in CallType /\ c.user \in Users /\ RowsFit(c.view.active, nextRow)
      BY DEF CallInv, CallFits, CallType
    <2>2. UNCHANGED <<host, leaving, dbHost, ended, chat, sent, repeats, overlap>>
      BY <1>11 DEF Put, spectator
    <2>3. CASE RowsOf(c.user, c.view.active) = {}
      <3>1. /\ nextRow <= MaxRows /\ active' = active \cup {<<nextRow, c.user>>}
            /\ nextRow' = nextRow + 1 /\ count' = Cardinality(c.view.active) + 1
        BY <1>11, <2>3 DEF Put
      <3>2. count' \in 0 .. MaxRows
        <4>1. Cardinality(c.view.active) \in Nat /\ Cardinality(c.view.active) < nextRow
          BY <2>1, FS_CardinalityType DEF RowsFit
        <4> QED
          BY <1>1, <3>1, <4>1, Bounds
      <3>3. PICK u \in Users : u = c.user
        BY <2>1
      <3>4. /\ RowsFit(active', nextRow') /\ \A r \in active' : r[1] < nextRow'
            /\ \A r, q \in active' : r[1] = q[1] => r = q
            /\ nextRow' \in 1 .. MaxRows + 1 /\ nextRow' >= nextRow
        BY <1>2, <3>1, <3>3
      <3>5. nextRow' \in Nat
        BY <3>1, Bounds
      <3> QED
        BY <2>2, <3>2, <3>4, <3>5 DEF TableInv
    <2>4. CASE RowsOf(c.user, c.view.active) # {}
      <3>1. PICK extra : /\ active' = active \ extra /\ nextRow' = nextRow
                         /\ count' = Cardinality(c.view.active \ extra)
        BY <1>11, <2>4 DEF Put
      <3>2. count' \in 0 .. MaxRows
        <4>1. RowsFit(c.view.active \ extra, nextRow) /\ count' \in Nat
          BY <2>1, <3>1, FewerFit, Bounds
        <4> QED
          BY <1>1, <3>1, <4>1, Bounds DEF RowsFit
      <3> QED
        BY <1>3, <2>2, <3>1, <3>2, Bounds DEF TableInv
    <2> QED
      BY <2>3, <2>4
  <1>12. ASSUME NEW c \in calls, Delete(c)
         PROVE  TableInv' /\ nextRow' \in Nat /\ nextRow' >= nextRow
    <2> DEFINE rest == c.view.active \ RowsOf(c.user, c.view.active)
    <2>1. c \in CallType /\ c.user \in Users /\ RowsFit(c.view.active, nextRow)
      BY DEF CallInv, CallFits, CallType
    <2>2. /\ active' \subseteq active
          /\ UNCHANGED <<host, leaving, nextRow, chat, sent, repeats, overlap>>
      BY <1>12 DEF Delete, spectator
    <2>3. RowsFit(rest, nextRow) /\ Cardinality(rest) \in 0 .. MaxRows
      <3>1. RowsFit(rest, nextRow) /\ Cardinality(rest) \in Nat
        BY <2>1, FewerFit, Bounds
      <3> QED
        BY <1>1, <3>1, Bounds DEF RowsFit
    <2>4. count' \in {count, Cardinality(rest)} /\ ended' \in BOOLEAN
      BY <1>12 DEF Delete, TableInv
    <2>5. dbHost' \in {dbHost} \cup {r[2] : r \in rest}
      BY <1>12 DEF Delete
    <2>6. dbHost' \in Users \cup {NoUser}
      BY <2>3, <2>5 DEF RowsFit, RowType, TableInv
    <2> QED
      BY <1>3, <2>2, <2>3, <2>4, <2>6, Bounds DEF TableInv
  <1>13. ASSUME NEW c \in calls, Chat(c) \/ Repeat(c)
         PROVE  TableInv' /\ nextRow' \in Nat /\ nextRow' >= nextRow
    <2>1. c.user \in Users
      BY DEF CallInv, CallFits, CallType
    <2>2. chat' = ChatAfter(c) /\ UNCHANGED <<spectator, active, nextRow, dbHost, count, ended>>
      BY <1>13 DEF Chat, Repeat
    <2>3. chat' \subseteq Users
      BY <2>1, <2>2 DEF ChatAfter, TableInv
    <2>4. repeats' \in 0 .. MaxRepeats
      BY <1>13, Bounds DEF Chat, Repeat, TableInv
    <2> QED
      BY <1>3, <2>2, <2>3, <2>4, Bounds DEF TableInv, spectator
  <1>14. CASE UNCHANGED vars
    BY <1>14, Bounds DEF vars, TableInv
  <1> QED
    BY <1>4, <1>5, <1>6, <1>7, <1>8, <1>9, <1>10, <1>11, <1>12, <1>13, <1>14 DEF Next

LEMMA CallStep ==
    ASSUME TableInv, CallInv, [Next]_vars, nextRow' \in Nat, nextRow' >= nextRow
    PROVE  CallInv'
  <1>1. ASSUME NEW c, CallFits(c, nextRow)
        PROVE  CallFits(c, nextRow')
    BY <1>1, FewerFit, Bounds DEF CallFits
  <1>2. ASSUME calls' \subseteq calls
        PROVE  CallInv'
    BY <1>1, <1>2 DEF CallInv
  <1>3. ASSUME NEW d, CallFits(d, nextRow), calls' \subseteq calls \cup {d}
        PROVE  CallInv'
    BY <1>1, <1>3 DEF CallInv
  <1>4. ASSUME NEW n \in 1 .. MaxCalls, NEW op \in {"put", "delete"}, NEW u \in Users
        PROVE  CallFits(Call(n, op, u), nextRow)
    <2>1. IsFiniteSet({}) /\ Cardinality({}) = 0
      BY FS_EmptySet
    <2>2. RowsFit({}, nextRow)
      BY <2>1 DEF RowsFit, TableInv
    <2>3. Call(n, op, u) \in CallType /\ Call(n, op, u).view.active = {}
      BY DEF Call, CallType, NoView, ViewType
    <2> QED
      BY <2>2, <2>3 DEF CallFits
  <1>5. \A c \in calls : c \in CallType /\ CallFits(c, nextRow)
    BY DEF CallInv, CallFits
  <1>6. ASSUME NEW c \in calls, NEW closes \in BOOLEAN
        PROVE  CallFits([c EXCEPT !.pc = "chat", !.closes = closes], nextRow)
    <2>1. /\ [c EXCEPT !.pc = "chat", !.closes = closes] \in CallType
          /\ [c EXCEPT !.pc = "chat", !.closes = closes].view = c.view
      BY <1>5 DEF CallType
    <2> QED
      BY <1>5, <2>1 DEF CallFits
  <1>7. ASSUME NEW c \in calls
        PROVE  CallFits([c EXCEPT !.pc = "chat"], nextRow)
    <2>1. /\ [c EXCEPT !.pc = "chat"] \in CallType
          /\ [c EXCEPT !.pc = "chat"].view = c.view
      BY <1>5 DEF CallType
    <2> QED
      BY <1>5, <2>1 DEF CallFits
  <1>8. ASSUME NEW c \in calls
        PROVE  CallFits([c EXCEPT !.pc = "read", !.view = View], nextRow)
    <2>1. View \in ViewType /\ View.active = active
      BY DEF View, ViewType, TableInv, RowsFit
    <2>2. /\ [c EXCEPT !.pc = "read", !.view = View] \in CallType
          /\ [c EXCEPT !.pc = "read", !.view = View].view = View
      BY <1>5, <2>1 DEF CallType
    <2> QED
      BY <2>1, <2>2 DEF CallFits, TableInv
  <1>9. ASSUME NEW u \in Users, CreateRoom(u)
        PROVE  CallInv'
    BY <1>2, <1>9 DEF CreateRoom
  <1>10. CASE CreateFails \/ CloseRoom \/ KeepRoom
    BY <1>2, <1>10 DEF CreateFails, CloseRoom, KeepRoom
  <1>11. sent < MaxCalls => sent + 1 \in 1 .. MaxCalls
    BY Bounds DEF TableInv
  <1>12. ASSUME NEW u \in Users, JoinRoom(u)
         PROVE  CallInv'
    <2>1. calls' = calls \cup {Call(sent + 1, "put", u)} /\ sent < MaxCalls
      BY <1>12 DEF JoinRoom
    <2> QED
      BY <1>3, <1>4, <1>11, <2>1
  <1>13. ASSUME NEW u \in Users, LeaveRoom(u)
         PROVE  CallInv'
    <2>1. calls' = calls \cup {Call(sent + 1, "delete", u)} /\ sent < MaxCalls
      BY <1>13 DEF LeaveRoom
    <2> QED
      BY <1>3, <1>4, <1>11, <2>1
  <1>14. ASSUME NEW c \in calls, Read(c)
         PROVE  CallInv'
    <2>1. calls' \subseteq calls \cup {[c EXCEPT !.pc = "read", !.view = View]}
      BY <1>14 DEF Read, Becomes
    <2> QED
      BY <1>3, <1>8, <2>1
  <1>15. ASSUME NEW c \in calls, Put(c)
         PROVE  CallInv'
    <2>1. calls' \subseteq calls \cup {[c EXCEPT !.pc = "chat"]}
      BY <1>15 DEF Put, Becomes
    <2> QED
      BY <1>3, <1>7, <2>1
  <1>16. ASSUME NEW c \in calls, Delete(c)
         PROVE  CallInv'
    <2>1. PICK closes \in BOOLEAN :
            \/ calls' \subseteq calls \cup {[c EXCEPT !.pc = "chat"]}
            \/ calls' \subseteq calls \cup {[c EXCEPT !.pc = "chat", !.closes = closes]}
      BY <1>16 DEF Delete, Becomes, EndIfEmpty
    <2> QED
      BY <1>3, <1>6, <1>7, <2>1
  <1>17. ASSUME NEW c \in calls, Chat(c)
         PROVE  CallInv'
    BY <1>2, <1>17 DEF Chat
  <1>18. ASSUME NEW c \in calls, Repeat(c)
         PROVE  CallInv'
    <2>1. calls' \subseteq calls \cup {Call(c.n, c.op, c.user)}
      BY <1>18 DEF Repeat, Becomes
    <2>2. CallFits(Call(c.n, c.op, c.user), nextRow)
      BY <1>4, <1>5 DEF CallType
    <2> QED
      BY <1>3, <2>1, <2>2
  <1>19. CASE UNCHANGED vars
    BY <1>2, <1>19 DEF vars
  <1> QED
    BY <1>9, <1>10, <1>12, <1>13, <1>14, <1>15, <1>16, <1>17, <1>18, <1>19 DEF Next

(***************************************************************************)
(* The life of a room.                                                     *)
(***************************************************************************)
LEMMA RoomStep ==
    ASSUME TableInv, ListInv, RoomInv, [Next]_vars
    PROVE  RoomInv'
  <1>1. ASSUME NEW u \in Users, CreateRoom(u)
        PROVE  RoomInv'
    BY <1>1 DEF CreateRoom, RoomInv
  <1>2. CASE CreateFails
    BY <1>2 DEF CreateFails, RoomInv
  <1>3. ASSUME NEW u \in Users, JoinRoom(u)
        PROVE  RoomInv'
    <2>1. room' = "open" /\ members' = Append(members, u)
      BY <1>3 DEF JoinRoom
    <2>2. members' # <<>>
      BY <2>1 DEF ListInv
    <2> QED
      BY <2>1, <2>2 DEF RoomInv
  <1>4. ASSUME NEW u \in Users, LeaveRoom(u)
        PROVE  RoomInv'
    <2>1. room = "open" /\ room' = room /\ leaving' = u
      BY <1>4 DEF LeaveRoom
    <2> QED
      BY <2>1, RoomBounds DEF RoomInv
  <1>5. CASE CloseRoom
    BY <1>5 DEF CloseRoom, RoomInv
  <1>6. CASE KeepRoom
    BY <1>6 DEF KeepRoom, RoomInv
  <1>7. ASSUME NEW c \in calls, Read(c) \/ Put(c) \/ Delete(c) \/ Chat(c) \/ Repeat(c)
        PROVE  RoomInv'
    <2>1. UNCHANGED <<room, members, leaving>>
      BY <1>7, HandlersKeepSpectator DEF spectator
    <2>2. room \in {"open", "gone"}
      BY <1>7 DEF RoomInv
    <2> QED
      BY <2>1, <2>2 DEF RoomInv
  <1>8. CASE UNCHANGED vars
    BY <1>8 DEF vars, RoomInv
  <1> QED
    BY <1>1, <1>2, <1>3, <1>4, <1>5, <1>6, <1>7, <1>8 DEF Next

(***************************************************************************)
(* Moves handled one by one.                                               *)
(***************************************************************************)
\* A step that leaves the list, the rows and the calls alone.
LEMMA QuietKept ==
    ASSUME QuietInv, ListInv, UNCHANGED <<members, active, calls>>,
           members # <<>> => chat' = chat, ended' => ended \/ members = <<>>
    PROVE  QuietInv'
  <1>1. RowInv'
    BY DEF QuietInv, RowInv, InRoom
  <1>2. MoveInv'
    BY DEF QuietInv, MoveInv, CallAgrees
  <1>3. ChatInv'
    BY DEF QuietInv, ChatInv, InRoom, Pending
  <1> QED
    BY <1>1, <1>2, <1>3 DEF QuietInv

\* One call replaced by another of the same player.
LEMMA MoveReplaced ==
    ASSUME MoveInv, NEW c \in calls, NEW d, d.user = c.user, CallAgrees(d, members),
           calls' = (calls \ {c}) \cup {d}, members' = members
    PROVE  MoveInv' /\ \A u : Pending(u)' <=> Pending(u)
  <1>1. \A a \in calls' : a = d \/ (a \in calls /\ a.user # d.user)
    BY DEF MoveInv
  <1>2. \A a, b \in calls' : a.user = b.user => a = b
    BY <1>1 DEF MoveInv
  <1>3. \A a \in calls' : CallAgrees(a, members)
    BY <1>1 DEF MoveInv
  <1>4. \A a \in calls' : CallAgrees(a, members)'
    BY <1>3 DEF CallAgrees
  <1>5. ASSUME NEW u PROVE Pending(u)' <=> Pending(u)
    BY <1>1 DEF Pending
  <1> QED
    BY <1>2, <1>4, <1>5 DEF MoveInv

\* A handler's step that changes neither the rows nor the channel.
LEMMA QuietReplaced ==
    ASSUME QuietInv, NEW c \in calls, NEW d, d.user = c.user, CallAgrees(d, members),
           calls' = (calls \ {c}) \cup {d}, members' = members,
           active' = active, chat' = chat, ended' => ended \/ members = <<>>
    PROVE  QuietInv'
  <1>1. MoveInv' /\ \A u : Pending(u)' <=> Pending(u)
    BY MoveReplaced DEF QuietInv
  <1>2. RowInv'
    BY DEF QuietInv, RowInv, InRoom
  <1>3. ChatInv'
    <2> SUFFICES ASSUME members # <<>>, NEW u \in Users, ~Pending(u)'
                 PROVE  (u \in chat <=> u \in InRoom)'
      BY DEF ChatInv
    <2>1. ~Pending(u)
      BY <1>1
    <2> QED
      BY <2>1 DEF QuietInv, ChatInv, InRoom
  <1> QED
    BY <1>1, <1>2, <1>3 DEF QuietInv

LEMMA QuietJoin ==
    ASSUME TableInv, CallInv, ListInv, RoomInv, QuietInv, NEW u \in Users, JoinRoom(u), ~overlap'
    PROVE  QuietInv'
  <1> DEFINE call == Call(sent + 1, "put", u)
  <1>1. /\ \/ room = "made" /\ u = dbHost
           \/ room = "open" /\ leaving = NoUser
        /\ u \notin InRoom /\ members' = Append(members, u)
        /\ active' = active \cup {<<nextRow, u>>} /\ nextRow <= MaxRows
        /\ calls' = calls \cup {call} /\ ~Pending(u)
        /\ chat' = chat /\ ended' = ended
    BY DEF JoinRoom
  <1>2. members' # <<>> /\ Len(members') = Len(members) + 1 /\ InRoom' = InRoom \cup {u}
    BY <1>1 DEF ListInv, InRoom
  \* Nobody is in the room only while it is made, and then nothing is under way.
  <1>3. ~ended
    BY <1>1 DEF RoomInv, QuietInv
  <1>4. members = <<>> => room = "made" /\ u = dbHost /\ calls = {} /\ chat = {u}
    BY <1>1 DEF RoomInv
  <1>5. RowInv'
    <2>1. \A r \in active : r[2] # u
      BY <1>1 DEF QuietInv, RowInv
    <2>2. <<nextRow, u>>[2] = u
      OBVIOUS
    <2>3. {r[2] : r \in active'} = InRoom'
      BY <1>1, <1>2, <2>2 DEF QuietInv, RowInv
    <2>4. \A r, q \in active' : r[2] = q[2] => r = q
      BY <1>1, <2>1, <2>2 DEF QuietInv, RowInv
    <2>5. <<nextRow, u>> \in RowType /\ <<nextRow, u>> \notin active
      BY <1>1, <2>1, <2>2, Bounds DEF RowType, TableInv
    <2>6. Cardinality(active') = Cardinality(active) + 1
      BY <1>1, <2>5, OneMoreFits, Bounds DEF TableInv
    <2> QED
      BY <1>2, <2>3, <2>4, <2>6 DEF QuietInv, RowInv
  <1>6. MoveInv'
    <2>1. call.user = u /\ call.op = "put" /\ call.pc = "sent" /\ call.closes = FALSE
      BY DEF Call
    <2>2. \A c \in calls : c.user # u
      BY <1>1 DEF Pending
    <2>3. \A c, d \in calls' : c.user = d.user => c = d
      BY <1>1, <2>1, <2>2 DEF QuietInv, MoveInv
    <2>4. \A c \in calls : CallAgrees(c, members) /\ members # <<>>
      BY <1>4 DEF QuietInv, MoveInv
    <2>5. \A c \in calls : CallAgrees(c, members')
      BY <1>2, <2>2, <2>4 DEF CallAgrees, InRoom, Listed
    <2>6. CallAgrees(call, members')
      BY <1>2, <2>1 DEF CallAgrees, InRoom, Listed
    <2> QED
      BY <1>1, <2>3, <2>5, <2>6 DEF MoveInv
  <1>7. ChatInv'
    <2> SUFFICES ASSUME NEW v \in Users, ~Pending(v)'
                 PROVE  v \in chat' <=> v \in InRoom'
      BY DEF ChatInv
    <2>1. call.user = u
      BY DEF Call
    <2>2. v # u /\ ~Pending(v)
      BY <1>1, <2>1 DEF Pending
    <2>3. CASE members = <<>>
      BY <1>1, <1>2, <1>4, <2>2, <2>3 DEF InRoom
    <2>4. CASE members # <<>>
      BY <1>1, <1>2, <2>2, <2>4 DEF QuietInv, ChatInv
    <2> QED
      BY <2>3, <2>4
  <1> QED
    BY <1>1, <1>3, <1>5, <1>6, <1>7 DEF QuietInv

LEMMA QuietLeave ==
    ASSUME TableInv, CallInv, ListInv, RoomInv, QuietInv, NEW u \in Users, LeaveRoom(u), ~overlap'
    PROVE  QuietInv'
  <1> DEFINE call == Call(sent + 1, "delete", u)
  <1>1. /\ u \in InRoom /\ members' = Without(members, u)
        /\ active' = active \ RowsOf(u, active)
        /\ calls' = calls \cup {call} /\ ~Pending(u)
        /\ chat' = chat /\ ended' = ended
    BY DEF LeaveRoom
  <1>2. members # <<>> /\ Len(members') = Len(members) - 1 /\ InRoom' = InRoom \ {u}
    <2>1. members # <<>>
      BY <1>1 DEF InRoom
    <2>2. u \in Listed(members)
      BY <1>1 DEF InRoom, Listed
    <2>3. Len(members') = Len(members) - 1 /\ Listed(members') = Listed(members) \ {u}
      BY <1>1, <2>2, WithoutOne DEF ListInv
    <2> QED
      BY <2>1, <2>3 DEF InRoom, Listed
  <1>3. ~ended
    BY <1>2 DEF QuietInv
  <1>4. RowInv'
    <2>1. PICK row \in active : row[2] = u
      BY <1>1 DEF QuietInv, RowInv
    <2>2. active' = active \ {row}
      BY <1>1, <2>1 DEF QuietInv, RowInv, RowsOf
    <2>3. {r[2] : r \in active'} = InRoom'
      BY <1>2, <2>1, <2>2 DEF QuietInv, RowInv
    <2>4. Cardinality(active') = Cardinality(active) - 1
      BY <2>1, <2>2, FS_RemoveElement DEF TableInv, RowsFit
    <2> QED
      BY <1>2, <2>2, <2>3, <2>4 DEF QuietInv, RowInv
  <1>5. MoveInv'
    <2>1. call.user = u /\ call.op = "delete" /\ call.pc = "sent" /\ call.closes = FALSE
      BY DEF Call
    <2>2. \A c \in calls : c.user # u
      BY <1>1 DEF Pending
    <2>3. \A c, d \in calls' : c.user = d.user => c = d
      BY <1>1, <2>1, <2>2 DEF QuietInv, MoveInv
    <2>4. \A c \in calls : CallAgrees(c, members)
      BY DEF QuietInv, MoveInv
    <2>5. \A c \in calls : CallAgrees(c, members')
      BY <1>2, <2>2, <2>4 DEF CallAgrees, InRoom, Listed
    <2>6. CallAgrees(call, members')
      BY <1>2, <2>1 DEF CallAgrees, InRoom, Listed
    <2> QED
      BY <1>1, <2>3, <2>5, <2>6 DEF MoveInv
  <1>6. ChatInv'
    <2> SUFFICES ASSUME NEW v \in Users, ~Pending(v)'
                 PROVE  v \in chat' <=> v \in InRoom'
      BY DEF ChatInv
    <2>1. call.user = u
      BY DEF Call
    <2>2. v # u /\ ~Pending(v)
      BY <1>1, <2>1 DEF Pending
    <2> QED
      BY <1>1, <1>2, <2>2 DEF QuietInv, ChatInv
  <1> QED
    BY <1>1, <1>3, <1>4, <1>5, <1>6 DEF QuietInv

LEMMA QuietRead ==
    ASSUME TableInv, CallInv, ListInv, RoomInv, QuietInv, NEW c \in calls, Read(c)
    PROVE  QuietInv'
  <1>1. c \in CallType /\ CallAgrees(c, members) /\ c.pc = "sent"
    BY DEF CallInv, CallFits, QuietInv, MoveInv, Read
  <1>2. UNCHANGED <<members, active, ended, chat>> /\ room # "dropped"
    BY DEF Read, spectator, RoomInv
  <1>3. CASE ended
    <2>1. calls' = calls \ {c} /\ members = <<>>
      BY <1>2, <1>3 DEF Read, QuietInv
    <2>2. MoveInv'
      BY <1>2, <2>1 DEF QuietInv, MoveInv, CallAgrees
    <2>3. RowInv' /\ ChatInv'
      BY <1>2, <2>1 DEF QuietInv, RowInv, ChatInv, InRoom
    <2> QED
      BY <1>2, <2>1, <2>2, <2>3 DEF QuietInv
  <1>4. CASE ~ended
    <2> DEFINE d == [c EXCEPT !.pc = "read", !.view = View]
    <2>1. calls' = (calls \ {c}) \cup {d}
      BY <1>2, <1>4 DEF Read, Becomes
    <2>2. /\ d.user = c.user /\ d.op = c.op /\ d.pc = "read" /\ d.closes = c.closes
          /\ d.view.active = active
      BY <1>1 DEF CallType, View
    <2>3. RowsOf(c.user, active) = {} <=> c.user \notin Listed(members)
      BY DEF QuietInv, RowInv, RowsOf, InRoom, Listed
    <2>4. c.op = "put" \/ c.op = "delete"
      BY <1>1 DEF CallType
    <2>5. active = {} => members = <<>>
      BY DEF QuietInv, RowInv, InRoom, ListInv
    <2>6. \A r, q \in active : r[2] = q[2] => r = q
      BY DEF QuietInv, RowInv
    <2> HIDE DEF d
    <2>7. CallAgrees(d, members)
      BY <1>1, <2>2, <2>3, <2>4, <2>5, <2>6 DEF CallAgrees
    <2> QED
      BY <1>2, <2>1, <2>2, <2>7, QuietReplaced
  <1> QED
    BY <1>3, <1>4

\* The handler of a join finds the row the spectator wrote, and no second one.
LEMMA QuietPut ==
    ASSUME TableInv, CallInv, ListInv, RoomInv, QuietInv, NEW c \in calls, Put(c)
    PROVE  QuietInv'
  <1> DEFINE d == [c EXCEPT !.pc = "chat"]
             mine == RowsOf(c.user, c.view.active)
             extra == {r \in mine : \E q \in mine : q[1] < r[1]}
  <1>1. c \in CallType /\ RowsFit(c.view.active, nextRow) /\ CallAgrees(c, members)
    BY DEF CallInv, CallFits, QuietInv, MoveInv
  <1>2. c.pc = "read" /\ c.op = "put" /\ UNCHANGED <<members, ended, chat>>
    BY DEF Put, spectator
  <1>3. mine # {} /\ \A r, q \in mine : r = q
    BY <1>1, <1>2 DEF CallAgrees, RowsOf
  <1>4. \A r \in mine : r[1] \in Nat
    BY <1>1 DEF RowsOf, RowsFit, RowType
  <1>5. extra = {}
    <2> SUFFICES ASSUME NEW r \in mine, NEW q \in mine, q[1] < r[1]
                 PROVE  FALSE
      OBVIOUS
    <2>1. r = q /\ r[1] \in Nat
      BY <1>3, <1>4
    <2> QED
      BY <2>1
  <1>6. active' = active \ extra
    BY <1>3 DEF Put
  <1>7. active' = active
    BY <1>5, <1>6
  <1>8. calls' = (calls \ {c}) \cup {d}
    BY DEF Put, Becomes
  <1>9. d.user = c.user /\ d.op = c.op /\ d.pc = "chat" /\ d.closes = c.closes
    BY <1>1 DEF CallType
  <1> HIDE DEF d, mine, extra
  <1>10. CallAgrees(d, members)
    BY <1>1, <1>9 DEF CallAgrees
  <1> QED
    BY <1>2, <1>7, <1>8, <1>9, <1>10, QuietReplaced

\* The handler of a departure finds no row, and an empty room only if it is one.
LEMMA QuietDelete ==
    ASSUME TableInv, CallInv, ListInv, RoomInv, QuietInv, NEW c \in calls, Delete(c)
    PROVE  QuietInv'
  <1> DEFINE rest == c.view.active \ RowsOf(c.user, c.view.active)
             d == [c EXCEPT !.pc = "chat", !.closes = EndIfEmpty(rest)]
  <1>1. c \in CallType /\ RowsFit(c.view.active, nextRow) /\ CallAgrees(c, members)
    BY DEF CallInv, CallFits, QuietInv, MoveInv
  <1>2. c.pc = "read" /\ c.op = "delete" /\ UNCHANGED <<members, chat>>
    BY DEF Delete, spectator
  <1>3. RowsOf(c.user, c.view.active) = {}
    BY <1>1, <1>2 DEF CallAgrees
  <1>4. active' = active /\ ended' = (ended \/ EndIfEmpty(rest)) /\ calls' = (calls \ {c}) \cup {d}
    BY <1>3 DEF Delete, Becomes
  <1>5. EndIfEmpty(rest) => members = <<>>
    <2>1. rest = c.view.active /\ IsFiniteSet(rest)
      BY <1>1, <1>3 DEF RowsFit
    <2>2. EndIfEmpty(rest) => rest = {}
      BY <2>1, FS_EmptySet DEF EndIfEmpty
    <2> QED
      BY <1>1, <1>2, <2>1, <2>2 DEF CallAgrees
  <1>6. /\ d.user = c.user /\ d.op = c.op /\ d.pc = "chat" /\ d.closes = EndIfEmpty(rest)
    BY <1>1 DEF CallType
  <1> HIDE DEF d, rest
  <1>7. CallAgrees(d, members)
    BY <1>1, <1>5, <1>6 DEF CallAgrees
  <1> QED
    BY <1>2, <1>4, <1>5, <1>6, <1>7, QuietReplaced

\* What the end of a call does to the channel.
LEMMA ChatFollows ==
    ASSUME QuietInv, CallInv, NEW c \in calls, members # <<>>
    PROVE  \A v \in Users : IF v = c.user THEN v \in ChatAfter(c) <=> v \in InRoom
                                          ELSE v \in ChatAfter(c) <=> v \in chat
  <1>1. ~c.closes /\ (c.user \in Listed(members) <=> c.op = "put")
    BY DEF QuietInv, MoveInv, CallAgrees
  <1>2. ChatAfter(c) = IF c.op = "put" THEN chat \cup {c.user} ELSE chat \ {c.user}
    BY <1>1 DEF ChatAfter
  <1> QED
    BY <1>1, <1>2 DEF InRoom, Listed

LEMMA QuietChat ==
    ASSUME CallInv, QuietInv, NEW c \in calls, Chat(c)
    PROVE  QuietInv'
  <1>1. /\ UNCHANGED <<members, active, ended>>
        /\ calls' = calls \ {c} /\ chat' = ChatAfter(c)
    BY DEF Chat, spectator
  <1>2. RowInv'
    BY <1>1 DEF QuietInv, RowInv, InRoom
  <1>3. MoveInv'
    BY <1>1 DEF QuietInv, MoveInv, CallAgrees
  <1>4. ChatInv'
    <2> SUFFICES ASSUME members # <<>>, NEW v \in Users, ~Pending(v)'
                 PROVE  v \in chat' <=> v \in InRoom
      BY <1>1 DEF ChatInv, InRoom
    <2>1. CASE v = c.user
      BY <1>1, <2>1, ChatFollows
    <2>2. CASE v # c.user
      <3>1. ~Pending(v)
        BY <1>1, <2>2 DEF Pending
      <3> QED
        BY <1>1, <2>2, <3>1, ChatFollows DEF QuietInv, ChatInv
    <2> QED
      BY <2>1, <2>2
  <1> QED
    BY <1>1, <1>2, <1>3, <1>4 DEF QuietInv

LEMMA QuietRepeat ==
    ASSUME CallInv, QuietInv, NEW c \in calls, Repeat(c)
    PROVE  QuietInv'
  <1> DEFINE d == Call(c.n, c.op, c.user)
  <1>1. /\ UNCHANGED <<members, active, ended>>
        /\ calls' = (calls \ {c}) \cup {d} /\ chat' = ChatAfter(c)
    BY DEF Repeat, Becomes, spectator
  <1>2. RowInv'
    BY <1>1 DEF QuietInv, RowInv, InRoom
  <1>3. d.user = c.user /\ d.op = c.op /\ d.pc = "sent" /\ d.closes = FALSE
    BY DEF Call
  <1>4. CallAgrees(d, members)
    BY <1>3 DEF QuietInv, MoveInv, CallAgrees
  <1>5. MoveInv' /\ \A u : Pending(u)' <=> Pending(u)
    BY <1>1, <1>3, <1>4, MoveReplaced DEF QuietInv
  <1>6. ChatInv'
    <2> SUFFICES ASSUME members # <<>>, NEW v \in Users, ~Pending(v)'
                 PROVE  v \in chat' <=> v \in InRoom
      BY <1>1 DEF ChatInv, InRoom
    <2>1. ~Pending(v)
      BY <1>5
    <2>2. v # c.user
      BY <2>1 DEF Pending
    <2> QED
      BY <1>1, <2>1, <2>2, ChatFollows DEF QuietInv, ChatInv
  <1> QED
    BY <1>1, <1>2, <1>5, <1>6 DEF QuietInv

(***************************************************************************)
(* The invariant and what follows from it.                                 *)
(***************************************************************************)
LEMMA QuietStep ==
    ASSUME Inv, [Next]_vars, ~overlap'
    PROVE  QuietInv'
  <1>1. TableInv /\ CallInv /\ ListInv /\ RoomInv
    BY DEF Inv
  <1>2. ~overlap
    <2>1. ASSUME NEW u \in Users, CreateRoom(u) \/ JoinRoom(u) \/ LeaveRoom(u)
          PROVE  ~overlap
      BY <2>1 DEF CreateRoom, JoinRoom, LeaveRoom
    <2>2. CASE CreateFails \/ CloseRoom \/ KeepRoom
      BY <2>2 DEF CreateFails, CloseRoom, KeepRoom
    <2>3. CASE \E c \in calls : Read(c) \/ Put(c) \/ Delete(c) \/ Chat(c) \/ Repeat(c)
      BY <2>3, HandlersKeepSpectator DEF spectator
    <2>4. CASE UNCHANGED vars
      BY <2>4 DEF vars
    <2> QED
      BY <2>1, <2>2, <2>3, <2>4 DEF Next
  <1>3. QuietInv
    BY <1>2 DEF Inv
  <1>4. ASSUME NEW u \in Users, CreateRoom(u)
        PROVE  QuietInv'
    <2>1. members = <<>> /\ UNCHANGED <<members, active, calls, ended>>
      BY <1>1, <1>4 DEF CreateRoom, RoomInv
    <2> QED
      BY <1>1, <1>3, <2>1, QuietKept
  <1>5. CASE CreateFails \/ KeepRoom
    <2>1. UNCHANGED <<members, active, calls, ended, chat>>
      BY <1>5 DEF CreateFails, KeepRoom
    <2> QED
      BY <1>1, <1>3, <2>1, QuietKept
  <1>6. CASE CloseRoom
    <2>1. members = <<>> /\ UNCHANGED <<members, active, calls, chat>>
      BY <1>6 DEF CloseRoom
    <2> QED
      BY <1>1, <1>3, <2>1, QuietKept
  <1>7. ASSUME NEW u \in Users, JoinRoom(u) \/ LeaveRoom(u)
        PROVE  QuietInv'
    BY <1>1, <1>3, <1>7, QuietJoin, QuietLeave
  <1>8. ASSUME NEW c \in calls, Read(c) \/ Put(c) \/ Delete(c) \/ Chat(c) \/ Repeat(c)
        PROVE  QuietInv'
    BY <1>1, <1>3, <1>8, QuietRead, QuietPut, QuietDelete, QuietChat, QuietRepeat
  <1>9. CASE UNCHANGED vars
    <2>1. UNCHANGED <<members, active, calls, ended, chat>>
      BY <1>9 DEF vars
    <2> QED
      BY <1>1, <1>3, <2>1, QuietKept
  <1> QED
    BY <1>4, <1>5, <1>6, <1>7, <1>8, <1>9 DEF Next

LEMMA InvInit == Init => Inv
  <1> SUFFICES ASSUME Init PROVE Inv
    OBVIOUS
  <1>1. IsFiniteSet({}) /\ Cardinality({}) = 0
    BY FS_EmptySet
  <1>2. TableInv
    <2>1. nextRow = 1 /\ active = {} /\ count = 0 /\ sent = 0 /\ repeats = 0
      BY DEF Init
    <2>2. RowsFit(active, nextRow)
      BY <1>1, <2>1 DEF RowsFit
    <2>3. MaxRows \in Nat \ {0} /\ MaxCalls \in Nat /\ MaxRepeats \in Nat
      BY RoomBounds
    <2>4. /\ nextRow \in 1 .. MaxRows + 1 /\ count \in 0 .. MaxRows
          /\ sent \in 0 .. MaxCalls /\ repeats \in 0 .. MaxRepeats
      BY <2>1, <2>3
    <2>5. /\ {dbHost, host, leaving} \subseteq Users \cup {NoUser}
          /\ {ended, overlap} \subseteq BOOLEAN /\ chat \subseteq Users
      BY DEF Init
    <2> QED
      BY <2>1, <2>2, <2>4, <2>5 DEF TableInv
  <1>3. CallInv /\ RoomInv
    BY DEF Init, CallInv, RoomInv
  <1>4. ListInv
    BY DEF Init, ListInv, OnceEach
  <1>5. QuietInv
    BY <1>1 DEF Init, QuietInv, RowInv, MoveInv, ChatInv, InRoom
  <1> QED
    BY <1>2, <1>3, <1>4, <1>5 DEF Inv

LEMMA InvStep == Inv /\ [Next]_vars => Inv'
  <1> SUFFICES ASSUME Inv, [Next]_vars PROVE Inv'
    OBVIOUS
  <1>1. TableInv' /\ nextRow' \in Nat /\ nextRow' >= nextRow
    BY TableStep DEF Inv
  <1>2. CallInv' /\ ListInv' /\ RoomInv'
    BY <1>1, CallStep, ListStep, RoomStep DEF Inv
  <1>3. ~overlap' => QuietInv'
    BY QuietStep
  <1> QED
    BY <1>1, <1>2, <1>3 DEF Inv

\* The room, its rows, its channel and the calls under way keep their types,
\* for every number of players, rows, calls and repeats.
THEOREM RoomTypeCorrect == Spec => []TypeOK
  <1>1. Inv => TypeOK
    <2> SUFFICES ASSUME Inv PROVE TypeOK
      OBVIOUS
    <2>1. active \subseteq (1 .. MaxRows) \X Users /\ \A r, q \in active : r[1] = q[1] => r = q
      BY DEF Inv, TableInv, RowsFit, RowType
    <2>2. /\ nextRow \in 1 .. MaxRows + 1 /\ count \in 0 .. MaxRows
          /\ sent \in 0 .. MaxCalls /\ repeats \in 0 .. MaxRepeats
      BY DEF Inv, TableInv
    <2>3. /\ {host, leaving, dbHost} \subseteq Users \cup {NoUser}
          /\ {ended, overlap} \subseteq BOOLEAN /\ chat \subseteq Users
      BY DEF Inv, TableInv
    <2>4. members \in Seq(Users) /\ room \in {"absent", "made", "dropped", "open", "gone"}
      BY DEF Inv, ListInv, RoomInv
    <2>5. \A c \in calls : /\ c.n \in 1 .. MaxCalls
                           /\ c.op \in {"put", "delete"}
                           /\ c.pc \in {"sent", "read", "chat"}
      BY DEF Inv, CallInv, CallFits, CallType
    <2> QED
      BY <2>1, <2>2, <2>3, <2>4, <2>5 DEF TypeOK
  <1> QED
    BY <1>1, InvInit, InvStep, PTL DEF Spec

\* When the calls have drained, the rows, the channel and the spectator's list
\* hold the same users, unless a player moved before the app handled the last
\* move of that player.
THEOREM RegistryAlwaysAgrees == Spec => []RegistryAgrees
  <1>1. Inv => RegistryAgrees
    <2> SUFFICES ASSUME Inv, AtRest, room = "open", ~overlap
                 PROVE  /\ {r[2] : r \in active} = InRoom
                        /\ Cardinality(active) = Len(members)
                        /\ chat = InRoom
      BY DEF RegistryAgrees
    <2>1. members # <<>> /\ \A u \in Users : ~Pending(u)
      BY DEF Inv, RoomInv, AtRest, Pending
    <2>2. chat \subseteq Users /\ InRoom \subseteq Users
      BY DEF Inv, TableInv, ListInv, InRoom
    <2>3. chat = InRoom
      BY <2>1, <2>2 DEF Inv, QuietInv, ChatInv
    <2> QED
      BY <2>3 DEF Inv, QuietInv, RowInv
  <1> QED
    BY <1>1, InvInit, InvStep, PTL DEF Spec

\* Under the same condition no handler, however late or repeated, ends a room
\* that somebody is in.
THEOREM PlayedRoomsAlwaysOpen == Spec => []PlayedRoomsStayOpen
  <1>1. Inv => PlayedRoomsStayOpen
    BY DEF Inv, QuietInv, PlayedRoomsStayOpen
  <1> QED
    BY <1>1, InvInit, InvStep, PTL DEF Spec

=============================================================================
