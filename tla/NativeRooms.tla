---------------------------- MODULE NativeRooms ----------------------------
(***************************************************************************)
(* One ordinary multiplayer room as three parts of the system keep it: the *)
(* spectator server's room (under its room lock), the tables the spectator *)
(* writes itself and the app changes on its calls, and the room's chat     *)
(* channel in the app's memory.                                            *)
(*                                                                         *)
(* When a player joins or leaves, the spectator writes the participant row *)
(* at once and tells the app in the background (app/router/lio.py): the    *)
(* calls overtake each other and are repeated when the answer is lost.     *)
(* The app takes no row locks.  A handler reads from the view of its first *)
(* query (REPEATABLE READ), while its updates hit the current rows, so     *)
(* each handler is a step that reads and a step that writes and commits.   *)
(***************************************************************************)
EXTENDS Naturals, Sequences, FiniteSets

CONSTANTS
    Users,
    NoUser,
    MaxRows,     \* bound: participant rows
    MaxCalls,    \* bound: joins and leaves, each with its background call
    MaxRepeats   \* bound: calls whose answer is lost

ASSUME RoomBounds == /\ NoUser \notin Users
                     /\ MaxRows \in Nat \ {0} /\ {MaxCalls, MaxRepeats} \subseteq Nat

VARIABLES
    room,        \* "absent", "made", "dropped", "open", "gone"
    members,     \* the spectator's list of users
    host,        \* the spectator's host
    leaving,     \* the user whose departure holds the room lock
    active,      \* participant rows with no left_at, as <<id, user>>
    nextRow,     \* the id of the next row
    dbHost, count, ended,   \* the row of the room: host_id, participant_count, ends_at
    chat,        \* the users in the room's channel
    calls,       \* background calls under way
    sent, repeats,
    overlap      \* history: a player moved before the app handled the last move

vars == <<room, members, host, leaving, active, nextRow, dbHost, count, ended, chat,
          calls, sent, repeats, overlap>>

spectator == <<room, members, host, leaving, sent, overlap>>

InRoom == {members[i] : i \in DOMAIN members}

RowsOf(u, rows) == {r \in rows : r[2] = u}

\* A list of users without one of them.
Without(list, u) ==
    LET k == CHOOSE i \in DOMAIN list : list[i] = u
    IN  [i \in 1 .. Len(list) - 1 |-> IF i < k THEN list[i] ELSE list[i + 1]]

NoView == [active |-> {}, ended |-> FALSE, host |-> NoUser]

View == [active |-> active, ended |-> ended, host |-> dbHost]

Call(n, op, u) == [n |-> n, op |-> op, user |-> u, pc |-> "sent", view |-> NoView, closes |-> FALSE]

Pending(u) == \E c \in calls : c.user = u

Init ==
    /\ room = "absent" /\ members = <<>> /\ host = NoUser /\ leaving = NoUser
    /\ active = {} /\ nextRow = 1
    /\ dbHost = NoUser /\ count = 0 /\ ended = FALSE
    /\ chat = {}
    /\ calls = {} /\ sent = 0 /\ repeats = 0
    /\ overlap = FALSE

(***************************************************************************)
(* Creation.  The room's row is committed first, with a count of one and   *)
(* no participant; the host enters the channel and the playlist follows.   *)
(***************************************************************************)
CreateRoom(u) ==
    /\ room = "absent"
    /\ room' = "made"
    /\ dbHost' = u
    /\ count' = 1
    /\ chat' = {u}
    /\ UNCHANGED <<members, host, leaving, active, nextRow, ended, calls, sent, repeats, overlap>>

\* The playlist is refused: the row is deleted again.
CreateFails ==
    /\ room = "made"
    /\ room' = "dropped"
    /\ dbHost' = NoUser
    /\ count' = 0
    /\ UNCHANGED <<members, host, leaving, active, nextRow, ended, chat, calls, sent, repeats, overlap>>

(***************************************************************************)
(* The spectator.                                                          *)
(***************************************************************************)
\* A user joins, the creator first: the row and the count are written, the
\* app is told in the background.
JoinRoom(u) ==
    /\ \/ room = "made" /\ u = dbHost
       \/ room = "open"
    /\ leaving = NoUser
    /\ u \notin InRoom
    /\ sent < MaxCalls /\ nextRow <= MaxRows
    /\ room' = "open"
    /\ members' = Append(members, u)
    /\ host' = IF room = "made" THEN u ELSE host
    /\ active' = active \cup {<<nextRow, u>>}
    /\ nextRow' = nextRow + 1
    /\ count' = Len(members')
    /\ calls' = calls \cup {Call(sent + 1, "put", u)}
    /\ sent' = sent + 1
    /\ overlap' = (overlap \/ Pending(u))
    /\ UNCHANGED <<leaving, dbHost, ended, chat, repeats>>

\* A user leaves: the row, the count and the call.
LeaveRoom(u) ==
    /\ room = "open"
    /\ leaving = NoUser
    /\ u \in InRoom
    /\ sent < MaxCalls
    /\ members' = Without(members, u)
    /\ leaving' = u
    /\ active' = active \ RowsOf(u, active)
    /\ count' = Len(members')
    /\ calls' = calls \cup {Call(sent + 1, "delete", u)}
    /\ sent' = sent + 1
    /\ overlap' = (overlap \/ Pending(u))
    /\ UNCHANGED <<room, host, nextRow, dbHost, ended, chat, repeats>>

\* The last user has left: the match is ended, with everyone who ever
\* participated counted, and the spectator forgets the room.
CloseRoom ==
    /\ leaving # NoUser
    /\ members = <<>>
    /\ room' = "gone"
    /\ leaving' = NoUser
    /\ ended' = TRUE
    /\ count' = nextRow - 1
    /\ UNCHANGED <<members, host, active, nextRow, dbHost, chat, calls, sent, repeats, overlap>>

\* Others remain: the first of them becomes the host if the host left.
KeepRoom ==
    /\ leaving # NoUser
    /\ members # <<>>
    /\ leaving' = NoUser
    /\ host' = IF host = leaving THEN members[1] ELSE host
    /\ dbHost' = IF host = leaving THEN members[1] ELSE dbHost
    /\ UNCHANGED <<room, members, active, nextRow, count, ended, chat, calls, sent, repeats, overlap>>

(***************************************************************************)
(* The app's handlers.                                                     *)
(***************************************************************************)
Becomes(c, d) == calls' = (calls \ {c}) \cup {d}

\* The first query of either handler: the view is taken, an ended room is left alone.
Read(c) ==
    /\ c.pc = "sent"
    /\ IF ended \/ room = "dropped"
         THEN calls' = calls \ {c}
         ELSE Becomes(c, [c EXCEPT !.pc = "read", !.view = View])
    /\ UNCHANGED <<spectator, active, nextRow, dbHost, count, ended, chat, repeats>>

\* Mutation: every call inserts a row.
InsertAlways(c) ==
    /\ c.pc = "read" /\ c.op = "put"
    /\ nextRow <= MaxRows
    /\ active' = active \cup {<<nextRow, c.user>>}
    /\ nextRow' = nextRow + 1
    /\ count' = Cardinality(c.view.active) + 1
    /\ Becomes(c, [c EXCEPT !.pc = "chat"])
    /\ UNCHANGED <<spectator, dbHost, ended, chat, repeats>>

\* Mutation: a new row takes the id of the next one.
PutKeepsId(c) ==
    LET mine == RowsOf(c.user, c.view.active) IN
    /\ c.pc = "read" /\ c.op = "put"
    /\ active' = IF mine = {} THEN active \cup {<<nextRow, c.user>>} ELSE active
    /\ count' = Cardinality(c.view.active \cup mine)
    /\ Becomes(c, [c EXCEPT !.pc = "chat"])
    /\ UNCHANGED <<spectator, nextRow, dbHost, ended, chat, repeats>>

\* add_user_to_room: one row of the user stays active, or a new one is made;
\* the count is what the handler's own view holds then.
Put(c) ==
    LET mine  == RowsOf(c.user, c.view.active)
        extra == {r \in mine : \E q \in mine : q[1] < r[1]}
    IN
    /\ c.pc = "read" /\ c.op = "put"
    /\ IF mine = {}
         THEN /\ nextRow <= MaxRows
              /\ active' = active \cup {<<nextRow, c.user>>}
              /\ nextRow' = nextRow + 1
              /\ count' = Cardinality(c.view.active) + 1
         ELSE /\ active' = active \ extra
              /\ nextRow' = nextRow
              /\ count' = Cardinality(c.view.active \ extra)
    /\ Becomes(c, [c EXCEPT !.pc = "chat"])
    /\ UNCHANGED <<spectator, dbHost, ended, chat, repeats>>

\* Mutation: a room with one participant left counts as empty.
EndIfAlmostEmpty(rows) == Cardinality(rows) <= 1

\* _end_room_if_empty, on the rows the handler sees.
EndIfEmpty(rows) == Cardinality(rows) = 0

\* remove_user_from_room: every active row of the user is closed.  A host hands
\* over to another participant of the view, without a new count; otherwise the
\* count is written and an empty room is ended.
Delete(c) ==
    LET rest   == c.view.active \ RowsOf(c.user, c.view.active)
        others == {r[2] : r \in rest}
        known  == RowsOf(c.user, c.view.active) # {}
    IN
    /\ c.pc = "read" /\ c.op = "delete"
    /\ active' = IF known THEN active \ RowsOf(c.user, active) ELSE active
    /\ IF known /\ c.user = c.view.host /\ others # {}
         THEN /\ dbHost' \in others
              /\ UNCHANGED <<count, ended>>
              /\ Becomes(c, [c EXCEPT !.pc = "chat"])
         ELSE /\ dbHost' = dbHost
              /\ count' = Cardinality(rest)
              /\ ended' = (ended \/ EndIfEmpty(rest))
              /\ Becomes(c, [c EXCEPT !.pc = "chat", !.closes = EndIfEmpty(rest)])
    /\ UNCHANGED <<spectator, nextRow, chat, repeats>>

\* The user enters or leaves the channel; that of a room the call ended is dropped.
ChatAfter(c) ==
    CASE c.op = "put" -> chat \cup {c.user}
      [] c.closes     -> {}
      [] OTHER        -> chat \ {c.user}

\* The channel follows after the commit.
Chat(c) ==
    /\ c.pc = "chat"
    /\ chat' = ChatAfter(c)
    /\ calls' = calls \ {c}
    /\ UNCHANGED <<spectator, active, nextRow, dbHost, count, ended, repeats>>

\* The answer is lost after the handler ended: the spectator calls again.
Repeat(c) ==
    /\ c.pc = "chat"
    /\ repeats < MaxRepeats
    /\ repeats' = repeats + 1
    /\ chat' = ChatAfter(c)
    /\ Becomes(c, Call(c.n, c.op, c.user))
    /\ UNCHANGED <<spectator, active, nextRow, dbHost, count, ended>>

Next ==
    \/ \E u \in Users : CreateRoom(u) \/ JoinRoom(u) \/ LeaveRoom(u)
    \/ CreateFails \/ CloseRoom \/ KeepRoom
    \/ \E c \in calls : Read(c) \/ Put(c) \/ Delete(c) \/ Chat(c) \/ Repeat(c)

Spec == Init /\ [][Next]_vars

(***************************************************************************)
(* Properties.                                                             *)
(***************************************************************************)
\* The room, its rows and the calls under way hold values of their types.
TypeOK ==
    /\ room \in {"absent", "made", "dropped", "open", "gone"}
    /\ members \in Seq(Users)
    /\ {host, leaving, dbHost} \subseteq Users \cup {NoUser}
    /\ active \subseteq (1 .. MaxRows) \X Users
    /\ \A r, q \in active : r[1] = q[1] => r = q
    /\ nextRow \in 1 .. MaxRows + 1
    /\ count \in 0 .. MaxRows
    /\ {ended, overlap} \subseteq BOOLEAN
    /\ chat \subseteq Users
    /\ \A c \in calls : /\ c.n \in 1 .. MaxCalls
                        /\ c.op \in {"put", "delete"}
                        /\ c.pc \in {"sent", "read", "chat"}
    /\ sent \in 0 .. MaxCalls /\ repeats \in 0 .. MaxRepeats

AtRest == calls = {} /\ leaving = NoUser

\* As long as each player's moves are handled before the next move of the same
\* player, the three views of a room agree when the calls have drained: one
\* active row for each of the spectator's users, and the same users in the
\* channel, however calls of different players interleave or repeat.
RegistryAgrees ==
    (AtRest /\ room = "open" /\ ~overlap) =>
        /\ {r[2] : r \in active} = InRoom
        /\ Cardinality(active) = Len(members)
        /\ chat = InRoom

\* Under the same condition the app never ends a room while someone is in it.
PlayedRoomsStayOpen == ~overlap /\ ended => members = <<>>

=============================================================================
