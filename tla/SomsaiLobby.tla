---------------------------- MODULE SomsaiLobby ----------------------------
(***************************************************************************)
(* Who is doing what: the parties, reservations, searches, matches and     *)
(* native room leases of the SOMSAI coordinator                            *)
(* (app/features/somsai/services/somsai_party_service.py and               *)
(* somsai_service.py, routers/somsai_lio.py).                              *)
(*                                                                         *)
(* Four tables hold one player's occupation: the activity row (party,      *)
(* reservation, match), the reservation and its members, the queue entry   *)
(* or the match that owns the reservation, and the lease of a native room. *)
(* Every handler keeps them in step by hand, under the row lock of         *)
(* SomsaiLock, so a handler is one action; taking the lock first expires   *)
(* stale parties, which is therefore part of every action that takes it.   *)
(*                                                                         *)
(* Abstractions.  What a match goes through is SomsaiMatch's subject: here *)
(* it waits, is live, and is final.  Ratings and waiting times only decide *)
(* which searches are compatible, and any may be.  An invitation is a      *)
(* permission whose every condition is tested again when it is accepted,   *)
(* at which moment it could also have been sent: it is not kept.  The bots *)
(* and the privacy of custom matches are left out.  A reservation id is    *)
(* fresh when nothing refers to it.                                        *)
(*                                                                         *)
(* A definition marked "Mutation" is a plausible mistake in a definition   *)
(* that follows it; no specification uses it.                              *)
(***************************************************************************)
EXTENDS Integers, FiniteSets, FiniteSetsExt, SequencesExt

CONSTANTS
    Players,
    Nobody,      \* no player
    None,        \* no party, reservation, match or room
    Restrictable,\* players that may be restricted or deactivated
    Sizes,       \* team sizes that are queued and created: 1 for 1v1, 2 for 2v2
    Rooms,       \* native multiplayer rooms that do not belong to a match
    Parties,     \* bound: ids of parties, reused once inactive
    Resvs,       \* bound: ids of reservations, reused once unreferenced
    Matches,     \* bound: ids of matches, used once; also the ids of their rooms
    Customs,     \* are custom matches and duels played?
    LateLeaves,  \* can "leave_match" for a final match arrive after the player
                 \* has gone on to something else?
    SearchersRoam\* can a player who searches enter a native room?

ASSUME LobbyAssumption ==
    /\ Restrictable \subseteq Players /\ Nobody \notin Players
    /\ Sizes \subseteq {1, 2}
    /\ Parties \subseteq Nat /\ Resvs \subseteq Nat /\ Matches \subseteq Nat
    /\ None \notin Nat \cup Rooms /\ Rooms \cap Nat = {}
    /\ {Customs, LateLeaves, SearchersRoam} \subseteq BOOLEAN

VARIABLES
    usable,   \* players that are active and not restricted
    seen,     \* players whose client polled in the last 15 seconds
    party,    \* SomsaiParty: its members in order of arrival, and its captain
    partyOf,  \* SomsaiActivity.party_id
    holds,    \* SomsaiActivity.reservation_id
    matchOf,  \* SomsaiActivity.match_id
    resv,     \* rows of SomsaiReservation
    queue,    \* rows of SomsaiQueue
    match,    \* SomsaiMatch
    lease     \* SomsaiNativeRoom: the room of a lease that is not expired

partyVars == <<party, partyOf>>
bookVars == <<holds, matchOf, resv, queue, match>>
vars == <<usable, seen, partyVars, bookVars, lease>>

Row == [id : Resvs, captain : Players, members : SUBSET Players,
        custom : BOOLEAN]
Entry == [resv : Resvs, members : SUBSET Players, size : {1, 2}, late : BOOLEAN]
Match == [stage : {"none", "waiting", "live", "final"}, ranked : BOOLEAN,
          size : {1, 2}, resvs : SUBSET Resvs,
          teams : [{0, 1} -> SUBSET Players]]

NoParty == [members |-> <<>>, captain |-> Nobody]
NoMatch == [stage |-> "none", ranked |-> FALSE, size |-> 1, resvs |-> {},
            teams |-> [t \in {0, 1} |-> {}]]

Running(m) == match[m].stage \in {"waiting", "live"}
MembersOf(m) == match[m].teams[0] \cup match[m].teams[1]
Searching(u) == \E e \in queue : u \in e.members
PlayingIn(u) == {m \in Matches : Running(m) /\ u \in MembersOf(m)}

\* Every table refers to players, parties, reservations and rooms that exist.
TypeOK ==
    /\ usable \subseteq Players /\ seen \subseteq Players
    /\ \A p \in Parties : /\ party[p].members \in Seq(Players)
                          /\ party[p].captain \in Players \cup {Nobody}
    /\ partyOf \in [Players -> Parties \cup {None}]
    /\ holds \in [Players -> Resvs \cup {None}]
    /\ matchOf \in [Players -> Matches \cup {None}]
    /\ resv \subseteq Row /\ queue \subseteq Entry
    /\ match \in [Matches -> Match]
    /\ lease \in [Players -> Rooms \cup Matches \cup {None}]

Init ==
    /\ usable = Players /\ seen = Players
    /\ party = [p \in Parties |-> NoParty]
    /\ partyOf = [u \in Players |-> None]
    /\ holds = [u \in Players |-> None]
    /\ matchOf = [u \in Players |-> None]
    /\ resv = {} /\ queue = {}
    /\ match = [m \in Matches |-> NoMatch]
    /\ lease = [u \in Players |-> None]

-----------------------------------------------------------------------------
(* Parties.                                                                *)

\* A party without the members that do not stay; an inactive party has none.  It
\* has two members at most (PartyAccept), who keep their order.
Trimmed(q, stays) ==
    LET Staying(i) == IF i \in DOMAIN q.members /\ q.members[i] \in stays
                      THEN <<q.members[i]>> ELSE <<>>
        left == Staying(1) \o Staying(2)
    IN [members |-> left,
        captain |-> IF left = <<>> THEN Nobody
                    ELSE IF q.captain \in stays THEN q.captain ELSE Head(left)]

\* expire_stale_parties keeps a member who is reserved, has a match (or had
\* one: the pointer outlives it), or has been seen.
KeptIfSeen == {u \in Players : matchOf[u] # None \/ u \in seen}  \* Mutation
KeptAlways == Players  \* Mutation
Kept == {u \in Players : holds[u] # None \/ matchOf[u] # None \/ u \in seen}

\* The parties as the handler finds them once it has the lock.
fresh == [p \in Parties |-> Trimmed(party[p], Kept)]
freshOf == [u \in Players |->
              IF /\ u \notin Kept /\ partyOf[u] # None
                 /\ u \in ToSet(party[partyOf[u]].members)
              THEN None ELSE partyOf[u]]
Locked == party' = fresh /\ partyOf' = freshOf

\* get_party
PartyFor(u) == IF /\ freshOf[u] # None
                  /\ u \in ToSet(fresh[freshOf[u]].members)
               THEN freshOf[u] ELSE None
Side(u) == IF PartyFor(u) = None THEN {u} ELSE ToSet(fresh[PartyFor(u)].members)
Leads(u) == PartyFor(u) # None => fresh[PartyFor(u)].captain = u
Idle(us) == \A u \in us : holds[u] = None

\* A player moves to p when nobody concerned is searching or playing.
MayMove(u, p) == holds[u] = None /\ Idle(ToSet(fresh[p].members)) /\ Idle(Side(u))

\* leave_party, for a user who is in none too.
NotWithoutUser(u) == fresh  \* Mutation
WithoutUser(u) == IF PartyFor(u) = None THEN fresh
                  ELSE [fresh EXCEPT ![PartyFor(u)] = Trimmed(@, Players \ {u})]

\* "party_create"
PartyCreate(u, p) ==
    /\ u \in usable /\ PartyFor(u) = None /\ holds[u] = None
    /\ fresh[p].members = <<>>
    /\ party' = [fresh EXCEPT ![p] = [members |-> <<u>>, captain |-> u]]
    /\ partyOf' = [freshOf EXCEPT ![u] = p]
    /\ UNCHANGED <<usable, seen, bookVars, lease>>

\* "party_leave"
PartyLeave(u) ==
    /\ u \in usable /\ PartyFor(u) # None
    /\ Idle(Side(u))
    /\ party' = WithoutUser(u)
    /\ partyOf' = [freshOf EXCEPT ![u] = None]
    /\ UNCHANGED <<usable, seen, bookVars, lease>>

\* "party_accept" of an invitation by the captain of p.
PartyAccept(u, p) ==
    /\ u \in usable /\ fresh[p].captain \in usable \ {u}
    /\ PartyFor(u) # p /\ Len(fresh[p].members) = 1
    /\ MayMove(u, p)
    /\ party' = [WithoutUser(u) EXCEPT ![p].members = Append(@, u)]
    /\ partyOf' = [freshOf EXCEPT ![u] = p]
    /\ UNCHANGED <<usable, seen, bookVars, lease>>

-----------------------------------------------------------------------------
(* The books: what the steps of a handler do to reservations, searches and *)
(* matches, as functions from books to books.                              *)

books == [holds |-> holds, matchOf |-> matchOf, resv |-> resv, queue |-> queue,
          match |-> match]
Become(b) == /\ holds' = b.holds /\ matchOf' = b.matchOf /\ resv' = b.resv
             /\ queue' = b.queue /\ match' = b.match

ReservableTwice(us) ==  \* Mutation
    us \subseteq usable /\ \A u \in us : lease[u] = None
ReservableAnywhere(us) == us \subseteq usable /\ Idle(us)  \* Mutation
ReserveForCaptain(b, u, us, r, custom) ==  \* Mutation: the wrong id is kept
    [b EXCEPT !.resv = @ \cup {[id |-> r, captain |-> u, members |-> us,
                                custom |-> custom]},
              !.holds = [v \in Players |-> IF v \in us THEN u ELSE @[v]]]

\* reserve_members: each is active, in no live native room, and not reserved.
Reservable(us) == /\ us \subseteq usable /\ Idle(us)
                  /\ \A u \in us : lease[u] = None
Reserve(b, u, us, r, custom) ==
    [b EXCEPT !.resv = @ \cup {[id |-> r, captain |-> u, members |-> us,
                                custom |-> custom]},
              !.holds = [v \in Players |-> IF v \in us THEN r ELSE @[v]]]

\* uuid4: an id nothing refers to (a final match never uses its own again).
Referenced == {row.id : row \in resv} \cup {holds[u] : u \in Players}
                 \cup {e.resv : e \in queue}
                 \cup UNION {match[m].resvs : m \in {n \in Matches : Running(n)}}
IsFresh(r, used) == r \notin used /\ \A s \in Resvs \ used : r <= s

\* release_reservation, for all of rs: a member lets go of a reservation that is
\* (still) theirs, and of the match pointer with it.
Release(b, rs) ==
    LET LetsGo(u) == \E row \in b.resv : /\ row.id \in rs /\ u \in row.members
                                         /\ b.holds[u] = row.id
        Rest(f) == [u \in Players |-> IF LetsGo(u) THEN None ELSE f[u]]
    IN [b EXCEPT !.resv = {row \in @ : row.id \notin rs},
                 !.holds = Rest(@), !.matchOf = Rest(@)]

DropReservation(b, entries) ==  \* Mutation: the queue entry is forgotten
    Release(b, {e.resv : e \in entries})
\* A search that ends without a match.
Drop(b, entries) ==
    [Release(b, {e.resv : e \in entries}) EXCEPT !.queue = @ \ entries]

PointTo(b, us, m) ==
    [b EXCEPT !.matchOf = [u \in Players |-> IF u \in us THEN m ELSE @[u]]]

\* create_match, under the next id.
IsNext(m) == /\ match[m].stage = "none"
             /\ \A n \in Matches : n < m => match[n].stage # "none"
Create(b, m, row) ==
    PointTo([b EXCEPT !.match[m] = row], row.teams[0] \cup row.teams[1], m)

FinishUnreleased(b, m) ==  \* Mutation
    PointTo([b EXCEPT !.match[m].stage = "final"], MembersOf(m), m)
\* finish_match: its reservations are released, its members keep pointing to it.
Finish(b, m) ==
    PointTo(Release([b EXCEPT !.match[m].stage = "final"], match[m].resvs),
            MembersOf(m), m)

\* balance_units: two complete teams, in which no entry is divided.
Stale(entries) == {e \in entries : e.late}
Heads(entries) == UNION {e.members : e \in entries}
HeadCount(entries) == MapThenSumSet(LAMBDA e : Cardinality(e.members), entries)
PairingsUneven(entries) ==  \* Mutation: enough players, any split
    {pair \in (SUBSET entries) \X (SUBSET entries) :
        /\ pair[1] \cap pair[2] = {} /\ pair[1] # {}
        /\ \E n \in Sizes :
              /\ \A e \in pair[1] \cup pair[2] : e.size = n
              /\ HeadCount(pair[1] \cup pair[2]) = 2 * n}
Pairings(entries) ==
    {pair \in (SUBSET entries) \X (SUBSET entries) :
        /\ pair[1] \cap pair[2] = {}
        /\ \E n \in Sizes :
              /\ \A e \in pair[1] \cup pair[2] : e.size = n
              /\ HeadCount(pair[1]) = n /\ HeadCount(pair[2]) = n}

RankedMatch(pair) ==
    [stage |-> "waiting", ranked |-> TRUE,
     size |-> HeadCount(pair[1]),
     resvs |-> {e.resv : e \in pair[1] \cup pair[2]},
     teams |-> [t \in {0, 1} |-> Heads(pair[t + 1])]]

\* match_queues, as far as one selection: stale searches are dropped, then
\* perhaps a pairing is selected.  An entry of it with an unavailable player is
\* dropped; without a pool all of them are; otherwise they become a match.
\* A pass that makes several selections is several passes.
MatchQueues(b) ==
    LET c == Drop(b, Stale(b.queue))
        Selected(pair) == pair[1] \cup pair[2]
        Outcomes(pair) ==
            LET bad == {e \in Selected(pair) : ~(e.members \subseteq usable)}
            IN IF bad # {} THEN {Drop(c, {e}) : e \in bad}
               ELSE {Drop(c, Selected(pair))} \cup
                    {Create([c EXCEPT !.queue = @ \ Selected(pair)], m,
                            RankedMatch(pair)) : m \in {n \in Matches : IsNext(n)}}
    IN {c} \cup UNION {Outcomes(pair) : pair \in Pairings(c.queue)}

\* public_state, the answer to a player's request, and global_presence: a search
\* of the player that is not stale is renewed, a stale one is dropped.
Answered(b, u) == Drop(b, {e \in Stale(b.queue) : e.resv = b.holds[u]})

-----------------------------------------------------------------------------
(* Requests of the players.                                                *)

Handled == Locked /\ UNCHANGED <<usable, lease>>

\* GET /somsai/social (which is the heartbeat) and GET /somsai/state.
Poll(u) ==
    /\ u \in usable
    /\ seen' \in {seen, seen \cup {u}}
    /\ Become(Answered(books, u))
    /\ Handled

\* "queue_join": a whole party joins a 2v2 search, a single player a 1v1 search.
JoinQueue(u, n, r) ==
    LET us == IF n = 2 THEN Side(u) ELSE {u}
        entry == [resv |-> r, members |-> us, size |-> n, late |-> FALSE]
        joined == [PointTo(Reserve(books, u, us, r, FALSE), us, None)
                       EXCEPT !.queue = @ \cup {entry}]
    IN /\ u \in usable
       /\ IsFresh(r, Referenced)
       /\ n = 2 => Leads(u)
       /\ Reservable(us)
       /\ \E b \in MatchQueues(joined) : Become(Answered(b, u))
       /\ Handled /\ UNCHANGED seen

\* "queue_leave": ends the search, or declines the ready check it led to.
LeaveQueue(u) ==
    LET mine == {e \in queue : e.resv = holds[u]}
        m == matchOf[u]
    IN /\ u \in usable
       /\ holds[u] # None
       /\ \/ mine # {} /\ Become(Drop(books, mine))
          \/ /\ mine = {} /\ m # None
             /\ match[m].ranked /\ match[m].stage = "waiting"
             /\ u \in MembersOf(m)
             /\ Become(Finish(books, m))
       /\ Handled /\ UNCHANGED seen

\* "custom_create": the whole party, as the first team.
CreateCustom(u, n, m, r) ==
    LET us == Side(u)
        row == [stage |-> "waiting", ranked |-> FALSE, size |-> n,
                resvs |-> {r}, teams |-> [t \in {0, 1} |-> IF t = 0 THEN us ELSE {}]]
    IN /\ Customs /\ u \in usable
       /\ IsNext(m) /\ IsFresh(r, Referenced)
       /\ Leads(u) /\ Cardinality(us) <= n /\ Reservable(us)
       /\ Become(Create(Reserve(books, u, us, r, TRUE), m, row))
       /\ Handled /\ UNCHANGED seen

Seats(m, t, us) == Cardinality(match[m].teams[t] \ us) + Cardinality(us)
                      <= match[m].size
Seated(m, t, us) == [k \in {0, 1} |-> IF k = t THEN match[m].teams[k] \cup us
                                     ELSE match[m].teams[k] \ us]
Joinable(u, m, t) == /\ match[m].stage = "waiting" /\ ~match[m].ranked
                     /\ Leads(u) /\ Seats(m, t, Side(u))

\* "custom_join" by a newcomer and their party.
JoinCustom(u, m, t, r) ==
    LET us == Side(u)
    IN /\ u \in usable
       /\ IsFresh(r, Referenced) /\ u \notin MembersOf(m)
       /\ Joinable(u, m, t) /\ Reservable(us)
       /\ Become(PointTo([Reserve(books, u, us, r, TRUE) EXCEPT
                              !.match[m].teams = Seated(m, t, us),
                              !.match[m].resvs = @ \cup {r}], us, m))
       /\ Handled /\ UNCHANGED seen

\* "custom_join" by one who has joined: the captain moves the party over.
SwitchTeam(u, m, t) ==
    /\ u \in usable
    /\ Joinable(u, m, t) /\ u \in MembersOf(m) /\ matchOf[u] = m
    /\ \E row \in resv : /\ row.id = holds[u] /\ row.captain = u /\ row.custom
                         /\ row.members = Side(u)
    /\ Become(PointTo([books EXCEPT !.match[m].teams = Seated(m, t, Side(u))],
                      Side(u), m))
    /\ Handled /\ UNCHANGED seen

\* "direct_accept" of a duel: it starts at once.
AcceptDuel(u, v, m, r, s) ==
    LET row == [stage |-> "live", ranked |-> FALSE, size |-> 1, resvs |-> {r, s},
                teams |-> [t \in {0, 1} |-> IF t = 0 THEN {v} ELSE {u}]]
    IN /\ Customs /\ u \in usable
       /\ u # v /\ IsNext(m) /\ Reservable({u, v})
       /\ IsFresh(r, Referenced) /\ IsFresh(s, Referenced \cup {r})
       /\ Become(Create(Reserve(Reserve(books, v, {v}, r, FALSE), u, {u}, s, FALSE),
                        m, row))
       /\ Handled /\ UNCHANGED seen

\* The last acceptance of the ready check, or "custom_start": an arbitrary lobby
\* needs a player on either side, any other complete teams.
BeginMatch(u, m) ==
    /\ u \in usable
    /\ match[m].stage = "waiting" /\ u \in MembersOf(m)
    /\ \A t \in {0, 1} : match[m].teams[t] # {}
    /\ Become(Answered([books EXCEPT !.match[m].stage = "live"], u))
    /\ Handled /\ UNCHANGED seen

\* "leave_match" and "decline".
LeaveMatch(u, m) ==
    /\ u \in usable
    /\ Running(m) /\ u \in MembersOf(m)
    /\ Become(Answered(Finish(books, m), u))
    /\ Handled /\ UNCHANGED seen

\* "leave_match" when the match is over: the results are closed.
LeaveResults(u, m) ==
    /\ u \in usable
    /\ match[m].stage = "final" /\ u \in MembersOf(m)
    /\ LateLeaves \/ matchOf[u] = m
    /\ Become(Answered(PointTo(books, {u}, None), u))
    /\ Handled /\ UNCHANGED seen

-----------------------------------------------------------------------------
(* The spectator server, the tick, and time.                               *)

\* What internal_native_claim does first: a player who enters another room
\* leaves the match, and gives up a reservation no match is behind.
Departed(u, room) ==
    LET m == matchOf[u]
    IN IF holds[u] = None THEN books
       ELSE IF m = None \/ match[m].stage = "final"
       THEN Release(books, {holds[u]})
       ELSE IF room # m THEN Finish(books, m) ELSE books

\* internal_native_claim: a player joins a room, or is still in it.
ClaimRoom(u, room) ==
    LET b == Departed(u, room)
        m == b.matchOf[u]
    IN /\ u \in usable
       /\ SearchersRoam \/ {e \in queue : e.resv = holds[u]} = {}
       /\ \/ room \in Rooms \cup {lease[u]}
          \/ room \in Matches /\ Running(room) /\ u \in MembersOf(room)
       /\ b.holds[u] # None => m = room /\ b.match[m].stage \in {"waiting", "live"}
       /\ lease[u] \in {None, room}
       /\ lease' = [lease EXCEPT ![u] = room]
       /\ Become(b)
       /\ Locked /\ UNCHANGED <<usable, seen>>

\* internal_native_release
ReleaseRoom(u) ==
    /\ lease[u] # None /\ Locked
    /\ lease' = [lease EXCEPT ![u] = None]
    /\ UNCHANGED <<usable, seen, bookVars>>

\* The two-second tick: match_queues, and tick_match of a match that ends it.
Tick ==
    /\ Locked
    /\ \E b \in MatchQueues(books) : Become(b)
    /\ UNCHANGED <<usable, seen, lease>>
TickEndsMatch(m) ==
    /\ Running(m) /\ Locked
    /\ Become(Finish(books, m))
    /\ UNCHANGED <<usable, seen, lease>>

\* 15 seconds without a heartbeat; 90 seconds without a poll of the searching
\* players; 45 seconds without a renewal of the lease.
GameCloses(u) ==
    /\ seen' = seen \ {u} /\ seen' # seen
    /\ UNCHANGED <<usable, partyVars, bookVars, lease>>
SearchGrowsStale(e) ==
    /\ ~e.late
    /\ queue' = (queue \ {e}) \cup {[e EXCEPT !.late = TRUE]}
    /\ UNCHANGED <<usable, seen, partyVars, holds, matchOf, resv, match, lease>>
LeaseExpires(u) ==
    /\ lease[u] # None
    /\ lease' = [lease EXCEPT ![u] = None]
    /\ UNCHANGED <<usable, seen, partyVars, bookVars>>

\* An administrator restricts a player.
GetsRestricted(u) ==
    /\ u \in usable
    /\ usable' = usable \ {u}
    /\ UNCHANGED <<seen, partyVars, bookVars, lease>>

-----------------------------------------------------------------------------
PartyActs(u) == \/ PartyLeave(u)
                \/ \E p \in Parties : PartyCreate(u, p) \/ PartyAccept(u, p)
QueueActs(u) == \/ Poll(u) \/ LeaveQueue(u)
                \/ \E n \in Sizes, r \in Resvs : JoinQueue(u, n, r)
CustomActs(u) ==
    \E m \in Matches :
        \/ \E n \in Sizes, r \in Resvs : CreateCustom(u, n, m, r)
        \/ \E t \in {0, 1} : \/ SwitchTeam(u, m, t)
                             \/ \E r \in Resvs : JoinCustom(u, m, t, r)
        \/ \E v \in Players, r, s \in Resvs : AcceptDuel(u, v, m, r, s)
MatchActs(u) ==
    \E m \in Matches : BeginMatch(u, m) \/ LeaveMatch(u, m) \/ LeaveResults(u, m)
RoomActs(u) == \/ \E room \in Rooms \cup Matches : ClaimRoom(u, room)
               \/ ReleaseRoom(u)
Time == \/ \E u \in Players : GameCloses(u) \/ LeaseExpires(u)
        \/ \E e \in queue : SearchGrowsStale(e)
        \/ \E u \in Restrictable : GetsRestricted(u)

Next == \/ \E u \in Players : \/ PartyActs(u) \/ QueueActs(u) \/ CustomActs(u)
                              \/ MatchActs(u) \/ RoomActs(u)
        \/ Tick \/ (\E m \in Matches : TickEndsMatch(m))
        \/ Time

\* The scheduler runs the tick every two seconds; nothing else is assumed.
Spec == Init /\ [][Next]_vars
FairSpec == Spec /\ WF_vars(Tick)

-----------------------------------------------------------------------------
(* Correctness.                                                            *)

Searches(id) == {e \in queue : e.resv = id}
Games(id) == {m \in Matches : Running(m) /\ id \in match[m].resvs}

\* Every reservation is held by its members and by nobody else, and belongs to
\* exactly one search or running match, which nothing else keeps alive: nobody
\* is locked out of everything by a reservation nobody will ever release
\* (reserve_members, release_reservation).
ReservationsAreOwned ==
    /\ \A row \in resv : Cardinality(Searches(row.id)) + Cardinality(Games(row.id)) = 1
    /\ \A u \in Players, r \in Resvs :
          holds[u] = r <=> \E row \in resv : row.id = r /\ u \in row.members

\* Whoever searches or plays does so under a reservation of their own, so nobody
\* is in two searches, in two running matches, or on both sides of one.
OneThingAtATime ==
    /\ \A u \in Players :
          Cardinality(PlayingIn(u)) + Cardinality({e \in queue : u \in e.members}) <= 1
    /\ \A m \in Matches : match[m].teams[0] \cap match[m].teams[1] = {}
    /\ \A m \in Matches : Running(m) =>
          \A u \in MembersOf(m) : holds[u] \in match[m].resvs

\* A running match can be reached by each of its players: their pointer, which
\* their client shows the match by, leads to it (create_match, join_custom).
PlayersFindTheirMatch ==
    \A m \in Matches : Running(m) => \A u \in MembersOf(m) : matchOf[u] = m

\* Teams have the size of the format, exactly so when they were matched.
TeamsFit ==
    \A m \in Matches, t \in {0, 1} :
        /\ Cardinality(match[m].teams[t]) <= match[m].size
        /\ match[m].ranked => Cardinality(match[m].teams[t]) = match[m].size

\* Parties and the players' pointers to them agree, whoever left, was dropped,
\* or joined another party: one party each, at most two members, a captain
\* among them.
PartiesAgree ==
    /\ \A p \in Parties : LET us == ToSet(party[p].members) IN
          /\ Cardinality(us) = Len(party[p].members) /\ Cardinality(us) <= 2
          /\ us # {} => party[p].captain \in us
          /\ \A u \in us : partyOf[u] = p
    /\ \A u \in Players : partyOf[u] # None => u \in ToSet(party[partyOf[u]].members)

\* The pointers of the activity table, to a party and to a match, lead to rows
\* that name the player: the tables that say what a player does stay in step.
PointersAgree == PartiesAgree /\ PlayersFindTheirMatch

\* A party searches and plays 2v2 and custom matches as one team.
PartiesStayTogether ==
    \A p \in Parties : LET us == ToSet(party[p].members) IN
        /\ \A e \in queue : e.size = 2 /\ us \cap e.members # {} => us \subseteq e.members
        /\ \A m \in Matches : Running(m) /\ match[m].size = 2 =>
              \A t \in {0, 1} : us \cap match[m].teams[t] # {} =>
                                    us \subseteq match[m].teams[t]

\* Matched teams are complete and no party is divided between two of them
\* (match_queues, create_custom, join_custom).
TeamsAreWhole == TeamsFit /\ PartiesStayTogether

\* While a member searches or plays, the party keeps that member and gets no
\* new one, whatever heartbeat is missing.
BusyPartiesAreStable ==
    [][\A p \in Parties, u \in Players :
          u \in ToSet(party[p].members) /\ holds[u] # None /\ holds'[u] = holds[u] =>
              /\ u \in ToSet(party'[p].members)
              /\ ToSet(party'[p].members) \subseteq ToSet(party[p].members)]_vars

\* A player with a live lease of a native room is reserved only for the running
\* match of that very room (claim_native_room, reserve_members).
LeasesExcludeReservations ==
    \A u \in Players : lease[u] # None /\ holds[u] # None =>
        /\ matchOf[u] = lease[u] /\ lease[u] \in Matches /\ Running(lease[u])

\* The tick removes a stale search although none of its players returns.
StaleSearchesAreRemoved ==
    \A r \in Resvs : (\E e \in queue : e.resv = r /\ e.late)
                         ~> ~(\E e \in queue : e.resv = r /\ e.late)

\* A player whose game is closed, who searches and plays nothing and has closed
\* the results of the last match, leaves the party.
ClosedIdleGameLeavesParty ==
    \A u \in Players :
        u \notin seen /\ holds[u] = None /\ matchOf[u] = None
            ~> u \in seen \/ holds[u] # None \/ partyOf[u] = None

\* "native room claim and queue exclude each other": nobody who is in a room of
\* their own waits in the queue.
RoomsExcludeQueue == \A u \in Players : lease[u] \in Rooms => ~Searching(u)

=============================================================================
