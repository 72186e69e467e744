------------------------ MODULE SomsaiLobby_proofs ------------------------
(***************************************************************************)
(* Proofs about SomsaiLobby: its reservations, searches, matches and       *)
(* leases, for any set of players and any number of them.                  *)
(***************************************************************************)
EXTENDS SomsaiLobby, FiniteSetTheorems, TLAPS

(***************************************************************************)
(* The inductive invariant, a predicate of books: the handlers are         *)
(* functions from books to books.                                          *)
(***************************************************************************)
Book == [holds : [Players -> Resvs \cup {None}], matchOf : [Players -> Matches \cup {None}],
         resv : SUBSET Row, queue : SUBSET Entry, match : [Matches -> Match]]

RunningIn(b, m) == b.match[m].stage \in {"waiting", "live"}
Roster(b, m) == b.match[m].teams[0] \cup b.match[m].teams[1]

\* A player holds the reservation that names the player, and no other.
RowsAgree(b) ==
    /\ \A x, y \in b.resv : x.id = y.id => x = y
    /\ \A x \in b.resv, u \in Players : u \in x.members <=> b.holds[u] = x.id
    /\ \A u \in Players : b.holds[u] # None => \E x \in b.resv : x.id = b.holds[u]

\* A search has a reservation of its own, for exactly those who search; their
\* pointers to a match are empty.
SearchesAgree(b) ==
    /\ \A e, f \in b.queue : e.resv = f.resv => e = f
    /\ \A e \in b.queue : \E x \in b.resv : x.id = e.resv /\ x.members = e.members
    /\ \A e \in b.queue : \A u \in e.members : b.matchOf[u] = None

\* A running match has reservations of its own, for exactly its players, whose
\* pointers lead to it.
GameAgrees(b, m) ==
    /\ \A e \in b.queue : e.resv \notin b.match[m].resvs
    /\ \A n \in Matches \ {m} : RunningIn(b, n) => b.match[m].resvs \cap b.match[n].resvs = {}
    /\ \A r \in b.match[m].resvs : \E x \in b.resv : x.id = r /\ x.members \subseteq Roster(b, m)
    /\ \A u \in Roster(b, m) : b.holds[u] \in b.match[m].resvs /\ b.matchOf[u] = m

\* No reservation is without a search or a running match, but for those a
\* handler has just made or taken from the queue, which nothing names.
RowsOwned(b, loose) ==
    /\ \A x \in b.resv : \/ x.id \in loose
                         \/ \E e \in b.queue : e.resv = x.id
                         \/ \E m \in Matches : RunningIn(b, m) /\ x.id \in b.match[m].resvs
    /\ \A e \in b.queue : e.resv \notin loose
    /\ \A m \in Matches : RunningIn(b, m) => b.match[m].resvs \cap loose = {}

Settled(b, loose) ==
    /\ b \in Book /\ RowsAgree(b) /\ SearchesAgree(b)
    /\ \A m \in Matches : RunningIn(b, m) => GameAgrees(b, m)
    /\ RowsOwned(b, loose)
    /\ \A m \in Matches : b.match[m].teams[0] \cap b.match[m].teams[1] = {}

BookInv(b) == Settled(b, {})

\* Who has a lease is reserved at most for the running match of that room.
LeasesAgree(b, leases) ==
    \A u \in Players : leases[u] # None /\ b.holds[u] # None =>
        b.matchOf[u] = leases[u] /\ leases[u] \in Matches /\ RunningIn(b, leases[u])

(***************************************************************************)
(* Reservations released.                                                  *)
(***************************************************************************)
LEMMA NoneIsNothing == None \notin Resvs /\ None \notin Matches /\ None \notin Rooms
  BY LobbyAssumption

LEMMA RowFacts ==
    ASSUME NEW b \in Book
    PROVE  /\ \A x \in b.resv : x.id \in Resvs /\ x.members \subseteq Players
           /\ \A e \in b.queue : e.resv \in Resvs /\ e.members \subseteq Players
           /\ \A u \in Players : b.holds[u] \in Resvs \cup {None}
           /\ \A u \in Players : b.matchOf[u] \in Matches \cup {None}
           /\ \A m \in Matches : b.match[m].resvs \subseteq Resvs
           /\ \A m \in Matches : b.match[m].teams[0] \subseteq Players
           /\ \A m \in Matches : b.match[m].teams[1] \subseteq Players
  <1>1. /\ b.resv \subseteq Row /\ b.queue \subseteq Entry /\ b.match \in [Matches -> Match]
        /\ b.holds \in [Players -> Resvs \cup {None}]
        /\ b.matchOf \in [Players -> Matches \cup {None}]
    BY DEF Book
  <1>2. \A m \in Matches : b.match[m] \in Match
    BY <1>1
  <1> QED
    BY <1>1, <1>2 DEF Row, Entry, Match

\* The books c are the books b without the reservations of rs.
Released(b, c, rs) ==
    /\ c \in Book
    /\ c.resv = {row \in b.resv : row.id \notin rs}
    /\ c.queue = b.queue /\ c.match = b.match
    /\ \A u \in Players : c.holds[u] = IF b.holds[u] \in rs THEN None ELSE b.holds[u]
    /\ \A u \in Players : c.matchOf[u] = IF b.holds[u] \in rs THEN None ELSE b.matchOf[u]

LEMMA ReleaseIs ==
    ASSUME NEW b \in Book, RowsAgree(b), NEW rs, rs \subseteq Resvs
    PROVE  Released(b, Release(b, rs), rs)
  <1> DEFINE LetsGo(u) == \E row \in b.resv : /\ row.id \in rs /\ u \in row.members
                                             /\ b.holds[u] = row.id
             Rest(f) == [u \in Players |-> IF LetsGo(u) THEN None ELSE f[u]]
             c == [b EXCEPT !.resv = {row \in @ : row.id \notin rs},
                            !.holds = Rest(@), !.matchOf = Rest(@)]
  <1>1. Release(b, rs) = c
    BY DEF Release
  <1>2. ASSUME NEW u \in Players
        PROVE  LetsGo(u) <=> b.holds[u] \in rs
    <2>1. CASE b.holds[u] \in rs
      <3>1. PICK x \in b.resv : x.id = b.holds[u]
        BY <2>1, NoneIsNothing DEF RowsAgree
      <3>2. u \in x.members
        BY <3>1 DEF RowsAgree
      <3> QED
        BY <2>1, <3>1, <3>2
    <2>2. CASE b.holds[u] \notin rs
      BY <2>2
    <2> QED
      BY <2>1, <2>2
  <1>3. /\ c.resv = {row \in b.resv : row.id \notin rs}
        /\ c.queue = b.queue /\ c.match = b.match
        /\ c.holds = Rest(b.holds) /\ c.matchOf = Rest(b.matchOf)
    BY DEF Book
  <1>4. Rest(b.holds) \in [Players -> Resvs \cup {None}]
    BY DEF Book
  <1>5. Rest(b.matchOf) \in [Players -> Matches \cup {None}]
    BY DEF Book
  <1>6. c \in Book
    BY <1>4, <1>5 DEF Book
  <1> QED
    BY <1>1, <1>2, <1>3, <1>6 DEF Released

\* What a reservation is for.
LEMMA Occupation ==
    ASSUME NEW b, BookInv(b), NEW u \in Players, b.holds[u] # None
    PROVE  \/ \E e \in b.queue : e.resv = b.holds[u] /\ u \in e.members /\ b.matchOf[u] = None
           \/ \E m \in Matches : /\ RunningIn(b, m) /\ u \in Roster(b, m)
                                 /\ b.matchOf[u] = m /\ b.holds[u] \in b.match[m].resvs
  <1>1. PICK x \in b.resv : x.id = b.holds[u] /\ u \in x.members
    BY DEF BookInv, Settled, RowsAgree
  <1>2. CASE \E e \in b.queue : e.resv = x.id
    <2>1. PICK e \in b.queue : e.resv = x.id
      BY <1>2
    <2>2. PICK y \in b.resv : y.id = e.resv /\ y.members = e.members
      BY DEF BookInv, Settled, SearchesAgree
    <2>3. u \in e.members
      BY <1>1, <2>1, <2>2 DEF BookInv, Settled, RowsAgree
    <2> QED
      BY <1>1, <2>1, <2>3 DEF BookInv, Settled, SearchesAgree
  <1>3. CASE \E m \in Matches : RunningIn(b, m) /\ x.id \in b.match[m].resvs
    <2>1. PICK m \in Matches : RunningIn(b, m) /\ x.id \in b.match[m].resvs
      BY <1>3
    <2>2. GameAgrees(b, m)
      BY <2>1 DEF BookInv, Settled
    <2>3. PICK y \in b.resv : y.id = x.id /\ y.members \subseteq Roster(b, m)
      BY <2>1, <2>2 DEF GameAgrees
    <2>4. u \in Roster(b, m)
      BY <1>1, <2>3 DEF BookInv, Settled, RowsAgree
    <2> QED
      BY <1>1, <2>1, <2>2, <2>4 DEF GameAgrees
  <1> QED
    BY <1>2, <1>3 DEF BookInv, Settled, RowsOwned

\* Searches that end without a match.
LEMMA DropKeeps ==
    ASSUME NEW b, BookInv(b), NEW entries, entries \subseteq b.queue
    PROVE  /\ BookInv(Drop(b, entries))
           /\ Drop(b, entries).queue = b.queue \ entries
           /\ Drop(b, entries).match = b.match
           /\ \A leases : LeasesAgree(b, leases) => LeasesAgree(Drop(b, entries), leases)
  <1> DEFINE rs == {e.resv : e \in entries}
             d == Release(b, rs)
             c == Drop(b, entries)
  <1>1. b \in Book /\ RowsAgree(b) /\ SearchesAgree(b) /\ RowsOwned(b, {})
    BY DEF BookInv, Settled
  <1>2. rs \subseteq Resvs
    BY <1>1, RowFacts
  <1>3. Released(b, d, rs)
    BY <1>1, <1>2, ReleaseIs
  <1>4. c = [d EXCEPT !.queue = @ \ entries]
    BY DEF Drop
  <1> HIDE DEF d, c
  <1>5. /\ c \in Book
        /\ c.resv = {row \in b.resv : row.id \notin rs}
        /\ c.queue = b.queue \ entries /\ c.match = b.match
        /\ \A u \in Players : c.holds[u] = IF b.holds[u] \in rs THEN None ELSE b.holds[u]
        /\ \A u \in Players : c.matchOf[u] = IF b.holds[u] \in rs THEN None ELSE b.matchOf[u]
    BY <1>3, <1>4 DEF Released, Book
  <1>6. RowsAgree(c)
    BY <1>1, <1>5, RowFacts, NoneIsNothing DEF RowsAgree
  <1>7. \A e \in c.queue : e.resv \notin rs
    BY <1>1, <1>5 DEF SearchesAgree
  <1>8. SearchesAgree(c)
    <2>1. \A e \in c.queue : \E x \in c.resv : x.id = e.resv /\ x.members = e.members
      BY <1>1, <1>5, <1>7 DEF SearchesAgree
    <2>2. \A e \in c.queue : \A u \in e.members : c.matchOf[u] = None
      BY <1>1, <1>5, RowFacts DEF SearchesAgree
    <2> QED
      BY <1>1, <1>5, <2>1, <2>2 DEF SearchesAgree
  <1>9. \A m \in Matches : RunningIn(c, m) <=> RunningIn(b, m)
    BY <1>5 DEF RunningIn
  <1>10. ASSUME NEW m \in Matches, RunningIn(b, m)
         PROVE  GameAgrees(c, m)
    <2>1. GameAgrees(b, m) /\ Roster(c, m) = Roster(b, m)
      BY <1>5, <1>10 DEF BookInv, Settled, Roster
    <2>2. b.match[m].resvs \cap rs = {}
      BY <2>1 DEF GameAgrees
    <2>3. \A r \in c.match[m].resvs : \E x \in c.resv : x.id = r /\ x.members \subseteq Roster(c, m)
      BY <1>5, <2>1, <2>2 DEF GameAgrees
    <2>4. \A u \in Roster(c, m) : c.holds[u] \in c.match[m].resvs /\ c.matchOf[u] = m
      BY <1>1, <1>5, <2>1, <2>2, RowFacts DEF GameAgrees, Roster
    <2> QED
      BY <1>5, <1>9, <2>1, <2>3, <2>4 DEF GameAgrees
  <1>11. RowsOwned(c, {})
    <2> SUFFICES ASSUME NEW x \in c.resv
                 PROVE  \/ \E e \in c.queue : e.resv = x.id
                        \/ \E m \in Matches : RunningIn(c, m) /\ x.id \in c.match[m].resvs
      BY DEF RowsOwned
    <2>1. x \in b.resv /\ x.id \notin rs
      BY <1>5
    <2> QED
      BY <1>1, <1>5, <1>9, <2>1 DEF RowsOwned
  <1>12. BookInv(c)
    BY <1>5, <1>6, <1>8, <1>9, <1>10, <1>11 DEF BookInv, Settled
  <1>13. ASSUME NEW leases, LeasesAgree(b, leases)
         PROVE  LeasesAgree(c, leases)
    BY <1>5, <1>9, <1>13 DEF LeasesAgree
  <1> QED
    BY <1>5, <1>12, <1>13 DEF c

\* A running match that ends.
LEMMA FinishKeeps ==
    ASSUME NEW b, BookInv(b), b.match = match, NEW m \in Matches, Running(m)
    PROVE  /\ BookInv(Finish(b, m))
           /\ Finish(b, m).queue = b.queue
           /\ \A u \in MembersOf(m) : Finish(b, m).holds[u] = None
           /\ \A leases : LeasesAgree(b, leases) => LeasesAgree(Finish(b, m), leases)
  <1> DEFINE rs == b.match[m].resvs
             over == [b EXCEPT !.match[m].stage = "final"]
             d == Release(over, rs)
             c == Finish(b, m)
  <1>1. b \in Book /\ RowsAgree(b) /\ SearchesAgree(b) /\ RowsOwned(b, {})
    BY DEF BookInv, Settled
  <1>2. MembersOf(m) = Roster(b, m) /\ RunningIn(b, m)
    BY DEF MembersOf, Roster, Running, RunningIn
  <1>3. GameAgrees(b, m)
    BY <1>2 DEF BookInv, Settled
  <1>4. /\ over \in Book /\ over.holds = b.holds /\ over.matchOf = b.matchOf
        /\ over.resv = b.resv /\ over.queue = b.queue
        /\ over.match = [b.match EXCEPT ![m].stage = "final"]
    <2>1. b.match[m] \in Match
      BY <1>1 DEF Book
    <2>2. [b.match[m] EXCEPT !.stage = "final"] \in Match
      BY <2>1 DEF Match
    <2>3. [b.match EXCEPT ![m].stage = "final"] \in [Matches -> Match]
      BY <1>1, <2>2 DEF Book
    <2> QED
      BY <1>1, <2>3 DEF Book
  <1>5. RowsAgree(over)
    BY <1>1, <1>4 DEF RowsAgree
  <1>6. rs \subseteq Resvs
    BY <1>1, RowFacts
  <1> HIDE DEF over
  <1>7. Released(over, d, rs)
    BY <1>4, <1>5, <1>6, ReleaseIs
  <1>8. c = PointTo(d, MembersOf(m), m)
    BY DEF Finish, over
  <1> HIDE DEF d, c
  \* A player lets go of a reservation of the match exactly if on its roster.
  <1>9. \A u \in Players : b.holds[u] \in rs <=> u \in Roster(b, m)
    <2> TAKE u \in Players
    <2>1. ASSUME b.holds[u] \in rs
          PROVE  u \in Roster(b, m)
      <3>1. PICK x \in b.resv : x.id = b.holds[u] /\ x.members \subseteq Roster(b, m)
        BY <1>3, <2>1 DEF GameAgrees
      <3> QED
        BY <1>1, <3>1 DEF RowsAgree
    <2> QED
      BY <1>3, <2>1 DEF GameAgrees
  <1>10. /\ c \in Book
         /\ c.resv = {row \in b.resv : row.id \notin rs} /\ c.queue = b.queue
         /\ c.match = [b.match EXCEPT ![m].stage = "final"]
         /\ \A u \in Players : c.holds[u] = IF u \in Roster(b, m) THEN None ELSE b.holds[u]
         /\ \A u \in Players : c.matchOf[u] = IF u \in Roster(b, m) THEN m ELSE b.matchOf[u]
    BY <1>2, <1>4, <1>7, <1>8, <1>9 DEF Released, PointTo, Book
  <1>11. \A n \in Matches : /\ c.match[n].teams = b.match[n].teams /\ Roster(c, n) = Roster(b, n)
                            /\ c.match[n].resvs = b.match[n].resvs
                            /\ RunningIn(c, n) <=> n # m /\ RunningIn(b, n)
    <2> TAKE n \in Matches
    <2>1. b.match \in [Matches -> Match] /\ b.match[m] \in Match
      BY <1>1 DEF Book
    <2>2. n # m => c.match[n] = b.match[n]
      BY <1>10, <2>1
    <2>3. c.match[m] = [b.match[m] EXCEPT !.stage = "final"]
      BY <1>10, <2>1
    <2>4. /\ c.match[m].teams = b.match[m].teams /\ c.match[m].resvs = b.match[m].resvs
          /\ c.match[m].stage = "final"
      BY <2>1, <2>3 DEF Match
    <2> QED
      BY <2>2, <2>4 DEF Roster, RunningIn
  <1>12. RowsAgree(c)
    BY <1>1, <1>9, <1>10, RowFacts, NoneIsNothing DEF RowsAgree
  <1>13. \A e \in c.queue : e.resv \notin rs
    BY <1>3, <1>10 DEF GameAgrees
  <1>14. SearchesAgree(c)
    <2>1. \A e \in c.queue : \E x \in c.resv : x.id = e.resv /\ x.members = e.members
      BY <1>1, <1>10, <1>13 DEF SearchesAgree
    <2>2. ASSUME NEW e \in c.queue, NEW u \in e.members
          PROVE  c.matchOf[u] = None
      <3>1. u \in Players /\ b.matchOf[u] = None
        BY <1>1, <1>10, <2>2, RowFacts DEF SearchesAgree
      <3>2. u \notin Roster(b, m)
        BY <1>3, <3>1, NoneIsNothing DEF GameAgrees
      <3> QED
        BY <1>10, <3>1, <3>2
    <2> QED
      BY <1>1, <1>10, <2>1, <2>2 DEF SearchesAgree
  <1>15. ASSUME NEW n \in Matches, RunningIn(c, n)
         PROVE  GameAgrees(c, n)
    <2>1. n # m /\ RunningIn(b, n) /\ GameAgrees(b, n) /\ b.match[n].resvs \cap rs = {}
      BY <1>3, <1>11, <1>15 DEF BookInv, Settled, GameAgrees
    <2>2. \A r \in c.match[n].resvs : \E x \in c.resv : x.id = r /\ x.members \subseteq Roster(c, n)
      BY <1>10, <1>11, <2>1 DEF GameAgrees
    <2>3. \A u \in Roster(c, n) : c.holds[u] \in c.match[n].resvs /\ c.matchOf[u] = n
      <3> SUFFICES ASSUME NEW u \in Roster(b, n)
                   PROVE  c.holds[u] \in b.match[n].resvs /\ c.matchOf[u] = n
        BY <1>11
      <3>1. u \in Players /\ b.holds[u] \in b.match[n].resvs /\ b.matchOf[u] = n
        BY <1>1, <2>1, RowFacts DEF GameAgrees, Roster
      <3>2. u \notin Roster(b, m)
        BY <1>3, <2>1, <3>1 DEF GameAgrees
      <3> QED
        BY <1>10, <3>1, <3>2
    <2>4. /\ \A e \in c.queue : e.resv \notin c.match[n].resvs
          /\ \A k \in Matches \ {n} :
                RunningIn(c, k) => c.match[n].resvs \cap c.match[k].resvs = {}
      BY <1>10, <1>11, <2>1 DEF GameAgrees
    <2> QED
      BY <2>2, <2>3, <2>4 DEF GameAgrees
  <1>16. RowsOwned(c, {})
    <2> SUFFICES ASSUME NEW x \in c.resv
                 PROVE  \/ \E e \in c.queue : e.resv = x.id
                        \/ \E n \in Matches : RunningIn(c, n) /\ x.id \in c.match[n].resvs
      BY DEF RowsOwned
    <2>1. x \in b.resv /\ x.id \notin rs
      BY <1>10
    <2> QED
      BY <1>1, <1>10, <1>11, <2>1 DEF RowsOwned
  <1>17. BookInv(c)
    BY <1>10, <1>11, <1>12, <1>14, <1>15, <1>16 DEF BookInv, Settled
  <1>18. ASSUME NEW leases, LeasesAgree(b, leases)
         PROVE  LeasesAgree(c, leases)
    <2> SUFFICES ASSUME NEW u \in Players, leases[u] # None, c.holds[u] # None
                 PROVE  /\ c.matchOf[u] = leases[u] /\ leases[u] \in Matches
                        /\ RunningIn(c, leases[u])
      BY DEF LeasesAgree
    <2>1. u \notin Roster(b, m) /\ b.holds[u] # None
      BY <1>10
    <2>2. b.matchOf[u] = leases[u] /\ leases[u] \in Matches /\ RunningIn(b, leases[u])
      BY <1>18, <2>1 DEF LeasesAgree
    <2>3. u \in Roster(b, leases[u])
      BY <2>1, <2>2, Occupation, NoneIsNothing
    <2> QED
      BY <1>10, <1>11, <2>1, <2>2, <2>3
  <1>19. \A u \in MembersOf(m) : u \in Players /\ c.holds[u] = None
    BY <1>1, <1>2, <1>10, RowFacts DEF Roster
  <1> QED
    BY <1>10, <1>17, <1>18, <1>19 DEF c

(***************************************************************************)
(* Reservations made, and what becomes of them.                            *)
(***************************************************************************)
Unnamed(b, r) ==
    /\ \A x \in b.resv : x.id # r
    /\ \A e \in b.queue : e.resv # r
    /\ \A m \in Matches : RunningIn(b, m) => r \notin b.match[m].resvs

\* The books c are the books b with a reservation r of the players us.
Reserved(b, c, us, r) ==
    /\ c.queue = b.queue /\ c.match = b.match /\ c.matchOf = b.matchOf
    /\ \E x : x.id = r /\ x.members = us /\ c.resv = b.resv \cup {x}
    /\ \A v \in Players : c.holds[v] = IF v \in us THEN r ELSE b.holds[v]

LEMMA ReserveKeeps ==
    ASSUME NEW b, NEW loose, Settled(b, loose), NEW r \in Resvs, Unnamed(b, r),
           NEW us, us \subseteq Players, \A v \in us : b.holds[v] = None,
           NEW u \in Players, NEW custom \in BOOLEAN
    PROVE  /\ Settled(Reserve(b, u, us, r, custom), loose \cup {r})
           /\ Reserved(b, Reserve(b, u, us, r, custom), us, r)
           /\ \A leases : LeasesAgree(b, leases) /\ (\A v \in us : leases[v] = None)
                            => LeasesAgree(Reserve(b, u, us, r, custom), leases)
  <1> DEFINE x == [id |-> r, captain |-> u, members |-> us, custom |-> custom]
             c == Reserve(b, u, us, r, custom)
  <1>1. b \in Book /\ RowsAgree(b) /\ SearchesAgree(b) /\ RowsOwned(b, loose)
    BY DEF Settled
  <1>2. x \in Row /\ x.id = r /\ x.members = us
    BY DEF Row
  <1> HIDE DEF x
  <1>3. /\ c \in Book
        /\ c.queue = b.queue /\ c.match = b.match /\ c.matchOf = b.matchOf
        /\ c.resv = b.resv \cup {x}
        /\ \A v \in Players : c.holds[v] = IF v \in us THEN r ELSE b.holds[v]
    <2> DEFINE h == [v \in Players |-> IF v \in us THEN r ELSE b.holds[v]]
    <2>1. c = [b EXCEPT !.resv = @ \cup {x}, !.holds = h]
      BY DEF Reserve, x
    <2>2. h \in [Players -> Resvs \cup {None}]
      BY <1>1, RowFacts
    <2>3. \A v \in Players : h[v] = IF v \in us THEN r ELSE b.holds[v]
      OBVIOUS
    <2>4. b.resv \cup {x} \in SUBSET Row
      BY <1>1, <1>2 DEF Book
    <2> HIDE DEF h, c
    <2>5. /\ c.queue = b.queue /\ c.match = b.match /\ c.matchOf = b.matchOf
          /\ c.resv = b.resv \cup {x} /\ c.holds = h /\ c \in Book
      BY <1>1, <2>1, <2>2, <2>4 DEF Book
    <2> QED
      BY <2>3, <2>5
  <1> HIDE DEF c
  <1>4. Reserved(b, c, us, r)
    BY <1>2, <1>3 DEF Reserved
  <1>5. \A v \in Players : b.holds[v] # r
    BY <1>1, NoneIsNothing DEF RowsAgree, Unnamed
  <1>6. RowsAgree(c)
    <2>1. \A y, z \in c.resv : y.id = z.id => y = z
      BY <1>1, <1>2, <1>3 DEF RowsAgree, Unnamed
    <2>2. ASSUME NEW y \in c.resv, NEW v \in Players
          PROVE  v \in y.members <=> c.holds[v] = y.id
      <3>1. CASE y = x
        BY <1>2, <1>3, <1>5, <3>1
      <3>2. CASE y \in b.resv
        <4>1. y.id # r /\ y.id # None
          BY <1>1, <3>2, RowFacts, NoneIsNothing DEF Unnamed
        <4>2. v \in us => b.holds[v] = None
          OBVIOUS
        <4> QED
          BY <1>1, <1>3, <3>2, <4>1, <4>2 DEF RowsAgree
      <3> QED
        BY <1>3, <3>1, <3>2
    <2>3. \A v \in Players : c.holds[v] # None => \E y \in c.resv : y.id = c.holds[v]
      BY <1>1, <1>2, <1>3 DEF RowsAgree
    <2> QED
      BY <2>1, <2>2, <2>3 DEF RowsAgree
  <1>7. SearchesAgree(c)
    BY <1>1, <1>3 DEF SearchesAgree
  <1>8. \A m \in Matches : /\ RunningIn(c, m) <=> RunningIn(b, m)
                           /\ Roster(c, m) = Roster(b, m)
    BY <1>3 DEF RunningIn, Roster
  <1>9. ASSUME NEW m \in Matches, RunningIn(c, m)
        PROVE  GameAgrees(c, m)
    <2>1. GameAgrees(b, m)
      BY <1>8, <1>9 DEF Settled
    <2>2. \A v \in Roster(c, m) : c.holds[v] \in c.match[m].resvs /\ c.matchOf[v] = m
      <3> SUFFICES ASSUME NEW v \in Roster(b, m)
                   PROVE  c.holds[v] \in b.match[m].resvs /\ b.matchOf[v] = m
        BY <1>3, <1>8
      <3>1. v \in Players /\ b.holds[v] \in b.match[m].resvs /\ b.matchOf[v] = m
        BY <1>1, <2>1, RowFacts DEF GameAgrees, Roster
      <3>2. b.holds[v] # None
        BY <1>1, <3>1, RowFacts, NoneIsNothing
      <3> QED
        BY <1>3, <3>1, <3>2
    <2> QED
      BY <1>3, <1>8, <2>1, <2>2 DEF GameAgrees
  <1>10. RowsOwned(c, loose \cup {r})
    BY <1>1, <1>2, <1>3, <1>8 DEF RowsOwned, Unnamed
  <1>11. Settled(c, loose \cup {r})
    BY <1>3, <1>6, <1>7, <1>9, <1>10 DEF Settled
  <1>12. ASSUME NEW leases, LeasesAgree(b, leases), \A v \in us : leases[v] = None
         PROVE  LeasesAgree(c, leases)
    BY <1>3, <1>8, <1>12 DEF LeasesAgree
  <1> QED
    BY <1>4, <1>11, <1>12 DEF c

\* The reservation of a search.
LEMMA EnqueueKeeps ==
    ASSUME NEW b, NEW entry \in Entry, Settled(b, {entry.resv}),
           \E x \in b.resv : x.id = entry.resv /\ x.members = entry.members
    PROVE  LET c == [PointTo(b, entry.members, None) EXCEPT !.queue = @ \cup {entry}]
           IN  /\ BookInv(c) /\ c.match = b.match
               /\ \A leases : LeasesAgree(b, leases) /\ (\A v \in entry.members : leases[v] = None)
                                => LeasesAgree(c, leases)
  <1> DEFINE c == [PointTo(b, entry.members, None) EXCEPT !.queue = @ \cup {entry}]
  <1>1. b \in Book /\ RowsAgree(b) /\ SearchesAgree(b) /\ RowsOwned(b, {entry.resv})
    BY DEF Settled
  <1>2. entry.members \subseteq Players
    BY DEF Entry
  <1>3. /\ c \in Book
        /\ c.resv = b.resv /\ c.holds = b.holds /\ c.match = b.match
        /\ c.queue = b.queue \cup {entry}
        /\ \A v \in Players : c.matchOf[v] = IF v \in entry.members THEN None ELSE b.matchOf[v]
    <2>1. [v \in Players |-> IF v \in entry.members THEN None ELSE b.matchOf[v]]
              \in [Players -> Matches \cup {None}]
      BY <1>1, RowFacts
    <2> QED
      BY <1>1, <2>1 DEF PointTo, Book
  <1> HIDE DEF c
  <1>4. \A v \in entry.members : b.holds[v] = entry.resv
    BY <1>1, <1>2 DEF RowsAgree
  <1>5. RowsAgree(c)
    BY <1>1, <1>3 DEF RowsAgree
  <1>6. SearchesAgree(c)
    <2>1. \A e, f \in c.queue : e.resv = f.resv => e = f
      BY <1>1, <1>3 DEF SearchesAgree, RowsOwned
    <2>2. \A e \in c.queue : \E x \in c.resv : x.id = e.resv /\ x.members = e.members
      BY <1>1, <1>3 DEF SearchesAgree
    <2>3. \A e \in c.queue : \A u \in e.members : c.matchOf[u] = None
      BY <1>1, <1>2, <1>3, RowFacts DEF SearchesAgree
    <2> QED
      BY <2>1, <2>2, <2>3 DEF SearchesAgree
  <1>7. \A m \in Matches : /\ RunningIn(c, m) <=> RunningIn(b, m)
                           /\ Roster(c, m) = Roster(b, m)
    BY <1>3 DEF RunningIn, Roster
  <1>8. ASSUME NEW m \in Matches, RunningIn(c, m)
        PROVE  GameAgrees(c, m)
    <2>1. GameAgrees(b, m) /\ entry.resv \notin b.match[m].resvs
      BY <1>1, <1>7, <1>8 DEF Settled, RowsOwned
    <2>2. \A v \in Roster(b, m) : v \in Players /\ v \notin entry.members
      BY <1>1, <1>4, <2>1, RowFacts DEF GameAgrees, Roster
    <2> QED
      BY <1>3, <1>7, <2>1, <2>2 DEF GameAgrees
  <1>9. RowsOwned(c, {})
    BY <1>1, <1>3, <1>7 DEF RowsOwned
  <1>10. BookInv(c)
    BY <1>3, <1>5, <1>6, <1>8, <1>9 DEF BookInv, Settled
  <1>11. ASSUME NEW leases, LeasesAgree(b, leases), \A v \in entry.members : leases[v] = None
         PROVE  LeasesAgree(c, leases)
    BY <1>3, <1>7, <1>11 DEF LeasesAgree
  <1> QED
    BY <1>3, <1>10, <1>11 DEF c

\* Searches taken from the queue for a match: nothing names their reservations.
LEMMA DequeueKeeps ==
    ASSUME NEW b, BookInv(b), NEW entries, entries \subseteq b.queue
    PROVE  LET c == [b EXCEPT !.queue = @ \ entries]
           IN  /\ Settled(c, {e.resv : e \in entries})
               /\ c.match = b.match /\ c.holds = b.holds /\ c.resv = b.resv
               /\ \A leases : LeasesAgree(b, leases) => LeasesAgree(c, leases)
  <1> DEFINE c == [b EXCEPT !.queue = @ \ entries]
             loose == {e.resv : e \in entries}
  <1>1. b \in Book /\ RowsAgree(b) /\ SearchesAgree(b) /\ RowsOwned(b, {})
    BY DEF BookInv, Settled
  <1>2. /\ c \in Book /\ c.resv = b.resv /\ c.holds = b.holds /\ c.match = b.match
        /\ c.matchOf = b.matchOf /\ c.queue = b.queue \ entries
    BY <1>1 DEF Book
  <1> HIDE DEF c
  <1>3. RowsAgree(c)
    BY <1>1, <1>2 DEF RowsAgree
  <1>4. SearchesAgree(c)
    BY <1>1, <1>2 DEF SearchesAgree
  <1>5. \A m \in Matches : /\ RunningIn(c, m) <=> RunningIn(b, m)
                           /\ Roster(c, m) = Roster(b, m)
    BY <1>2 DEF RunningIn, Roster
  <1>6. ASSUME NEW m \in Matches, RunningIn(c, m)
        PROVE  GameAgrees(c, m) /\ b.match[m].resvs \cap loose = {}
    <2>1. GameAgrees(b, m)
      BY <1>5, <1>6 DEF BookInv, Settled
    <2> QED
      BY <1>2, <1>5, <2>1 DEF GameAgrees
  <1>7. RowsOwned(c, loose)
    <2>1. \A e \in c.queue : e.resv \notin loose
      BY <1>1, <1>2 DEF SearchesAgree
    <2>2. \A x \in c.resv : \/ x.id \in loose
                            \/ \E e \in c.queue : e.resv = x.id
                            \/ \E m \in Matches : RunningIn(c, m) /\ x.id \in c.match[m].resvs
      BY <1>1, <1>2, <1>5 DEF RowsOwned
    <2>3. \A m \in Matches : RunningIn(c, m) => c.match[m].resvs \cap loose = {}
      BY <1>2, <1>6
    <2> QED
      BY <2>1, <2>2, <2>3 DEF RowsOwned
  <1>8. Settled(c, loose)
    BY <1>2, <1>3, <1>4, <1>6, <1>7 DEF BookInv, Settled
  <1>9. \A leases : LeasesAgree(b, leases) => LeasesAgree(c, leases)
    BY <1>2, <1>5 DEF LeasesAgree
  <1> QED
    BY <1>2, <1>8, <1>9 DEF c

\* A match for exactly the players of the reservations that nothing names yet.
Seating(b, row) ==
    /\ row \in Match /\ row.stage \in {"waiting", "live"}
    /\ row.teams[0] \cap row.teams[1] = {}
    /\ \A r \in row.resvs : \E x \in b.resv :
          x.id = r /\ x.members \subseteq row.teams[0] \cup row.teams[1]
    /\ \A u \in row.teams[0] \cup row.teams[1] : b.holds[u] \in row.resvs

LEMMA CreateKeeps ==
    ASSUME NEW b, NEW row, Settled(b, row.resvs), Seating(b, row),
           NEW m \in Matches, ~RunningIn(b, m)
    PROVE  /\ BookInv(Create(b, m, row))
           /\ \A leases : /\ LeasesAgree(b, leases)
                          /\ \A u \in row.teams[0] \cup row.teams[1] : leases[u] = None
                          => LeasesAgree(Create(b, m, row), leases)
  <1> DEFINE c == Create(b, m, row)
             us == row.teams[0] \cup row.teams[1]
  <1>1. b \in Book /\ RowsAgree(b) /\ SearchesAgree(b) /\ RowsOwned(b, row.resvs)
    BY DEF Settled
  <1>2. us \subseteq Players
    BY DEF Seating, Match
  <1>3. /\ c \in Book
        /\ c.resv = b.resv /\ c.holds = b.holds /\ c.queue = b.queue
        /\ c.match = [b.match EXCEPT ![m] = row]
        /\ \A u \in Players : c.matchOf[u] = IF u \in us THEN m ELSE b.matchOf[u]
    <2> DEFINE f == [u \in Players |-> IF u \in us THEN m ELSE b.matchOf[u]]
               g == [b.match EXCEPT ![m] = row]
    <2>1. c = [b EXCEPT !.match = g, !.matchOf = f]
      BY <1>1 DEF Create, PointTo, Book
    <2>2. f \in [Players -> Matches \cup {None}]
      BY <1>1, RowFacts
    <2>3. g \in [Matches -> Match]
      BY <1>1 DEF Seating, Book
    <2>4. \A u \in Players : f[u] = IF u \in us THEN m ELSE b.matchOf[u]
      OBVIOUS
    <2> HIDE DEF f, c
    <2>5. /\ c.resv = b.resv /\ c.holds = b.holds /\ c.queue = b.queue
          /\ c.match = g /\ c.matchOf = f /\ c \in Book
      BY <1>1, <2>1, <2>2, <2>3 DEF Book
    <2> QED
      BY <2>4, <2>5
  <1> HIDE DEF c
  <1>4. c.match[m] = row /\ \A n \in Matches \ {m} : c.match[n] = b.match[n]
    BY <1>1, <1>3 DEF Book
  <1>5. /\ RunningIn(c, m) /\ Roster(c, m) = us
        /\ \A n \in Matches \ {m} : /\ RunningIn(c, n) <=> RunningIn(b, n)
                                    /\ Roster(c, n) = Roster(b, n)
    BY <1>4 DEF RunningIn, Roster, Seating
  <1>6. RowsAgree(c)
    BY <1>1, <1>3 DEF RowsAgree
  <1>7. SearchesAgree(c)
    <2>1. ASSUME NEW e \in c.queue, NEW u \in e.members
          PROVE  c.matchOf[u] = None
      <3>1. u \in Players /\ b.holds[u] = e.resv /\ b.matchOf[u] = None
        BY <1>1, <1>3, RowFacts DEF SearchesAgree, RowsAgree
      <3>2. u \notin us
        BY <1>1, <1>3, <3>1 DEF RowsOwned, Seating
      <3> QED
        BY <1>3, <3>1, <3>2
    <2> QED
      BY <1>1, <1>3, <2>1 DEF SearchesAgree
  <1>8. GameAgrees(c, m)
    <2>1. \A e \in c.queue : e.resv \notin row.resvs
      BY <1>1, <1>3 DEF RowsOwned
    <2>2. \A n \in Matches \ {m} : RunningIn(c, n) => row.resvs \cap c.match[n].resvs = {}
      BY <1>1, <1>4, <1>5 DEF RowsOwned
    <2>3. \A r \in row.resvs : \E x \in c.resv : x.id = r /\ x.members \subseteq us
      BY <1>3 DEF Seating
    <2>4. \A u \in us : c.holds[u] \in row.resvs /\ c.matchOf[u] = m
      BY <1>2, <1>3 DEF Seating
    <2> QED
      BY <1>4, <1>5, <2>1, <2>2, <2>3, <2>4 DEF GameAgrees
  <1>9. ASSUME NEW n \in Matches \ {m}, RunningIn(c, n)
        PROVE  GameAgrees(c, n)
    <2>1. /\ RunningIn(b, n) /\ GameAgrees(b, n) /\ c.match[n] = b.match[n]
          /\ b.match[n].resvs \cap row.resvs = {}
      BY <1>1, <1>4, <1>5, <1>9 DEF Settled, RowsOwned
    <2>2. \A u \in Roster(b, n) : u \in Players /\ u \notin us
      BY <1>1, <2>1, RowFacts DEF GameAgrees, Roster, Seating
    <2>3. \A k \in Matches \ {n} : RunningIn(c, k) => c.match[n].resvs \cap c.match[k].resvs = {}
      BY <1>4, <1>5, <2>1 DEF GameAgrees
    <2>4. \A e \in c.queue : e.resv \notin c.match[n].resvs
      BY <1>3, <2>1 DEF GameAgrees
    <2>5. \A r \in c.match[n].resvs : \E x \in c.resv : x.id = r /\ x.members \subseteq Roster(c, n)
      BY <1>3, <1>5, <2>1 DEF GameAgrees
    <2>6. \A u \in Roster(c, n) : c.holds[u] \in c.match[n].resvs /\ c.matchOf[u] = n
      BY <1>3, <1>5, <2>1, <2>2 DEF GameAgrees
    <2> QED
      BY <2>3, <2>4, <2>5, <2>6 DEF GameAgrees
  <1>10. RowsOwned(c, {})
    <2> SUFFICES ASSUME NEW x \in c.resv
                 PROVE  \/ \E e \in c.queue : e.resv = x.id
                        \/ \E n \in Matches : RunningIn(c, n) /\ x.id \in c.match[n].resvs
      BY DEF RowsOwned
    <2>1. \/ x.id \in row.resvs \/ \E e \in c.queue : e.resv = x.id
          \/ \E n \in Matches : RunningIn(b, n) /\ x.id \in b.match[n].resvs
      BY <1>1, <1>3 DEF RowsOwned
    <2> QED
      BY <1>4, <1>5, <2>1
  <1>11. \A n \in Matches : c.match[n].teams[0] \cap c.match[n].teams[1] = {}
    BY <1>4 DEF Settled, Seating
  <1>12. BookInv(c)
    BY <1>3, <1>6, <1>7, <1>8, <1>9, <1>10, <1>11 DEF BookInv, Settled
  <1>13. ASSUME NEW leases, LeasesAgree(b, leases), \A u \in us : leases[u] = None
         PROVE  LeasesAgree(c, leases)
    <2> SUFFICES ASSUME NEW u \in Players, leases[u] # None, c.holds[u] # None
                 PROVE  /\ c.matchOf[u] = leases[u] /\ leases[u] \in Matches
                        /\ RunningIn(c, leases[u])
      BY DEF LeasesAgree
    <2>1. u \notin us
      BY <1>13
    <2>2. b.matchOf[u] = leases[u] /\ leases[u] \in Matches /\ RunningIn(b, leases[u])
      BY <1>3, <1>13 DEF LeasesAgree
    <2> QED
      BY <1>3, <1>5, <2>1, <2>2
  <1> QED
    BY <1>12, <1>13 DEF c

\* The books c are the books b, but that match m is now row.
Replaced(b, c, m, row) ==
    /\ c \in Book
    /\ c.resv = b.resv /\ c.holds = b.holds /\ c.queue = b.queue
    /\ c.match = [b.match EXCEPT ![m] = row]
    /\ \A u \in Players :
          c.matchOf[u] = IF u \in row.teams[0] \cup row.teams[1] THEN m ELSE b.matchOf[u]

\* A running match that changes, or takes in the reservations nothing names yet.
LEMMA ReplaceKeeps ==
    ASSUME NEW b, NEW loose, Settled(b, loose), NEW m \in Matches, RunningIn(b, m),
           NEW row, Seating(b, row), row.resvs = b.match[m].resvs \cup loose,
           NEW c, Replaced(b, c, m, row)
    PROVE  /\ BookInv(c)
           /\ \A leases : /\ LeasesAgree(b, leases)
                          /\ \A u \in row.teams[0] \cup row.teams[1] :
                                leases[u] = None \/ u \in Roster(b, m)
                          => LeasesAgree(c, leases)
  <1> DEFINE us == row.teams[0] \cup row.teams[1]
  <1>1. b \in Book /\ RowsAgree(b) /\ SearchesAgree(b) /\ RowsOwned(b, loose) /\ GameAgrees(b, m)
    BY DEF Settled
  <1>2. us \subseteq Players
    BY DEF Seating, Match
  <1>3. /\ c \in Book
        /\ c.resv = b.resv /\ c.holds = b.holds /\ c.queue = b.queue
        /\ \A u \in Players : c.matchOf[u] = IF u \in us THEN m ELSE b.matchOf[u]
    BY DEF Replaced
  <1>4. c.match[m] = row /\ \A n \in Matches \ {m} : c.match[n] = b.match[n]
    BY <1>1 DEF Replaced, Book
  <1>5. /\ RunningIn(c, m) /\ Roster(c, m) = us
        /\ \A n \in Matches \ {m} : /\ RunningIn(c, n) <=> RunningIn(b, n)
                                    /\ Roster(c, n) = Roster(b, n)
    BY <1>4 DEF RunningIn, Roster, Seating
  <1>6. RowsAgree(c)
    BY <1>1, <1>3 DEF RowsAgree
  <1>7. \A e \in c.queue : e.resv \notin row.resvs
    BY <1>1, <1>3 DEF RowsOwned, GameAgrees
  <1>8. SearchesAgree(c)
    <2>1. ASSUME NEW e \in c.queue, NEW u \in e.members
          PROVE  c.matchOf[u] = None
      <3>1. u \in Players /\ b.holds[u] = e.resv /\ b.matchOf[u] = None
        BY <1>1, <1>3, RowFacts DEF SearchesAgree, RowsAgree
      <3>2. u \notin us
        BY <1>7, <3>1 DEF Seating
      <3> QED
        BY <1>3, <3>1, <3>2
    <2> QED
      BY <1>1, <1>3, <2>1 DEF SearchesAgree
  <1>9. \A n \in Matches \ {m} : RunningIn(b, n) => row.resvs \cap b.match[n].resvs = {}
    BY <1>1 DEF RowsOwned, GameAgrees
  <1>10. GameAgrees(c, m)
    <2>1. \A n \in Matches \ {m} : RunningIn(c, n) => row.resvs \cap c.match[n].resvs = {}
      BY <1>4, <1>5, <1>9
    <2>2. \A r \in row.resvs : \E x \in c.resv : x.id = r /\ x.members \subseteq us
      BY <1>3 DEF Seating
    <2>3. \A u \in us : c.holds[u] \in row.resvs /\ c.matchOf[u] = m
      BY <1>2, <1>3 DEF Seating
    <2> QED
      BY <1>4, <1>5, <1>7, <2>1, <2>2, <2>3 DEF GameAgrees
  <1>11. ASSUME NEW n \in Matches \ {m}, RunningIn(c, n)
         PROVE  GameAgrees(c, n)
    <2>1. /\ RunningIn(b, n) /\ GameAgrees(b, n) /\ c.match[n] = b.match[n]
          /\ b.match[n].resvs \cap row.resvs = {}
      BY <1>4, <1>5, <1>9, <1>11 DEF Settled
    <2>2. \A u \in Roster(b, n) : u \in Players /\ u \notin us
      BY <1>1, <2>1, RowFacts DEF GameAgrees, Roster, Seating
    <2>3. \A k \in Matches \ {n} : RunningIn(c, k) => c.match[n].resvs \cap c.match[k].resvs = {}
      BY <1>4, <1>5, <2>1 DEF GameAgrees
    <2>4. \A e \in c.queue : e.resv \notin c.match[n].resvs
      BY <1>3, <2>1 DEF GameAgrees
    <2>5. \A r \in c.match[n].resvs : \E x \in c.resv : x.id = r /\ x.members \subseteq Roster(c, n)
      BY <1>3, <1>5, <2>1 DEF GameAgrees
    <2>6. \A u \in Roster(c, n) : c.holds[u] \in c.match[n].resvs /\ c.matchOf[u] = n
      BY <1>3, <1>5, <2>1, <2>2 DEF GameAgrees
    <2> QED
      BY <2>3, <2>4, <2>5, <2>6 DEF GameAgrees
  <1>12. RowsOwned(c, {})
    <2> SUFFICES ASSUME NEW x \in c.resv
                 PROVE  \/ \E e \in c.queue : e.resv = x.id
                        \/ \E n \in Matches : RunningIn(c, n) /\ x.id \in c.match[n].resvs
      BY DEF RowsOwned
    <2>1. \/ x.id \in row.resvs \/ \E e \in c.queue : e.resv = x.id
          \/ \E n \in Matches \ {m} : RunningIn(b, n) /\ x.id \in b.match[n].resvs
      BY <1>1, <1>3 DEF RowsOwned
    <2> QED
      BY <1>4, <1>5, <2>1
  <1>13. \A n \in Matches : c.match[n].teams[0] \cap c.match[n].teams[1] = {}
    BY <1>4 DEF Settled, Seating
  <1>14. BookInv(c)
    BY <1>3, <1>6, <1>8, <1>10, <1>11, <1>12, <1>13 DEF BookInv, Settled
  <1>15. ASSUME NEW leases, LeasesAgree(b, leases),
                \A u \in us : leases[u] = None \/ u \in Roster(b, m)
         PROVE  LeasesAgree(c, leases)
    <2> SUFFICES ASSUME NEW u \in Players, leases[u] # None, c.holds[u] # None
                 PROVE  /\ c.matchOf[u] = leases[u] /\ leases[u] \in Matches
                        /\ RunningIn(c, leases[u])
      BY DEF LeasesAgree
    <2>1. b.matchOf[u] = leases[u] /\ leases[u] \in Matches /\ RunningIn(b, leases[u])
      BY <1>3, <1>15 DEF LeasesAgree
    <2>2. u \in us => b.matchOf[u] = m
      BY <1>1, <1>15 DEF GameAgrees
    <2> QED
      BY <1>3, <1>5, <2>1, <2>2
  <1> QED
    BY <1>14, <1>15

\* A pointer withdrawn from a match that is over, and a search that grows stale.
LEMMA PointerKeeps ==
    ASSUME NEW b, BookInv(b), NEW u \in Players,
           \A m \in Matches : RunningIn(b, m) => b.matchOf[u] # m
    PROVE  /\ BookInv(PointTo(b, {u}, None))
           /\ \A leases : LeasesAgree(b, leases) => LeasesAgree(PointTo(b, {u}, None), leases)
  <1> DEFINE c == PointTo(b, {u}, None)
  <1>1. b \in Book /\ RowsAgree(b) /\ SearchesAgree(b) /\ RowsOwned(b, {})
    BY DEF BookInv, Settled
  <1>2. /\ c \in Book
        /\ c.resv = b.resv /\ c.holds = b.holds /\ c.queue = b.queue /\ c.match = b.match
        /\ \A v \in Players : c.matchOf[v] = IF v = u THEN None ELSE b.matchOf[v]
    <2>1. [v \in Players |-> IF v \in {u} THEN None ELSE b.matchOf[v]]
              \in [Players -> Matches \cup {None}]
      BY <1>1, RowFacts
    <2> QED
      BY <1>1, <2>1 DEF PointTo, Book
  <1> HIDE DEF c
  <1>3. \A m \in Matches : /\ RunningIn(c, m) <=> RunningIn(b, m)
                           /\ Roster(c, m) = Roster(b, m)
    BY <1>2 DEF RunningIn, Roster
  <1>4. RowsAgree(c) /\ RowsOwned(c, {})
    BY <1>1, <1>2, <1>3 DEF RowsAgree, RowsOwned
  <1>5. SearchesAgree(c)
    BY <1>1, <1>2, RowFacts DEF SearchesAgree
  <1>6. ASSUME NEW m \in Matches, RunningIn(c, m)
        PROVE  GameAgrees(c, m)
    <2>1. GameAgrees(b, m)
      BY <1>3, <1>6 DEF BookInv, Settled
    <2>2. \A v \in Roster(b, m) : v \in Players /\ v # u
      BY <1>1, <1>3, <1>6, <2>1, RowFacts DEF GameAgrees, Roster
    <2> QED
      BY <1>2, <1>3, <2>1, <2>2 DEF GameAgrees
  <1>7. BookInv(c)
    BY <1>2, <1>4, <1>5, <1>6 DEF BookInv, Settled
  <1>8. ASSUME NEW leases, LeasesAgree(b, leases)
        PROVE  LeasesAgree(c, leases)
    BY <1>2, <1>3, <1>8 DEF LeasesAgree
  <1> QED
    BY <1>7, <1>8 DEF c

LEMMA LateKeeps ==
    ASSUME NEW b, BookInv(b), NEW e \in b.queue
    PROVE  LET c == [b EXCEPT !.queue = (@ \ {e}) \cup {[e EXCEPT !.late = TRUE]}]
           IN  /\ BookInv(c)
               /\ \A leases : LeasesAgree(b, leases) => LeasesAgree(c, leases)
  <1> DEFINE late == [e EXCEPT !.late = TRUE]
             c == [b EXCEPT !.queue = (@ \ {e}) \cup {late}]
  <1>1. b \in Book /\ RowsAgree(b) /\ SearchesAgree(b) /\ RowsOwned(b, {})
    BY DEF BookInv, Settled
  <1>2. late \in Entry /\ late.resv = e.resv /\ late.members = e.members
    BY <1>1 DEF Book, Entry
  <1> HIDE DEF late
  <1>3. /\ c \in Book
        /\ c.resv = b.resv /\ c.holds = b.holds /\ c.match = b.match /\ c.matchOf = b.matchOf
        /\ c.queue = (b.queue \ {e}) \cup {late}
    BY <1>1, <1>2 DEF Book
  <1> HIDE DEF c
  <1>4. \A m \in Matches : /\ RunningIn(c, m) <=> RunningIn(b, m)
                           /\ Roster(c, m) = Roster(b, m)
    BY <1>3 DEF RunningIn, Roster
  <1>5. RowsAgree(c)
    BY <1>1, <1>3 DEF RowsAgree
  <1>6. SearchesAgree(c)
    BY <1>1, <1>2, <1>3 DEF SearchesAgree
  <1>7. \A m \in Matches : RunningIn(c, m) => GameAgrees(c, m)
    BY <1>2, <1>3, <1>4 DEF BookInv, Settled, GameAgrees
  <1>8. RowsOwned(c, {})
    <2> SUFFICES ASSUME NEW x \in c.resv
                 PROVE  \/ \E f \in c.queue : f.resv = x.id
                        \/ \E n \in Matches : RunningIn(c, n) /\ x.id \in c.match[n].resvs
      BY DEF RowsOwned
    <2>1. \/ \E f \in b.queue : f.resv = x.id
          \/ \E n \in Matches : RunningIn(b, n) /\ x.id \in b.match[n].resvs
      BY <1>1, <1>3 DEF RowsOwned
    <2> QED
      BY <1>2, <1>3, <1>4, <2>1
  <1>9. BookInv(c)
    BY <1>3, <1>5, <1>6, <1>7, <1>8 DEF BookInv, Settled
  <1>10. ASSUME NEW leases, LeasesAgree(b, leases)
         PROVE  LeasesAgree(c, leases)
    BY <1>3, <1>4, <1>10 DEF LeasesAgree
  <1> QED
    BY <1>9, <1>10 DEF c, late

(***************************************************************************)
(* A pass over the queue.                                                  *)
(***************************************************************************)
Good(b) == BookInv(b) /\ LeasesAgree(b, lease)

LEMMA GoodDrop ==
    ASSUME NEW b, Good(b), NEW entries, entries \subseteq b.queue
    PROVE  /\ Good(Drop(b, entries)) /\ Drop(b, entries).match = b.match
           /\ Drop(b, entries).queue = b.queue \ entries
  BY DropKeeps DEF Good

LEMMA GoodAnswered ==
    ASSUME NEW b, Good(b), NEW u
    PROVE  Good(Answered(b, u)) /\ Answered(b, u).match = b.match
  <1>1. {e \in Stale(b.queue) : e.resv = b.holds[u]} \subseteq b.queue
    BY DEF Stale
  <1> QED
    BY <1>1, GoodDrop DEF Answered

LEMMA GoodFinish ==
    ASSUME NEW b, Good(b), b.match = match, NEW m \in Matches, Running(m)
    PROVE  /\ Good(Finish(b, m))
           /\ \A u \in MembersOf(m) : Finish(b, m).holds[u] = None
  BY FinishKeeps DEF Good

\* Nobody who searches has a lease.
LEMMA SearchersHaveNoLease ==
    ASSUME NEW b, Good(b), NEW e \in b.queue, NEW u \in e.members
    PROVE  u \in Players /\ b.holds[u] = e.resv /\ lease[u] = None
  <1>1. b \in Book /\ RowsAgree(b) /\ SearchesAgree(b)
    BY DEF Good, BookInv, Settled
  <1>2. u \in Players /\ e.resv \in Resvs /\ b.matchOf[u] = None
    BY <1>1, RowFacts DEF SearchesAgree
  <1>3. b.holds[u] = e.resv
    BY <1>1, <1>2 DEF SearchesAgree, RowsAgree
  <1> QED
    BY <1>2, <1>3, NoneIsNothing DEF Good, LeasesAgree

LEMMA GoodPairing ==
    ASSUME NEW b, Good(b), b.match = match, NEW pair \in Pairings(b.queue),
           NEW m \in Matches, IsNext(m)
    PROVE  Good(Create([b EXCEPT !.queue = @ \ (pair[1] \cup pair[2])], m, RankedMatch(pair)))
  <1> DEFINE selected == pair[1] \cup pair[2]
             c == [b EXCEPT !.queue = @ \ selected]
             row == RankedMatch(pair)
  <1>1. PICK n \in Sizes : HeadCount(pair[1]) = n
    BY DEF Pairings
  <1>2. pair[1] \subseteq b.queue /\ pair[2] \subseteq b.queue /\ pair[1] \cap pair[2] = {}
    BY DEF Pairings
  <1>3. selected \subseteq b.queue
    BY <1>2
  <1>4. b \in Book /\ SearchesAgree(b)
    BY DEF Good, BookInv, Settled
  <1>5. /\ row.stage = "waiting" /\ row.resvs = {e.resv : e \in selected}
        /\ row.teams[0] = Heads(pair[1]) /\ row.teams[1] = Heads(pair[2])
    BY DEF RankedMatch
  <1>6. row \in Match
    <2>1. n \in {1, 2}
      BY LobbyAssumption
    <2>2. {e.resv : e \in selected} \subseteq Resvs
      BY <1>3, <1>4, RowFacts
    <2>3. Heads(pair[1]) \subseteq Players /\ Heads(pair[2]) \subseteq Players
      BY <1>2, <1>4, RowFacts DEF Heads
    <2>4. [t \in {0, 1} |-> Heads(pair[t + 1])] \in [{0, 1} -> SUBSET Players]
      BY <2>3
    <2> QED
      BY <1>1, <2>1, <2>2, <2>4 DEF RankedMatch, Match
  <1> HIDE DEF row
  <1>7. \A u \in Heads(pair[1]) : \E e \in pair[1] : b.holds[u] = e.resv /\ lease[u] = None
    BY <1>2, SearchersHaveNoLease DEF Heads
  <1>8. \A u \in Heads(pair[2]) : \E e \in pair[2] : b.holds[u] = e.resv /\ lease[u] = None
    BY <1>2, SearchersHaveNoLease DEF Heads
  <1>9. row.teams[0] \cap row.teams[1] = {}
    <2> SUFFICES ASSUME NEW u \in Heads(pair[1]), u \in Heads(pair[2])
                 PROVE  FALSE
      BY <1>5
    <2>1. PICK e \in pair[1] : b.holds[u] = e.resv
      BY <1>7
    <2>2. PICK f \in pair[2] : b.holds[u] = f.resv
      BY <1>8
    <2> QED
      BY <1>2, <1>4, <2>1, <2>2 DEF SearchesAgree
  <1>10. Settled(c, {e.resv : e \in selected}) /\ c.match = b.match /\ c.holds = b.holds
         /\ c.resv = b.resv /\ LeasesAgree(c, lease)
    BY <1>3, DequeueKeeps DEF Good
  <1> HIDE DEF c
  <1>11. Seating(c, row)
    <2>1. ASSUME NEW e \in selected
          PROVE  \E x \in c.resv : x.id = e.resv /\ x.members \subseteq row.teams[0] \cup row.teams[1]
      <3>1. PICK x \in b.resv : x.id = e.resv /\ x.members = e.members
        BY <1>3, <1>4 DEF SearchesAgree
      <3>2. e.members \subseteq Heads(pair[1]) \cup Heads(pair[2])
        BY DEF Heads
      <3> QED
        BY <1>5, <1>10, <3>1, <3>2
    <2>2. \A u \in row.teams[0] \cup row.teams[1] : c.holds[u] \in row.resvs
      BY <1>5, <1>7, <1>8, <1>10
    <2> QED
      BY <1>5, <1>6, <1>9, <2>1, <2>2 DEF Seating
  <1>12. ~RunningIn(c, m)
    BY <1>10 DEF RunningIn, IsNext
  <1>13. \A u \in row.teams[0] \cup row.teams[1] : lease[u] = None
    BY <1>5, <1>7, <1>8
  <1>14. Settled(c, row.resvs)
    BY <1>5, <1>10
  <1>15. Good(Create(c, m, row))
    BY <1>10, <1>11, <1>12, <1>13, <1>14, CreateKeeps DEF Good
  <1> QED
    BY <1>15 DEF c, row

LEMMA GoodMatchQueues ==
    ASSUME NEW b, Good(b), b.match = match, NEW d \in MatchQueues(b)
    PROVE  Good(d)
  <1> DEFINE c == Drop(b, Stale(b.queue))
             Selected(pair) == pair[1] \cup pair[2]
  <1>1. Good(c) /\ c.match = match
    BY GoodDrop DEF Stale
  <1> HIDE DEF c
  <1>2. \/ d = c
        \/ \E pair \in Pairings(c.queue) :
              \/ \E e \in Selected(pair) : d = Drop(c, {e})
              \/ d = Drop(c, Selected(pair))
              \/ \E m \in Matches :
                    /\ IsNext(m)
                    /\ d = Create([c EXCEPT !.queue = @ \ Selected(pair)], m, RankedMatch(pair))
    BY DEF MatchQueues, c
  <1>3. ASSUME NEW pair \in Pairings(c.queue)
        PROVE  Selected(pair) \subseteq c.queue
    BY DEF Pairings
  <1>4. CASE d = c
    BY <1>1, <1>4
  <1>5. ASSUME NEW pair \in Pairings(c.queue), NEW e \in Selected(pair), d = Drop(c, {e})
        PROVE  Good(d)
    <2>1. {e} \subseteq c.queue
      BY <1>3
    <2> QED
      BY <1>1, <1>5, <2>1, GoodDrop
  <1>6. ASSUME NEW pair \in Pairings(c.queue), d = Drop(c, Selected(pair))
        PROVE  Good(d)
    BY <1>1, <1>3, <1>6, GoodDrop
  <1>7. ASSUME NEW pair \in Pairings(c.queue), NEW m \in Matches, IsNext(m),
               d = Create([c EXCEPT !.queue = @ \ Selected(pair)], m, RankedMatch(pair))
        PROVE  Good(d)
    BY <1>1, <1>7, GoodPairing
  <1> QED
    BY <1>2, <1>4, <1>5, <1>6, <1>7

(***************************************************************************)
(* The handlers.                                                           *)
(***************************************************************************)
LeaseType == [Players -> Rooms \cup Matches \cup {None}]

Inv == Good(books) /\ usable \subseteq Players /\ lease \in LeaseType

\* Nobody who searches enters a native room, and nobody who has gone on to
\* something else asks to leave a match that is over: without either, a search
\* or a pointer is lost (SomsaiLobby, LateLeaves and SearchersRoam).
Orderly == ~SearchersRoam /\ ~LateLeaves

LEMMA Becoming ==
    ASSUME Inv, NEW b, Good(b), Become(b), UNCHANGED <<usable, lease>>
    PROVE  Inv'
  <1>1. b \in Book
    BY DEF Good, BookInv, Settled
  <1>2. books' = b
    BY <1>1 DEF Become, books, Book
  <1>3. BookInv(books') /\ LeasesAgree(books', lease')
    BY <1>2 DEF Good
  <1> QED
    BY <1>3 DEF Inv, Good

LEMMA NothingBooked ==
    ASSUME Inv, UNCHANGED bookVars, usable' \subseteq usable, lease' \in LeaseType,
           \A u \in Players : lease'[u] \in {lease[u], None}
    PROVE  Inv'
  <1>1. books' = books
    BY DEF books, bookVars
  <1>2. BookInv(books') /\ LeasesAgree(books', lease')
    BY <1>1 DEF Inv, Good, LeasesAgree
  <1> QED
    BY <1>2 DEF Inv, Good

LEMMA FreshIsUnnamed ==
    ASSUME NEW r \in Resvs, r \notin Referenced
    PROVE  Unnamed(books, r)
  BY DEF Referenced, Unnamed, books, Running, RunningIn

\* What every handler starts from.
LEMMA BooksFacts ==
    ASSUME Inv
    PROVE  /\ books \in Book /\ Settled(books, {}) /\ LeasesAgree(books, lease)
           /\ books.holds = holds /\ books.matchOf = matchOf /\ books.resv = resv
           /\ books.queue = queue /\ books.match = match
           /\ \A m \in Matches : /\ RunningIn(books, m) <=> Running(m)
                                 /\ Roster(books, m) = MembersOf(m)
                                 /\ match[m] \in Match
  <1>1. books \in Book /\ Settled(books, {}) /\ LeasesAgree(books, lease)
    BY DEF Inv, Good, BookInv, Settled
  <1>2. /\ books.holds = holds /\ books.matchOf = matchOf /\ books.resv = resv
        /\ books.queue = queue /\ books.match = match
    BY DEF books
  <1>3. \A m \in Matches : match[m] \in Match
    BY <1>1, <1>2 DEF Book
  <1> QED
    BY <1>1, <1>2, <1>3 DEF RunningIn, Running, Roster, MembersOf

LEMMA Reserving ==
    ASSUME Inv, NEW r \in Resvs, r \notin Referenced, NEW us, Reservable(us),
           NEW u \in Players, NEW custom \in BOOLEAN
    PROVE  /\ Settled(Reserve(books, u, us, r, custom), {r})
           /\ Reserved(books, Reserve(books, u, us, r, custom), us, r)
           /\ LeasesAgree(Reserve(books, u, us, r, custom), lease)
           /\ us \subseteq Players /\ \A v \in us : lease[v] = None
  <1>1. us \subseteq Players /\ \A v \in us : books.holds[v] = None /\ lease[v] = None
    BY BooksFacts DEF Reservable, Idle, Inv
  <1>2. PICK b : b = books
    OBVIOUS
  <1>3. Settled(b, {}) /\ LeasesAgree(b, lease) /\ Unnamed(b, r)
    BY <1>2, BooksFacts, FreshIsUnnamed
  <1>4. \A v \in us : b.holds[v] = None
    BY <1>1, <1>2
  <1>5. /\ Settled(Reserve(b, u, us, r, custom), {} \cup {r})
        /\ Reserved(b, Reserve(b, u, us, r, custom), us, r)
        /\ \A leases : LeasesAgree(b, leases) /\ (\A v \in us : leases[v] = None)
                         => LeasesAgree(Reserve(b, u, us, r, custom), leases)
    BY <1>1, <1>3, <1>4, ReserveKeeps
  <1>6. {} \cup {r} = {r}
    OBVIOUS
  <1>7. Settled(Reserve(b, u, us, r, custom), {r})
    BY <1>5, <1>6
  <1> QED
    BY <1>1, <1>2, <1>3, <1>5, <1>7

LEMMA PollStep ==
    ASSUME Inv, NEW u \in Players, Poll(u)
    PROVE  Inv'
  <1>1. Good(Answered(books, u))
    BY GoodAnswered DEF Inv
  <1> QED
    BY <1>1, Becoming DEF Poll, Handled

\* The search that "queue_join" adds, and the books with it.
Seekers(u, n) == IF n = 2 THEN Side(u) ELSE {u}
Search(u, n, r) == [resv |-> r, members |-> Seekers(u, n), size |-> n, late |-> FALSE]
Joined(u, n, r) ==
    [PointTo(Reserve(books, u, Seekers(u, n), r, FALSE), Seekers(u, n), None)
        EXCEPT !.queue = @ \cup {Search(u, n, r)}]

LEMMA JoinedIs ==
    ASSUME NEW u, NEW n, NEW r, JoinQueue(u, n, r)
    PROVE  /\ r \notin Referenced /\ Reservable(Seekers(u, n))
           /\ \E d \in MatchQueues(Joined(u, n, r)) : Become(Answered(d, u))
           /\ UNCHANGED <<usable, lease>>
  BY DEF JoinQueue, IsFresh, Handled, Joined, Search, Seekers

LEMMA JoinedKeeps ==
    ASSUME Inv, NEW u \in Players, NEW n \in Sizes, NEW r \in Resvs, JoinQueue(u, n, r)
    PROVE  Good(Joined(u, n, r)) /\ Joined(u, n, r).match = match
  <1> DEFINE us == Seekers(u, n)
             entry == Search(u, n, r)
             b == Reserve(books, u, us, r, FALSE)
             joined == Joined(u, n, r)
  <1>1. r \notin Referenced /\ Reservable(us)
    BY JoinedIs
  <1>2. joined = [PointTo(b, us, None) EXCEPT !.queue = @ \cup {entry}]
    BY DEF Joined
  <1>3. /\ Settled(b, {r}) /\ Reserved(books, b, us, r) /\ LeasesAgree(b, lease)
        /\ us \subseteq Players /\ \A v \in us : lease[v] = None
    BY <1>1, Reserving
  <1>4. n \in {1, 2}
    BY LobbyAssumption
  <1>5. entry \in Entry /\ entry.resv = r /\ entry.members = us
    BY <1>3, <1>4 DEF Entry, Search
  <1> HIDE DEF us, b, entry, joined
  <1>6. \E x \in b.resv : x.id = entry.resv /\ x.members = entry.members
    BY <1>3, <1>5 DEF Reserved
  <1>7. b.match = match
    BY <1>3, BooksFacts DEF Reserved
  <1>8. joined = [PointTo(b, entry.members, None) EXCEPT !.queue = @ \cup {entry}]
    BY <1>2, <1>5
  <1>9. Good(joined) /\ joined.match = match
    BY <1>3, <1>5, <1>6, <1>7, <1>8, EnqueueKeeps DEF Good
  <1> QED
    BY <1>9 DEF joined

LEMMA JoinQueueStep ==
    ASSUME Inv, NEW u \in Players, NEW n \in Sizes, NEW r \in Resvs, JoinQueue(u, n, r)
    PROVE  Inv'
  <1>1. PICK b : b = Joined(u, n, r)
    OBVIOUS
  <1>2. PICK d \in MatchQueues(b) : Become(Answered(d, u))
    BY <1>1, JoinedIs
  <1>3. Good(b) /\ b.match = match
    BY <1>1, JoinedKeeps
  <1>4. Good(Answered(d, u))
    BY <1>2, <1>3, GoodMatchQueues, GoodAnswered
  <1> QED
    BY <1>2, <1>4, Becoming, JoinedIs

LEMMA LeaveQueueStep ==
    ASSUME Inv, NEW u \in Players, LeaveQueue(u)
    PROVE  Inv'
  <1> DEFINE mine == {e \in queue : e.resv = holds[u]}
             m == matchOf[u]
  <1>1. UNCHANGED <<usable, lease>>
    BY DEF LeaveQueue, Handled
  <1>2. CASE Become(Drop(books, mine))
    <2>1. Good(Drop(books, mine))
      BY GoodDrop, BooksFacts DEF Inv
    <2> QED
      BY <1>1, <1>2, <2>1, Becoming
  <1>3. CASE m # None /\ match[m].stage = "waiting" /\ Become(Finish(books, m))
    <2>1. m \in Matches
      BY <1>3, BooksFacts, RowFacts
    <2>2. Good(Finish(books, m))
      BY <1>3, <2>1, GoodFinish, BooksFacts DEF Inv, Running
    <2> QED
      BY <1>1, <1>3, <2>2, Becoming
  <1> QED
    BY <1>2, <1>3 DEF LeaveQueue

LEMMA CreateCustomStep ==
    ASSUME Inv, NEW u \in Players, NEW n \in Sizes, NEW m \in Matches, NEW r \in Resvs,
           CreateCustom(u, n, m, r)
    PROVE  Inv'
  <1> DEFINE us == Side(u)
             row == [stage |-> "waiting", ranked |-> FALSE, size |-> n, resvs |-> {r},
                     teams |-> [t \in {0, 1} |-> IF t = 0 THEN us ELSE {}]]
             b == Reserve(books, u, us, r, TRUE)
  <1>1. /\ r \notin Referenced /\ Reservable(us) /\ IsNext(m)
        /\ Become(Create(b, m, row)) /\ UNCHANGED <<usable, lease>>
    BY DEF CreateCustom, IsFresh, Handled
  <1>2. /\ Settled(b, {r}) /\ Reserved(books, b, us, r) /\ LeasesAgree(b, lease)
        /\ us \subseteq Players /\ \A v \in us : lease[v] = None
    BY <1>1, Reserving
  <1> HIDE DEF us, b
  <1>3. n \in {1, 2}
    BY LobbyAssumption
  <1>4. [t \in {0, 1} |-> IF t = 0 THEN us ELSE {}] \in [{0, 1} -> SUBSET Players]
    BY <1>2
  <1>5. /\ row \in Match /\ row.stage = "waiting" /\ row.resvs = {r}
        /\ row.teams[0] = us /\ row.teams[1] = {}
    BY <1>3, <1>4 DEF Match
  <1> HIDE DEF row
  <1>6. Seating(b, row)
    BY <1>2, <1>5 DEF Seating, Reserved
  <1>7. ~RunningIn(b, m)
    BY <1>1, <1>2, BooksFacts DEF RunningIn, IsNext, Reserved
  <1>8. Settled(b, row.resvs)
    BY <1>2, <1>5
  <1>9. Good(Create(b, m, row))
    BY <1>2, <1>5, <1>6, <1>7, <1>8, CreateKeeps DEF Good
  <1> QED
    BY <1>1, <1>9, Becoming

LEMMA AcceptDuelStep ==
    ASSUME Inv, NEW u \in Players, NEW v \in Players, NEW m \in Matches,
           NEW r \in Resvs, NEW t \in Resvs, AcceptDuel(u, v, m, r, t)
    PROVE  Inv'
  <1> DEFINE row == [stage |-> "live", ranked |-> FALSE, size |-> 1, resvs |-> {r, t},
                     teams |-> [k \in {0, 1} |-> IF k = 0 THEN {v} ELSE {u}]]
             b == Reserve(books, v, {v}, r, FALSE)
             c == Reserve(b, u, {u}, t, FALSE)
  <1>1. /\ u # v /\ IsNext(m) /\ Reservable({u, v})
        /\ r \notin Referenced /\ t \notin Referenced /\ t # r
        /\ Become(Create(c, m, row)) /\ UNCHANGED <<usable, lease>>
    BY DEF AcceptDuel, IsFresh, Handled
  <1>2. Reservable({v}) /\ holds[u] = None /\ lease[u] = None
    BY <1>1 DEF Reservable, Idle
  <1>3. /\ Settled(b, {r}) /\ Reserved(books, b, {v}, r) /\ LeasesAgree(b, lease)
        /\ \A w \in {v} : lease[w] = None
    BY <1>1, <1>2, Reserving
  <1>4. Unnamed(books, t)
    BY <1>1, FreshIsUnnamed
  <1> HIDE DEF b
  <1>5. Unnamed(b, t)
    BY <1>1, <1>3, <1>4 DEF Unnamed, Reserved, RunningIn
  <1>6. \A w \in {u} : b.holds[w] = None /\ lease[w] = None
    BY <1>1, <1>2, <1>3, BooksFacts DEF Reserved
  <1>7. Settled(c, {r} \cup {t}) /\ Reserved(b, c, {u}, t) /\ LeasesAgree(c, lease)
    <2>1. PICK us, loose, custom : us = {u} /\ loose = {r} /\ custom = FALSE
      OBVIOUS
    <2>2. /\ us \subseteq Players /\ \A w \in us : b.holds[w] = None
          /\ \A w \in us : lease[w] = None
      BY <1>6, <2>1
    <2>3. Settled(b, loose) /\ LeasesAgree(b, lease) /\ custom \in BOOLEAN
      BY <1>3, <2>1
    <2>4. /\ Settled(Reserve(b, u, us, t, custom), loose \cup {t})
          /\ Reserved(b, Reserve(b, u, us, t, custom), us, t)
          /\ \A leases : LeasesAgree(b, leases) /\ (\A w \in us : leases[w] = None)
                           => LeasesAgree(Reserve(b, u, us, t, custom), leases)
      BY <1>5, <2>2, <2>3, ReserveKeeps
    <2>5. LeasesAgree(Reserve(b, u, us, t, custom), lease)
      BY <2>2, <2>3, <2>4
    <2> QED
      BY <2>1, <2>4, <2>5
  <1> HIDE DEF c
  <1>8. [k \in {0, 1} |-> IF k = 0 THEN {v} ELSE {u}] \in [{0, 1} -> SUBSET Players]
    OBVIOUS
  <1>9. /\ row \in Match /\ row.stage = "live" /\ row.resvs = {r, t}
        /\ row.teams[0] = {v} /\ row.teams[1] = {u}
    BY <1>8 DEF Match
  <1> HIDE DEF row
  <1>10. c.holds[v] = r /\ c.holds[u] = t
    BY <1>1, <1>3, <1>7 DEF Reserved
  <1>11. /\ \E x \in c.resv : x.id = r /\ x.members = {v}
         /\ \E x \in c.resv : x.id = t /\ x.members = {u}
    BY <1>3, <1>7 DEF Reserved
  <1>12. Seating(c, row)
    BY <1>1, <1>9, <1>10, <1>11 DEF Seating
  <1>13. ~RunningIn(c, m)
    BY <1>1, <1>3, <1>7, BooksFacts DEF RunningIn, IsNext, Reserved
  <1>14. {r} \cup {t} = row.resvs
    BY <1>9
  <1>15. Settled(c, row.resvs)
    BY <1>7, <1>14
  <1>16. \A w \in row.teams[0] \cup row.teams[1] : lease[w] = None
    BY <1>2, <1>3, <1>9
  <1>17. Good(Create(c, m, row))
    BY <1>7, <1>12, <1>13, <1>15, <1>16, CreateKeeps DEF Good
  <1> QED
    BY <1>1, <1>17, Becoming

\* The match m with the players us in team t, and with the reservations rs.
Reseated(m, t, us, rs) == [match[m] EXCEPT !.teams = Seated(m, t, us), !.resvs = rs]

Reseats(row, m, us, rs) ==
    /\ row \in Match /\ row.stage = match[m].stage /\ row.resvs = rs
    /\ row.teams[0] \cup row.teams[1] = MembersOf(m) \cup us
    /\ row.teams[0] \cap row.teams[1] = {}

LEMMA ReseatedIs ==
    ASSUME NEW m \in Matches, match[m] \in Match, NEW t \in {0, 1},
           NEW us, us \subseteq Players, match[m].teams[0] \cap match[m].teams[1] = {},
           NEW rs, rs \subseteq Resvs
    PROVE  Reseats(Reseated(m, t, us, rs), m, us, rs)
  <1> DEFINE teams == Seated(m, t, us)
             row == Reseated(m, t, us, rs)
  <1>1. match[m].teams \in [{0, 1} -> SUBSET Players]
    BY DEF Match
  <1>2. \A k \in {0, 1} : teams[k] = IF k = t THEN match[m].teams[k] \cup us
                                             ELSE match[m].teams[k] \ us
    BY DEF Seated
  <1>3. teams \in [{0, 1} -> SUBSET Players]
    BY <1>1 DEF Seated
  <1> HIDE DEF teams
  <1>4. row = [match[m] EXCEPT !.teams = teams, !.resvs = rs]
    BY DEF Reseated, teams
  <1> HIDE DEF row
  <1>5. /\ row \in Match /\ row.stage = match[m].stage /\ row.resvs = rs /\ row.teams = teams
    BY <1>3, <1>4 DEF Match
  <1>6. teams[0] \cup teams[1] = MembersOf(m) \cup us /\ teams[0] \cap teams[1] = {}
    BY <1>2 DEF MembersOf
  <1> QED
    BY <1>6, <1>5 DEF row, Reseats

LEMMA JoinCustomStep ==
    ASSUME Inv, NEW u \in Players, NEW m \in Matches, NEW t \in {0, 1}, NEW r \in Resvs,
           JoinCustom(u, m, t, r)
    PROVE  Inv'
  <1> DEFINE us == Side(u)
             b == Reserve(books, u, us, r, TRUE)
             d == [b EXCEPT !.match[m].teams = Seated(m, t, us), !.match[m].resvs = @ \cup {r}]
             c == PointTo(d, us, m)
             rs == match[m].resvs \cup {r}
             row == Reseated(m, t, us, rs)
  <1>1. /\ r \notin Referenced /\ Reservable(us) /\ Running(m)
        /\ Become(c) /\ UNCHANGED <<usable, lease>>
    BY DEF JoinCustom, IsFresh, Handled, Joinable, Running
  <1>2. /\ Settled(b, {r}) /\ Reserved(books, b, us, r) /\ LeasesAgree(b, lease)
        /\ us \subseteq Players /\ \A v \in us : lease[v] = None
    BY <1>1, Reserving
  <1> HIDE DEF us, b
  <1>3. b \in Book /\ b.match = match /\ match \in [Matches -> Match] /\ match[m] \in Match
    BY <1>2, BooksFacts DEF Settled, Reserved, Book
  <1>4. rs \subseteq Resvs
    BY <1>3 DEF Match
  <1>5. match[m].teams[0] \cap match[m].teams[1] = {}
    BY <1>2, <1>3 DEF Settled
  <1>6. /\ row \in Match /\ row.stage = match[m].stage /\ row.resvs = rs
        /\ row.teams[0] \cup row.teams[1] = MembersOf(m) \cup us
        /\ row.teams[0] \cap row.teams[1] = {}
    <2>1. us \subseteq Players
      BY <1>2
    <2> HIDE DEF rs
    <2>2. Reseats(Reseated(m, t, us, rs), m, us, rs)
      BY <1>3, <1>4, <1>5, <2>1, ReseatedIs
    <2> QED
      BY <2>2 DEF Reseats
  <1>7. RunningIn(b, m) /\ Roster(b, m) = MembersOf(m) /\ GameAgrees(b, m)
    BY <1>1, <1>2, <1>3 DEF RunningIn, Roster, MembersOf, Running, Settled
  <1>8. Seating(b, row)
    <2>1. ASSUME NEW q \in row.resvs
          PROVE  \E x \in b.resv : x.id = q /\ x.members \subseteq MembersOf(m) \cup us
      <3>1. CASE q = r
        BY <1>2, <3>1 DEF Reserved
      <3>2. CASE q \in match[m].resvs
        BY <1>3, <1>7, <3>2 DEF GameAgrees
      <3> QED
        BY <1>6, <3>1, <3>2
    <2>2. \A w \in MembersOf(m) \cup us : b.holds[w] \in rs
      BY <1>2, <1>3, <1>7 DEF GameAgrees, Reserved
    <2>3. row.stage \in {"waiting", "live"}
      BY <1>1, <1>6 DEF Running
    <2> QED
      BY <1>6, <2>1, <2>2, <2>3 DEF Seating
  <1>9. Replaced(b, c, m, row)
    <2>1. [b.match EXCEPT ![m].teams = Seated(m, t, us), ![m].resvs = @ \cup {r}]
              = [match EXCEPT ![m] = row]
      BY <1>3 DEF Match, Reseated
    <2>2. [match EXCEPT ![m] = row] \in [Matches -> Match]
      BY <1>3, <1>6
    <2> HIDE DEF row
    <2> DEFINE g == [match EXCEPT ![m] = row]
               f == [v \in Players |-> IF v \in us THEN m ELSE b.matchOf[v]]
    <2>3. d = [b EXCEPT !.match = g]
      BY <1>3, <2>1 DEF Book
    <2>4. f \in [Players -> Matches \cup {None}]
      BY <1>3, RowFacts
    <2>5. c = [d EXCEPT !.matchOf = f]
      BY <1>3, <2>3 DEF PointTo, Book
    <2>6. \A v \in Players : f[v] = IF v \in MembersOf(m) \cup us THEN m ELSE b.matchOf[v]
      BY <1>7 DEF GameAgrees
    <2> HIDE DEF g, f, d, c
    <2>7. /\ c \in Book /\ c.resv = b.resv /\ c.holds = b.holds /\ c.queue = b.queue
          /\ c.match = g /\ c.matchOf = f
      BY <1>3, <2>2, <2>3, <2>4, <2>5 DEF Book, g
    <2> QED
      BY <1>3, <1>6, <2>6, <2>7 DEF Replaced, g
  <1> HIDE DEF c, row
  <1>10. row.resvs = b.match[m].resvs \cup {r}
    BY <1>3, <1>6
  <1>11. \A w \in row.teams[0] \cup row.teams[1] : lease[w] = None \/ w \in Roster(b, m)
    BY <1>2, <1>6, <1>7
  <1>12. Good(c)
    BY <1>2, <1>7, <1>8, <1>9, <1>10, <1>11, ReplaceKeeps DEF Good
  <1> QED
    BY <1>1, <1>12, Becoming

\* What a running match of the books is.
LEMMA GameFacts ==
    ASSUME Inv, NEW m \in Matches, Running(m)
    PROVE  /\ GameAgrees(books, m) /\ RunningIn(books, m) /\ Roster(books, m) = MembersOf(m)
           /\ match \in [Matches -> Match] /\ match[m] \in Match
           /\ match[m].teams[0] \cap match[m].teams[1] = {}
           /\ MembersOf(m) \subseteq Players /\ match[m].resvs \subseteq Resvs
  <1>1. RunningIn(books, m) /\ Roster(books, m) = MembersOf(m) /\ match[m] \in Match
    BY BooksFacts
  <1>2. /\ GameAgrees(books, m) /\ match[m].teams[0] \cap match[m].teams[1] = {}
    BY <1>1, BooksFacts DEF Settled
  <1>3. match \in [Matches -> Match]
    BY BooksFacts DEF Book
  <1>4. MembersOf(m) \subseteq Players /\ match[m].resvs \subseteq Resvs
    BY <1>1 DEF Match, MembersOf
  <1> QED
    BY <1>1, <1>2, <1>3, <1>4

LEMMA SwitchTeamStep ==
    ASSUME Inv, NEW u \in Players, NEW m \in Matches, NEW t \in {0, 1}, SwitchTeam(u, m, t)
    PROVE  Inv'
  <1> DEFINE us == Side(u)
             d == [books EXCEPT !.match[m].teams = Seated(m, t, us)]
             c == PointTo(d, us, m)
             rs == match[m].resvs
             row == Reseated(m, t, us, rs)
  <1>1. /\ Running(m) /\ u \in MembersOf(m)
        /\ Become(c) /\ UNCHANGED <<usable, lease>>
    BY DEF SwitchTeam, Handled, Joinable, Running
  <1>2. PICK x \in resv : x.id = holds[u] /\ x.members = us
    BY DEF SwitchTeam
  <1> HIDE DEF us
  <1>3. /\ GameAgrees(books, m) /\ RunningIn(books, m) /\ Roster(books, m) = MembersOf(m)
        /\ match \in [Matches -> Match] /\ match[m] \in Match
        /\ match[m].teams[0] \cap match[m].teams[1] = {}
        /\ MembersOf(m) \subseteq Players /\ rs \subseteq Resvs
    BY <1>1, GameFacts
  <1>4. us \subseteq MembersOf(m)
    <2>1. holds[u] \in match[m].resvs
      BY <1>1, <1>3, BooksFacts DEF GameAgrees
    <2>2. PICK y \in resv : y.id = holds[u] /\ y.members \subseteq MembersOf(m)
      BY <1>3, <2>1, BooksFacts DEF GameAgrees
    <2> QED
      BY <1>2, <2>2, BooksFacts DEF Settled, RowsAgree
  <1>5. /\ row \in Match /\ row.stage = match[m].stage /\ row.resvs = rs
        /\ row.teams[0] \cup row.teams[1] = MembersOf(m)
        /\ row.teams[0] \cap row.teams[1] = {}
    <2>1. us \subseteq Players
      BY <1>3, <1>4
    <2> HIDE DEF rs
    <2>2. Reseats(Reseated(m, t, us, rs), m, us, rs)
      BY <1>3, <2>1, ReseatedIs
    <2> QED
      BY <1>4, <2>2 DEF Reseats
  <1>6. Seating(books, row)
    BY <1>1, <1>3, <1>5, BooksFacts DEF Seating, GameAgrees, Running
  <1>7. Replaced(books, c, m, row)
    <2>1. [match EXCEPT ![m].teams = Seated(m, t, us)] = [match EXCEPT ![m] = row]
      BY <1>3 DEF Match, Reseated
    <2>2. [match EXCEPT ![m] = row] \in [Matches -> Match]
      BY <1>3, <1>5
    <2> HIDE DEF row
    <2> DEFINE g == [match EXCEPT ![m] = row]
               f == [v \in Players |-> IF v \in us THEN m ELSE matchOf[v]]
    <2>3. d = [books EXCEPT !.match = g]
      BY <2>1, BooksFacts DEF Book
    <2>4. f \in [Players -> Matches \cup {None}]
      BY BooksFacts, RowFacts
    <2>5. c = [d EXCEPT !.matchOf = f]
      BY <2>3, BooksFacts DEF PointTo, Book
    <2>6. \A v \in Players : f[v] = IF v \in MembersOf(m) THEN m ELSE matchOf[v]
      BY <1>3, <1>4, BooksFacts DEF GameAgrees
    <2> HIDE DEF g, f, d, c
    <2>7. /\ c \in Book /\ c.resv = resv /\ c.holds = holds /\ c.queue = queue
          /\ c.match = g /\ c.matchOf = f
      BY <2>2, <2>3, <2>4, <2>5, BooksFacts DEF Book, g
    <2> QED
      BY <1>5, <2>6, <2>7, BooksFacts DEF Replaced, g
  <1> HIDE DEF c, row
  <1>8. row.resvs = books.match[m].resvs \cup {}
    BY <1>5, BooksFacts
  <1>9. \A w \in row.teams[0] \cup row.teams[1] : lease[w] = None \/ w \in Roster(books, m)
    BY <1>3, <1>5
  <1>10. PICK b : b = books
    OBVIOUS
  <1>11. BookInv(c) /\ LeasesAgree(c, lease)
    <2>1. /\ Settled(b, {}) /\ RunningIn(b, m) /\ Seating(b, row)
          /\ row.resvs = b.match[m].resvs \cup {} /\ Replaced(b, c, m, row)
      BY <1>3, <1>6, <1>7, <1>8, <1>10, BooksFacts
    <2>2. /\ BookInv(c)
          /\ \A leases : /\ LeasesAgree(b, leases)
                         /\ \A w \in row.teams[0] \cup row.teams[1] :
                               leases[w] = None \/ w \in Roster(b, m)
                         => LeasesAgree(c, leases)
      BY <2>1, ReplaceKeeps
    <2>3. LeasesAgree(b, lease)
      BY <1>10, BooksFacts
    <2> QED
      BY <1>9, <1>10, <2>2, <2>3
  <1> QED
    BY <1>1, <1>11, Becoming DEF Good

LEMMA BeginMatchStep ==
    ASSUME Inv, NEW u \in Players, NEW m \in Matches, BeginMatch(u, m)
    PROVE  Inv'
  <1> DEFINE c == [books EXCEPT !.match[m].stage = "live"]
             row == [match[m] EXCEPT !.stage = "live"]
  <1>1. /\ Running(m) /\ Become(Answered(c, u)) /\ UNCHANGED <<usable, lease>>
    BY DEF BeginMatch, Handled, Running
  <1>2. /\ GameAgrees(books, m) /\ RunningIn(books, m) /\ Roster(books, m) = MembersOf(m)
        /\ match \in [Matches -> Match] /\ match[m] \in Match
        /\ match[m].teams[0] \cap match[m].teams[1] = {}
    BY <1>1, GameFacts
  <1>3. /\ row \in Match /\ row.stage = "live" /\ row.resvs = match[m].resvs
        /\ row.teams = match[m].teams
    BY <1>2 DEF Match
  <1>4. row.teams[0] \cup row.teams[1] = MembersOf(m)
    BY <1>3 DEF MembersOf
  <1>5. Seating(books, row)
    BY <1>2, <1>3, <1>4, BooksFacts DEF Seating, GameAgrees
  <1>6. Replaced(books, c, m, row)
    <2>1. [match EXCEPT ![m].stage = "live"] = [match EXCEPT ![m] = row]
      BY <1>2
    <2>2. [match EXCEPT ![m] = row] \in [Matches -> Match]
      BY <1>2, <1>3
    <2> HIDE DEF row
    <2> DEFINE g == [match EXCEPT ![m] = row]
    <2>3. c = [books EXCEPT !.match = g]
      BY <2>1, BooksFacts DEF Book
    <2>4. \A v \in Players : matchOf[v] = IF v \in MembersOf(m) THEN m ELSE matchOf[v]
      BY <1>2, BooksFacts DEF GameAgrees
    <2> HIDE DEF g, c
    <2>5. /\ c \in Book /\ c.resv = resv /\ c.holds = holds /\ c.queue = queue
          /\ c.match = g /\ c.matchOf = matchOf
      BY <2>2, <2>3, BooksFacts DEF Book, g
    <2> QED
      BY <1>4, <2>4, <2>5, BooksFacts DEF Replaced, g
  <1> HIDE DEF c, row
  <1>7. PICK b : b = books
    OBVIOUS
  <1>8. Good(c)
    <2>1. /\ Settled(b, {}) /\ RunningIn(b, m) /\ Seating(b, row)
          /\ row.resvs = b.match[m].resvs \cup {} /\ Replaced(b, c, m, row)
      BY <1>2, <1>3, <1>5, <1>6, <1>7, BooksFacts
    <2>2. /\ BookInv(c)
          /\ \A leases : /\ LeasesAgree(b, leases)
                         /\ \A w \in row.teams[0] \cup row.teams[1] :
                               leases[w] = None \/ w \in Roster(b, m)
                         => LeasesAgree(c, leases)
      BY <2>1, ReplaceKeeps
    <2>3. LeasesAgree(b, lease) /\ \A w \in row.teams[0] \cup row.teams[1] : w \in Roster(b, m)
      BY <1>2, <1>4, <1>7, BooksFacts
    <2> QED
      BY <2>2, <2>3 DEF Good
  <1>9. Good(Answered(c, u))
    BY <1>8, GoodAnswered
  <1> QED
    BY <1>1, <1>9, Becoming

LEMMA LeaveMatchStep ==
    ASSUME Inv, NEW u \in Players, NEW m \in Matches, LeaveMatch(u, m)
    PROVE  Inv'
  <1>1. /\ Running(m) /\ Become(Answered(Finish(books, m), u)) /\ UNCHANGED <<usable, lease>>
    BY DEF LeaveMatch, Handled
  <1>2. Good(Finish(books, m))
    BY <1>1, GoodFinish, BooksFacts DEF Inv
  <1>3. Good(Answered(Finish(books, m), u))
    BY <1>2, GoodAnswered
  <1> QED
    BY <1>1, <1>3, Becoming

LEMMA LeaveResultsStep ==
    ASSUME Orderly, Inv, NEW u \in Players, NEW m \in Matches, LeaveResults(u, m)
    PROVE  Inv'
  <1>1. /\ match[m].stage = "final" /\ matchOf[u] = m
        /\ Become(Answered(PointTo(books, {u}, None), u)) /\ UNCHANGED <<usable, lease>>
    BY DEF LeaveResults, Handled, Orderly
  <1>2. PICK b : b = books
    OBVIOUS
  <1>3. \A n \in Matches : RunningIn(b, n) => b.matchOf[u] # n
    BY <1>1, <1>2, BooksFacts DEF RunningIn
  <1>4. /\ BookInv(PointTo(b, {u}, None))
        /\ \A leases : LeasesAgree(b, leases) => LeasesAgree(PointTo(b, {u}, None), leases)
    BY <1>2, <1>3, PointerKeeps DEF Inv, Good
  <1>5. Good(PointTo(b, {u}, None))
    BY <1>2, <1>4, BooksFacts DEF Good
  <1>6. Good(Answered(PointTo(b, {u}, None), u))
    BY <1>5, GoodAnswered
  <1> QED
    BY <1>1, <1>2, <1>6, Becoming

LEMMA ClaimRoomStep ==
    ASSUME Orderly, Inv, NEW u \in Players, NEW room \in Rooms \cup Matches, ClaimRoom(u, room)
    PROVE  Inv'
  <1> DEFINE m == matchOf[u]
             b == Departed(u, room)
  <1>1. /\ {e \in queue : e.resv = holds[u]} = {}
        /\ lease' = [lease EXCEPT ![u] = room] /\ Become(b) /\ usable' = usable
    BY DEF ClaimRoom, Orderly
  <1>2. ASSUME holds[u] # None
        PROVE  m \in Matches /\ Running(m) /\ u \in MembersOf(m)
    <2>1. \/ \E e \in queue : e.resv = holds[u]
          \/ \E n \in Matches : RunningIn(books, n) /\ u \in Roster(books, n) /\ matchOf[u] = n
      BY <1>2, BooksFacts, Occupation DEF Inv, Good
    <2> QED
      BY <1>1, <2>1, BooksFacts
  <1>3. /\ Good(b)
        /\ b.holds[u] # None => b.matchOf[u] = room /\ room \in Matches /\ RunningIn(b, room)
    <2>1. CASE holds[u] = None
      <3>1. b = books
        BY <2>1 DEF Departed
      <3> QED
        BY <2>1, <3>1, BooksFacts DEF Inv
    <2>2. CASE holds[u] # None /\ room # m
      <3>1. m # None /\ match[m].stage # "final"
        BY <1>2, <2>2, NoneIsNothing DEF Running
      <3>2. b = Finish(books, m)
        BY <2>2, <3>1 DEF Departed
      <3> QED
        BY <1>2, <2>2, <3>2, GoodFinish, BooksFacts DEF Inv
    <2>3. CASE holds[u] # None /\ room = m
      <3>1. m # None /\ match[m].stage # "final"
        BY <1>2, <2>3, NoneIsNothing DEF Running
      <3>2. b = books
        BY <2>3, <3>1 DEF Departed
      <3> QED
        BY <1>2, <2>3, <3>2, BooksFacts DEF Inv
    <2> QED
      BY <2>1, <2>2, <2>3
  <1> HIDE DEF b
  <1>4. b \in Book
    BY <1>3 DEF Good, BookInv, Settled
  <1>5. lease' \in LeaseType /\ \A v \in Players : lease'[v] = IF v = u THEN room ELSE lease[v]
    BY <1>1 DEF Inv, LeaseType
  <1>6. PICK c : c = b
    OBVIOUS
  <1>7. books' = c
    BY <1>1, <1>4, <1>6 DEF Become, books, Book
  <1>8. LeasesAgree(c, lease')
    BY <1>3, <1>5, <1>6 DEF Good, LeasesAgree
  <1>9. BookInv(c)
    BY <1>3, <1>6 DEF Good
  <1>10. BookInv(books') /\ LeasesAgree(books', lease')
    BY <1>7, <1>8, <1>9
  <1> QED
    BY <1>1, <1>5, <1>10 DEF Inv, Good

LEMMA SearchGrowsStaleStep ==
    ASSUME Inv, NEW e \in queue, SearchGrowsStale(e)
    PROVE  Inv'
  <1>1. PICK b : b = books
    OBVIOUS
  <1> DEFINE late == [e EXCEPT !.late = TRUE]
             c == [b EXCEPT !.queue = (@ \ {e}) \cup {late}]
  <1>2. e \in b.queue /\ BookInv(b) /\ LeasesAgree(b, lease) /\ b \in Book
    BY <1>1, BooksFacts DEF Inv, Good
  <1>3. BookInv(c) /\ \A leases : LeasesAgree(b, leases) => LeasesAgree(c, leases)
    BY <1>2, LateKeeps
  <1>4. Become(c)
    BY <1>1, <1>2, BooksFacts DEF SearchGrowsStale, Become, Book
  <1> HIDE DEF c
  <1> QED
    BY <1>2, <1>3, <1>4, Becoming DEF SearchGrowsStale, Good

(***************************************************************************)
(* The specification.                                                      *)
(***************************************************************************)
LEMMA InvInit == Init => Inv
  <1> SUFFICES ASSUME Init
               PROVE  Inv
    OBVIOUS
  <1>1. NoMatch \in Match /\ NoMatch.stage = "none" /\ NoMatch.teams[0] = {}
    <2>1. [t \in {0, 1} |-> {}] \in [{0, 1} -> SUBSET Players]
      OBVIOUS
    <2> QED
      BY <2>1 DEF NoMatch, Match
  <1>2. \A m \in Matches : match[m] = NoMatch
    BY DEF Init
  <1>3. match \in [Matches -> Match]
    BY <1>1 DEF Init
  <1>4. books \in Book
    BY <1>3 DEF Init, books, Book
  <1>5. /\ books.resv = {} /\ books.queue = {} /\ books.match = match
        /\ \A u \in Players : books.holds[u] = None
    BY DEF Init, books
  <1>6. \A m \in Matches : ~RunningIn(books, m) /\ books.match[m].teams[0] = {}
    BY <1>1, <1>2, <1>5 DEF RunningIn
  <1>7. RowsAgree(books) /\ SearchesAgree(books) /\ RowsOwned(books, {})
    <2>1. RowsAgree(books)
      BY <1>5 DEF RowsAgree
    <2>2. SearchesAgree(books)
      BY <1>5 DEF SearchesAgree
    <2>3. RowsOwned(books, {})
      BY <1>5 DEF RowsOwned
    <2> QED
      BY <2>1, <2>2, <2>3
  <1>8. BookInv(books)
    BY <1>4, <1>6, <1>7 DEF BookInv, Settled
  <1>9. LeasesAgree(books, lease) /\ lease \in LeaseType /\ usable \subseteq Players
    BY <1>5 DEF Init, LeasesAgree, LeaseType
  <1> QED
    BY <1>8, <1>9 DEF Inv, Good

LEMMA InvStep ==
    ASSUME Orderly, Inv, [Next]_vars
    PROVE  Inv'
  <1>1. ASSUME NEW u \in Players, PartyActs(u)
        PROVE  Inv'
    <2>1. UNCHANGED <<usable, bookVars, lease>>
      BY <1>1 DEF PartyActs, PartyLeave, PartyCreate, PartyAccept
    <2> QED
      BY <2>1, NothingBooked DEF Inv
  <1>2. ASSUME NEW u \in Players, QueueActs(u)
        PROVE  Inv'
    BY <1>2, PollStep, LeaveQueueStep, JoinQueueStep DEF QueueActs
  <1>3. ASSUME NEW u \in Players, CustomActs(u)
        PROVE  Inv'
    BY <1>3, CreateCustomStep, SwitchTeamStep, JoinCustomStep, AcceptDuelStep DEF CustomActs
  <1>4. ASSUME NEW u \in Players, MatchActs(u)
        PROVE  Inv'
    BY <1>4, BeginMatchStep, LeaveMatchStep, LeaveResultsStep DEF MatchActs
  <1>5. ASSUME NEW u \in Players, lease' = [lease EXCEPT ![u] = None],
               UNCHANGED <<usable, bookVars>>
        PROVE  Inv'
    <2>1. lease' \in LeaseType /\ \A v \in Players : lease'[v] \in {lease[v], None}
      BY <1>5 DEF Inv, LeaseType
    <2> QED
      BY <1>5, <2>1, NothingBooked
  <1>6. ASSUME NEW u \in Players, RoomActs(u)
        PROVE  Inv'
    <2>1. CASE ReleaseRoom(u)
      BY <1>5, <2>1 DEF ReleaseRoom
    <2> QED
      BY <1>6, <2>1, ClaimRoomStep DEF RoomActs
  <1>7. ASSUME Tick
        PROVE  Inv'
    <2>1. PICK b \in MatchQueues(books) : Become(b)
      BY <1>7 DEF Tick
    <2>2. Good(b)
      BY <2>1, GoodMatchQueues, BooksFacts DEF Inv
    <2> QED
      BY <1>7, <2>1, <2>2, Becoming DEF Tick
  <1>8. ASSUME NEW m \in Matches, TickEndsMatch(m)
        PROVE  Inv'
    <2>1. Good(Finish(books, m))
      BY <1>8, GoodFinish, BooksFacts DEF Inv, TickEndsMatch
    <2> QED
      BY <1>8, <2>1, Becoming DEF TickEndsMatch
  <1>9. ASSUME Time
        PROVE  Inv'
    <2>1. ASSUME NEW u \in Players, GameCloses(u)
          PROVE  Inv'
      BY <2>1, NothingBooked DEF GameCloses, Inv
    <2>2. ASSUME NEW u \in Players, LeaseExpires(u)
          PROVE  Inv'
      BY <1>5, <2>2 DEF LeaseExpires
    <2>3. ASSUME NEW e \in queue, SearchGrowsStale(e)
          PROVE  Inv'
      BY <2>3, SearchGrowsStaleStep
    <2>4. ASSUME NEW u \in Restrictable, GetsRestricted(u)
          PROVE  Inv'
      BY <2>4, NothingBooked DEF GetsRestricted, Inv
    <2> QED
      BY <1>9, <2>1, <2>2, <2>3, <2>4 DEF Time
  <1>10. CASE UNCHANGED vars
    BY <1>10, NothingBooked DEF vars, Inv
  <1> QED
    BY <1>1, <1>2, <1>3, <1>4, <1>6, <1>7, <1>8, <1>9, <1>10 DEF Next

LEMMA AlwaysInv ==
    ASSUME Orderly
    PROVE  Spec => []Inv
  <1>1. Init => Inv
    BY InvInit
  <1>2. Inv /\ [Next]_vars => Inv'
    BY InvStep
  <1> QED
    BY <1>1, <1>2, PTL DEF Spec

LEMMA AtMostOne ==
    ASSUME NEW A, NEW x, A \subseteq {x}
    PROVE  Cardinality(A) \in {0, 1} /\ (x \in A => Cardinality(A) = 1)
  <1>1. A = {} \/ A = {x}
    OBVIOUS
  <1> QED
    BY <1>1, FS_EmptySet, FS_Singleton

\* Every reservation is held by its members and by nobody else, and belongs to
\* exactly one search or running match: nobody stays locked out of everything by
\* a reservation that nothing will ever release (reserve_members,
\* release_reservation), however many players search, play, leave and time out.
THEOREM ReservationsAlwaysOwned ==
    ASSUME Orderly
    PROVE  Spec => []ReservationsAreOwned
  <1>1. ASSUME Inv
        PROVE  ReservationsAreOwned
    <2>1. RowsAgree(books) /\ SearchesAgree(books) /\ RowsOwned(books, {})
      BY <1>1, BooksFacts DEF Settled
    <2>2. ASSUME NEW x \in resv
          PROVE  Cardinality(Searches(x.id)) + Cardinality(Games(x.id)) = 1
      <3>1. CASE \E e \in queue : e.resv = x.id
        <4>1. PICK e \in queue : e.resv = x.id
          BY <3>1
        <4>2. Searches(x.id) \subseteq {e} /\ e \in Searches(x.id)
          BY <1>1, <2>1, <4>1, BooksFacts DEF Searches, SearchesAgree
        <4>3. Games(x.id) = {}
          BY <1>1, <4>1, BooksFacts DEF Games, Settled, GameAgrees
        <4> QED
          BY <4>2, <4>3, AtMostOne, FS_EmptySet
      <3>2. CASE \E m \in Matches : Running(m) /\ x.id \in match[m].resvs
        <4>1. PICK m \in Matches : Running(m) /\ x.id \in match[m].resvs
          BY <3>2
        <4>2. GameAgrees(books, m)
          BY <1>1, <4>1, GameFacts
        <4>3. Games(x.id) \subseteq {m} /\ m \in Games(x.id)
          BY <1>1, <4>1, <4>2, BooksFacts DEF Games, GameAgrees
        <4>4. Searches(x.id) = {}
          BY <1>1, <4>1, <4>2, BooksFacts DEF Searches, GameAgrees
        <4> QED
          BY <4>3, <4>4, AtMostOne, FS_EmptySet
      <3> QED
        BY <1>1, <2>1, <3>1, <3>2, BooksFacts DEF RowsOwned
    <2>3. ASSUME NEW u \in Players, NEW r \in Resvs
          PROVE  holds[u] = r <=> \E row \in resv : row.id = r /\ u \in row.members
      BY <1>1, <2>1, BooksFacts, NoneIsNothing DEF RowsAgree
    <2> QED
      BY <2>2, <2>3 DEF ReservationsAreOwned
  <1> QED
    BY <1>1, AlwaysInv, PTL

\* Nobody is in two searches, in two running matches, in a search and a match, or
\* on both sides of one match, and whoever plays does so under a reservation of
\* that match (match_queues, join_custom, accept_duel, finish_match).
THEOREM OneThingAtATimeAlways ==
    ASSUME Orderly
    PROVE  Spec => []OneThingAtATime
  <1>1. ASSUME Inv
        PROVE  OneThingAtATime
    <2>1. RowsAgree(books) /\ SearchesAgree(books)
      BY <1>1, BooksFacts DEF Settled
    <2>2. \A m \in Matches : Running(m) =>
              \A u \in MembersOf(m) : holds[u] \in match[m].resvs /\ matchOf[u] = m
      BY <1>1, GameFacts, BooksFacts DEF GameAgrees
    <2>3. \A m \in Matches : match[m].teams[0] \cap match[m].teams[1] = {}
      BY <1>1, BooksFacts DEF Settled
    <2>4. ASSUME NEW u \in Players
          PROVE  Cardinality(PlayingIn(u)) + Cardinality({e \in queue : u \in e.members}) <= 1
      <3> DEFINE S == {e \in queue : u \in e.members}
      <3>1. PlayingIn(u) \subseteq {matchOf[u]}
        BY <2>2 DEF PlayingIn
      <3>2. ASSUME NEW e \in S
            PROVE  S \subseteq {e} /\ PlayingIn(u) = {}
        <4>1. \A f \in S : holds[u] = f.resv /\ matchOf[u] = None
          BY <1>1, <2>1, BooksFacts DEF RowsAgree, SearchesAgree
        <4>2. S \subseteq {e}
          BY <1>1, <2>1, <4>1, BooksFacts DEF SearchesAgree
        <4>3. matchOf[u] \notin Matches
          BY <4>1, NoneIsNothing
        <4> QED
          BY <3>1, <4>2, <4>3 DEF PlayingIn
      <3>3. CASE S = {}
        <4>1. Cardinality(PlayingIn(u)) \in {0, 1}
          BY <3>1, AtMostOne
        <4>2. Cardinality(S) = 0
          BY <3>3, FS_EmptySet
        <4> QED
          BY <4>1, <4>2
      <3>4. CASE S # {}
        <4>1. PICK e \in S : TRUE
          BY <3>4
        <4>2. Cardinality(S) \in {0, 1} /\ Cardinality(PlayingIn(u)) = 0
          BY <3>2, AtMostOne, FS_EmptySet
        <4> QED
          BY <4>2
      <3> QED
        BY <3>3, <3>4
    <2> QED
      BY <2>2, <2>3, <2>4 DEF OneThingAtATime
  <1> QED
    BY <1>1, AlwaysInv, PTL

\* Who has the lease of a native room is reserved at most for the running match
\* of that very room (claim_native_room, reserve_members).
THEOREM LeasesAlwaysExcludeReservations ==
    ASSUME Orderly
    PROVE  Spec => []LeasesExcludeReservations
  <1>1. ASSUME Inv
        PROVE  LeasesExcludeReservations
    BY <1>1, BooksFacts DEF LeasesExcludeReservations, LeasesAgree
  <1> QED
    BY <1>1, AlwaysInv, PTL

\* The pointer of everyone who plays leads to the match: no client loses the match
\* its player is reserved for (create_match, join_custom, leave_match).
THEOREM PlayersAlwaysFindTheirMatch ==
    ASSUME Orderly
    PROVE  Spec => []PlayersFindTheirMatch
  <1>1. ASSUME Inv
        PROVE  PlayersFindTheirMatch
    BY <1>1, GameFacts, BooksFacts DEF PlayersFindTheirMatch, GameAgrees
  <1> QED
    BY <1>1, AlwaysInv, PTL

=============================================================================
