------------------------- MODULE SomsaiParty_proofs -------------------------
(***************************************************************************)
(* Proofs about the parties of SomsaiLobby, for any set of players: they   *)
(* agree with the players' pointers, stay together while a member searches *)
(* or plays, and are never divided between two teams.                      *)
(***************************************************************************)
EXTENDS SomsaiLobby_proofs, FiniteSums, SequenceTheorems

(***************************************************************************)
(* Parties of at most two.                                                 *)
(***************************************************************************)
PartyRow == [members : Seq(Players), captain : Players \cup {Nobody}]

\* A party of two members at most, who differ, one of whom is the captain.
Sound(q) ==
    /\ q \in PartyRow /\ Len(q.members) <= 2
    /\ Len(q.members) = 2 => q.members[1] # q.members[2]
    /\ q.members # <<>> => q.captain \in ToSet(q.members)

LEMMA NobodyInNone == ToSet(<<>>) = {}
  BY DEF ToSet

LEMMA OneInParty ==
    ASSUME NEW a
    PROVE  ToSet(<<a>>) = {a}
  BY DEF ToSet

LEMMA TwoInParty ==
    ASSUME NEW a, NEW b
    PROVE  ToSet(<<a, b>>) = {a, b}
  <1>1. \A i : i \in DOMAIN <<a, b>> <=> i = 1 \/ i = 2
    OBVIOUS
  <1>2. <<a, b>>[1] = a /\ <<a, b>>[2] = b
    OBVIOUS
  <1> QED
    BY <1>1, <1>2 DEF ToSet

\* Sequences of two members.
LEMMA PairEqual ==
    ASSUME NEW S, NEW s \in Seq(S), NEW t \in Seq(S), Len(s) = 2, Len(t) = 2,
           s[1] = t[1], s[2] = t[2]
    PROVE  s = t
  <1>1. \A i \in 1 .. 2 : i = 1 \/ i = 2
    OBVIOUS
  <1>2. \A i \in 1 .. Len(s) : s[i] = t[i]
    BY <1>1
  <1> QED
    BY <1>2, SeqEqual

LEMMA PairMade ==
    ASSUME NEW S, NEW a \in S, NEW b \in S
    PROVE  <<a>> \o <<b>> = <<a, b>> /\ Append(<<a>>, b) = <<a, b>>
  <1>1. PICK s, t, p : s = <<a>> \o <<b>> /\ t = Append(<<a>>, b) /\ p = <<a, b>>
    OBVIOUS
  <1>2. /\ <<a>> \in Seq(S) /\ <<b>> \in Seq(S) /\ <<a, b>> \in Seq(S)
        /\ Len(<<a>>) = 1 /\ Len(<<b>>) = 1 /\ Len(<<a, b>>) = 2
        /\ <<a, b>>[1] = a /\ <<a, b>>[2] = b
    OBVIOUS
  <1>3. /\ <<a>> \o <<b>> \in Seq(S) /\ Len(<<a>> \o <<b>>) = 2
        /\ (<<a>> \o <<b>>)[1] = a /\ (<<a>> \o <<b>>)[2] = b
    BY <1>2
  <1>4. /\ Append(<<a>>, b) \in Seq(S) /\ Len(Append(<<a>>, b)) = 2
        /\ Append(<<a>>, b)[1] = a /\ Append(<<a>>, b)[2] = b
    BY <1>2
  <1>5. s \in Seq(S) /\ p \in Seq(S) /\ Len(s) = 2 /\ Len(p) = 2 /\ s[1] = p[1] /\ s[2] = p[2]
    BY <1>1, <1>2, <1>3
  <1>6. t \in Seq(S) /\ Len(t) = 2 /\ t[1] = p[1] /\ t[2] = p[2]
    BY <1>1, <1>2, <1>4
  <1>7. s = p /\ t = p
    BY <1>5, <1>6, PairEqual
  <1> QED
    BY <1>1, <1>7

\* The members of a party, one by one.
LEMMA PartyCases ==
    ASSUME NEW q, Sound(q)
    PROVE  \/ q.members = <<>>
           \/ \E a \in Players : q.members = <<a>> /\ q.captain = a
           \/ \E a, b \in Players : /\ a # b /\ q.members = <<a, b>>
                                    /\ q.captain \in {a, b}
  <1>1. q.members \in Seq(Players) /\ Len(q.members) \in {0, 1, 2}
    <2>1. q.members \in Seq(Players) /\ Len(q.members) <= 2
      BY DEF Sound, PartyRow
    <2>2. Len(q.members) \in Nat
      BY <2>1
    <2>3. \A n \in Nat : n <= 2 => n \in {0, 1, 2}
      OBVIOUS
    <2> QED
      BY <2>1, <2>2, <2>3
  <1>2. CASE Len(q.members) = 0
    BY <1>1, <1>2
  <1>3. CASE Len(q.members) = 1
    <2>1. PICK a \in Players : q.members = <<a>>
      <3>1. q.members[1] \in Players /\ q.members = <<q.members[1]>>
        BY <1>1, <1>3
      <3> QED
        BY <3>1
    <2>2. q.captain \in ToSet(q.members)
      BY <1>3, <2>1 DEF Sound
    <2> QED
      BY <2>1, <2>2, OneInParty
  <1>4. CASE Len(q.members) = 2
    <2>1. PICK a, b \in Players : q.members = <<a, b>> /\ a # b
      <3>1. /\ q.members[1] \in Players /\ q.members[2] \in Players
            /\ q.members = <<q.members[1], q.members[2]>>
        BY <1>1, <1>4
      <3> QED
        BY <1>4, <3>1 DEF Sound
    <2>2. q.captain \in ToSet(q.members)
      BY <1>4, <2>1 DEF Sound
    <2> QED
      BY <2>1, <2>2, TwoInParty
  <1> QED
    BY <1>1, <1>2, <1>3, <1>4

\* Such parties, in turn.
LEMMA SoundNone ==
    ASSUME NEW c \in Players \cup {Nobody}
    PROVE  Sound([members |-> <<>>, captain |-> c])
  BY DEF Sound, PartyRow

LEMMA SoundOne ==
    ASSUME NEW a \in Players
    PROVE  Sound([members |-> <<a>>, captain |-> a])
  <1>1. [members |-> <<a>>, captain |-> a] \in PartyRow /\ Len(<<a>>) = 1 /\ a \in ToSet(<<a>>)
    BY OneInParty DEF PartyRow
  <1> QED
    BY <1>1 DEF Sound

LEMMA SoundTwo ==
    ASSUME NEW a \in Players, NEW b \in Players, a # b, NEW c, c = a \/ c = b
    PROVE  Sound([members |-> <<a, b>>, captain |-> c])
  <1>1. /\ [members |-> <<a, b>>, captain |-> c] \in PartyRow /\ Len(<<a, b>>) = 2
        /\ c \in ToSet(<<a, b>>) /\ <<a, b>>[1] = a /\ <<a, b>>[2] = b
    BY TwoInParty DEF PartyRow
  <1> QED
    BY <1>1 DEF Sound

\* Members who leave take the captaincy with them.
LEMMA SoundTrimmed ==
    ASSUME NEW q, Sound(q), NEW stays
    PROVE  /\ Sound(Trimmed(q, stays))
           /\ ToSet(Trimmed(q, stays).members) = ToSet(q.members) \cap stays
  <1> DEFINE Staying(i) == IF i \in DOMAIN q.members /\ q.members[i] \in stays
                           THEN <<q.members[i]>> ELSE <<>>
             left == Staying(1) \o Staying(2)
             c == IF left = <<>> THEN Nobody
                  ELSE IF q.captain \in stays THEN q.captain ELSE Head(left)
  <1>1. Trimmed(q, stays) = [members |-> left, captain |-> c]
    BY DEF Trimmed
  <1>2. CASE q.members = <<>>
    <2>1. left = <<>> /\ c = Nobody
      BY <1>2
    <2> QED
      BY <1>1, <1>2, <2>1, SoundNone, NobodyInNone
  <1>3. ASSUME NEW a \in Players, q.members = <<a>>, q.captain = a
        PROVE  Sound(Trimmed(q, stays)) /\ ToSet(left) = ToSet(q.members) \cap stays
    <2>1. DOMAIN q.members = {1} /\ q.members[1] = a
      BY <1>3
    <2>2. CASE a \in stays
      <3>1. left = <<a>> /\ c = a
        BY <1>3, <2>1, <2>2
      <3> QED
        BY <1>1, <1>3, <2>2, <3>1, SoundOne, OneInParty
    <2>3. CASE a \notin stays
      <3>1. left = <<>> /\ c = Nobody
        BY <1>3, <2>1, <2>3
      <3> QED
        BY <1>1, <1>3, <2>3, <3>1, SoundNone, NobodyInNone, OneInParty
    <2> QED
      BY <2>2, <2>3
  <1>4. ASSUME NEW a \in Players, NEW b \in Players, a # b, q.members = <<a, b>>,
               q.captain \in {a, b}
        PROVE  Sound(Trimmed(q, stays)) /\ ToSet(left) = ToSet(q.members) \cap stays
    <2>1. DOMAIN q.members = {1, 2} /\ q.members[1] = a /\ q.members[2] = b
      <3>1. DOMAIN <<a, b>> = {1, 2}
        OBVIOUS
      <3> QED
        BY <1>4, <3>1
    <2>2. ToSet(q.members) = {a, b}
      BY <1>4, TwoInParty
    <2>3. CASE a \in stays /\ b \in stays
      <3>1. left = <<a, b>> /\ c = q.captain
        <4>1. left = <<a>> \o <<b>>
          BY <2>1, <2>3
        <4>2. left = <<a, b>>
          BY <4>1, PairMade
        <4> HIDE DEF left
        <4> QED
          BY <1>4, <2>3, <4>2
      <3>2. Sound(Trimmed(q, stays))
        <4>1. PICK k : k = q.captain
          OBVIOUS
        <4>2. Sound([members |-> <<a, b>>, captain |-> k])
          BY <1>4, <4>1, SoundTwo
        <4> QED
          BY <1>1, <3>1, <4>1, <4>2
      <3>3. ToSet(left) = {a, b}
        BY <3>1, TwoInParty
      <3> QED
        BY <2>2, <2>3, <3>2, <3>3
    <2>4. CASE a \in stays /\ b \notin stays
      <3>1. left = <<a>> /\ c = a
        BY <1>4, <2>1, <2>4
      <3>2. Sound(Trimmed(q, stays))
        BY <1>1, <3>1, SoundOne
      <3>3. ToSet(left) = {a}
        BY <3>1, OneInParty
      <3> QED
        BY <2>2, <2>4, <3>2, <3>3
    <2>5. CASE a \notin stays /\ b \in stays
      <3>1. left = <<b>> /\ c = b
        BY <1>4, <2>1, <2>5
      <3>2. Sound(Trimmed(q, stays))
        BY <1>1, <3>1, SoundOne
      <3>3. ToSet(left) = {b}
        BY <3>1, OneInParty
      <3> QED
        BY <2>2, <2>5, <3>2, <3>3
    <2>6. CASE a \notin stays /\ b \notin stays
      <3>1. left = <<>> /\ c = Nobody
        BY <1>4, <2>1, <2>6
      <3> QED
        BY <1>1, <2>2, <2>6, <3>1, SoundNone, NobodyInNone
    <2> QED
      BY <2>3, <2>4, <2>5, <2>6
  <1>5. Trimmed(q, stays).members = left
    BY <1>1
  <1> HIDE DEF left
  <1> QED
    BY <1>2, <1>3, <1>4, <1>5, PartyCases

\* A party of one that a second player joins.
LEMMA SoundAppend ==
    ASSUME NEW q, Sound(q), Len(q.members) = 1, NEW u \in Players, u \notin ToSet(q.members)
    PROVE  /\ Sound([q EXCEPT !.members = Append(@, u)])
           /\ ToSet(Append(q.members, u)) = ToSet(q.members) \cup {u}
  <1>1. PICK a \in Players : q.members = <<a>> /\ q.captain = a
    BY PartyCases
  <1>2. Append(q.members, u) = <<a, u>>
    BY <1>1, PairMade
  <1>3. ToSet(q.members) = {a} /\ a # u
    BY <1>1, OneInParty
  <1>4. [q EXCEPT !.members = Append(@, u)] = [members |-> <<a, u>>, captain |-> a]
    BY <1>1, <1>2 DEF Sound, PartyRow
  <1>5. Sound([members |-> <<a, u>>, captain |-> a])
    BY <1>3, SoundTwo
  <1>6. ToSet(Append(q.members, u)) = {a, u}
    BY <1>2, TwoInParty
  <1>7. {a, u} = ToSet(q.members) \cup {u}
    BY <1>3
  <1> QED
    BY <1>4, <1>5, <1>6, <1>7

(***************************************************************************)
(* Parties and the players' pointers to them.                              *)
(***************************************************************************)
Crew(pt, p) == ToSet(pt[p].members)

\* Pointers and member lists are two sides of one relation.
Linked(pt, of) ==
    /\ pt \in [Parties -> PartyRow] /\ \A p \in Parties : Sound(pt[p])
    /\ of \in [Players -> Parties \cup {None}]
    /\ \A p \in Parties : \A u \in Crew(pt, p) : of[u] = p
    /\ \A u \in Players : of[u] # None => u \in Crew(pt, of[u])

PartyInv == Linked(party, partyOf)

LEMMA NoParties == None \notin Parties
  BY LobbyAssumption

LEMMA CrewPlays ==
    ASSUME NEW pt, NEW p \in Parties, Sound(pt[p])
    PROVE  Crew(pt, p) \subseteq Players
  <1>1. PICK q : q = pt[p]
    OBVIOUS
  <1>2. q.members \in Seq(Players)
    BY <1>1 DEF Sound, PartyRow
  <1>3. ToSet(q.members) \subseteq Players
    BY <1>2 DEF ToSet
  <1> QED
    BY <1>1, <1>3 DEF Crew

\* Some members leave, and their pointers with them.
LEMMA LinkedTrimmed ==
    ASSUME NEW pt, NEW of, Linked(pt, of), NEW stays,
           NEW qt, qt = [p \in Parties |-> Trimmed(pt[p], stays)],
           NEW g \in [Players -> Parties \cup {None}],
           \A u \in Players : u \in stays \/ of[u] = None => g[u] = of[u],
           \A u \in Players : u \notin stays => g[u] = None
    PROVE  Linked(qt, g) /\ \A p \in Parties : Crew(qt, p) = Crew(pt, p) \cap stays
  <1>1. \A p \in Parties : Sound(qt[p]) /\ Crew(qt, p) = Crew(pt, p) \cap stays
    BY SoundTrimmed DEF Linked, Crew
  <1>2. qt \in [Parties -> PartyRow]
    BY <1>1 DEF Sound
  <1>3. ASSUME NEW p \in Parties, NEW u \in Crew(qt, p)
        PROVE  g[u] = p
    <2>1. u \in Crew(pt, p) /\ u \in stays
      BY <1>1
    <2>2. of[u] = p /\ u \in Players
      BY <2>1, CrewPlays DEF Linked
    <2> QED
      BY <2>1, <2>2
  <1>4. ASSUME NEW u \in Players, g[u] # None
        PROVE  u \in Crew(qt, g[u])
    <2>1. u \in stays /\ g[u] = of[u]
      BY <1>4
    <2>2. of[u] \in Parties /\ u \in Crew(pt, of[u])
      BY <1>4, <2>1 DEF Linked
    <2> QED
      BY <1>1, <2>1, <2>2
  <1> QED
    BY <1>1, <1>2, <1>3, <1>4 DEF Linked

\* What a handler finds when it has the lock.
LEMMA FreshLinked ==
    ASSUME PartyInv
    PROVE  /\ Linked(fresh, freshOf)
           /\ \A p \in Parties : Crew(fresh, p) = Crew(party, p) \cap Kept
  <1>1. PICK pt, of, stays : pt = party /\ of = partyOf /\ stays = Kept
    OBVIOUS
  <1>2. PICK qt, g : qt = fresh /\ g = freshOf
    OBVIOUS
  <1>3. Linked(pt, of)
    BY <1>1 DEF PartyInv
  <1>4. qt = [p \in Parties |-> Trimmed(pt[p], stays)]
    BY <1>1, <1>2 DEF fresh
  <1>5. g = [u \in Players |-> IF u \notin stays /\ of[u] # None /\ u \in Crew(pt, of[u])
                               THEN None ELSE of[u]]
    BY <1>1, <1>2 DEF freshOf, Crew
  <1>6. of \in [Players -> Parties \cup {None}]
    BY <1>3 DEF Linked
  <1>7. g \in [Players -> Parties \cup {None}]
    BY <1>5, <1>6
  <1>8. \A u \in Players : u \in stays \/ of[u] = None => g[u] = of[u]
    BY <1>5
  <1>9. \A u \in Players : u \notin stays => g[u] = None
    BY <1>3, <1>5 DEF Linked
  <1>10. Linked(qt, g) /\ \A p \in Parties : Crew(qt, p) = Crew(pt, p) \cap stays
    BY <1>3, <1>4, <1>7, <1>8, <1>9, LinkedTrimmed
  <1> QED
    BY <1>1, <1>2, <1>10

\* The party and the side of a player.
LEMMA PartyOfPlayer ==
    ASSUME PartyInv, NEW u \in Players
    PROVE  /\ PartyFor(u) = freshOf[u] /\ PartyFor(u) \in Parties \cup {None}
           /\ PartyFor(u) # None => /\ u \in Crew(fresh, PartyFor(u))
                                    /\ Side(u) = Crew(fresh, PartyFor(u))
           /\ PartyFor(u) = None => /\ Side(u) = {u}
                                    /\ \A p \in Parties : u \notin Crew(fresh, p)
  <1>1. Linked(fresh, freshOf)
    BY FreshLinked
  <1>2. PICK qt, g : qt = fresh /\ g = freshOf
    OBVIOUS
  <1>3. Linked(qt, g)
    BY <1>1, <1>2
  <1>4. PartyFor(u) = IF g[u] # None /\ u \in Crew(qt, g[u]) THEN g[u] ELSE None
    BY <1>2 DEF PartyFor, Crew
  <1>5. PartyFor(u) = g[u]
    BY <1>3, <1>4 DEF Linked
  <1>6. g[u] \in Parties \cup {None}
    BY <1>3 DEF Linked
  <1>7. g[u] # None => u \in Crew(qt, g[u])
    BY <1>3 DEF Linked
  <1>8. Side(u) = IF g[u] = None THEN {u} ELSE Crew(qt, g[u])
    BY <1>2, <1>5 DEF Side, Crew
  <1>9. g[u] = None => \A p \in Parties : u \notin Crew(qt, p)
    BY <1>3, NoParties DEF Linked
  <1> QED
    BY <1>2, <1>5, <1>6, <1>7, <1>8, <1>9

\* One player leaves the party that the player is in, if any.
LEMMA LinkedWithout ==
    ASSUME PartyInv, NEW u \in Players
    PROVE  /\ Linked(WithoutUser(u), [freshOf EXCEPT ![u] = None])
           /\ \A p \in Parties : Crew(WithoutUser(u), p) = Crew(fresh, p) \ {u}
           /\ \A p \in Parties : p # PartyFor(u) => WithoutUser(u)[p] = fresh[p]
  <1>1. PICK qt, g, wt, k : /\ qt = fresh /\ g = freshOf /\ wt = WithoutUser(u)
                            /\ k = PartyFor(u)
    OBVIOUS
  <1>2. Linked(qt, g)
    BY <1>1, FreshLinked
  <1>3. k = g[u] /\ k \in Parties \cup {None}
    BY <1>1, PartyOfPlayer
  <1> DEFINE h == [g EXCEPT ![u] = None]
  <1>4. qt \in [Parties -> PartyRow] /\ g \in [Players -> Parties \cup {None}]
    BY <1>2 DEF Linked
  <1>5. h \in [Players -> Parties \cup {None}]
    BY <1>4
  <1>6. \A v \in Players : h[v] = IF v = u THEN None ELSE g[v]
    BY <1>4
  <1> HIDE DEF h
  <1>7. CASE k = None
    <2>1. wt = qt
      BY <1>1, <1>7 DEF WithoutUser
    <2>2. \A v \in Players : h[v] = g[v]
      BY <1>3, <1>6, <1>7
    <2>3. Linked(wt, h)
      <3>1. \A p \in Parties : Crew(wt, p) \subseteq Players
        BY <1>2, <2>1, CrewPlays DEF Linked
      <3>2. \A p \in Parties : \A v \in Crew(wt, p) : h[v] = p
        BY <1>2, <2>1, <2>2, <3>1 DEF Linked
      <3>3. \A v \in Players : h[v] # None => v \in Crew(wt, h[v])
        BY <1>2, <2>1, <2>2 DEF Linked
      <3> QED
        BY <1>2, <1>5, <2>1, <3>2, <3>3 DEF Linked
    <2>4. \A p \in Parties : u \notin Crew(qt, p)
      BY <1>2, <1>3, <1>7, NoParties DEF Linked
    <2> QED
      BY <1>1, <2>1, <2>3, <2>4 DEF h
  <1>8. CASE k # None
    <2>1. wt = [qt EXCEPT ![k] = Trimmed(@, Players \ {u})]
      BY <1>1, <1>8 DEF WithoutUser
    <2>2. k \in Parties
      BY <1>3, <1>8
    <2>3. \A p \in Parties : wt[p] = IF p = k THEN Trimmed(qt[p], Players \ {u}) ELSE qt[p]
      BY <1>4, <2>1, <2>2
    <2>4. /\ Sound(wt[k]) /\ Crew(wt, k) = Crew(qt, k) \cap (Players \ {u})
      <3>1. Sound(qt[k])
        BY <1>2, <2>2 DEF Linked
      <3> QED
        BY <2>2, <2>3, <3>1, SoundTrimmed DEF Crew
    <2>5. \A p \in Parties : Crew(qt, p) \subseteq Players
      BY <1>2, CrewPlays DEF Linked
    <2>6. \A p \in Parties : p # k => u \notin Crew(qt, p)
      BY <1>2, <1>3 DEF Linked
    <2>7. \A p \in Parties : p # k => Crew(wt, p) = Crew(qt, p)
      BY <2>3 DEF Crew
    <2>8. \A p \in Parties : Crew(wt, p) = Crew(qt, p) \ {u}
      BY <2>2, <2>4, <2>5, <2>6, <2>7
    <2>9. \A p \in Parties : Sound(wt[p])
      BY <1>2, <2>3, <2>4 DEF Linked
    <2>10. wt \in [Parties -> PartyRow]
      <3>1. \A p \in Parties : wt[p] \in PartyRow
        BY <2>9 DEF Sound
      <3>2. wt = [p \in Parties |-> wt[p]]
        BY <1>4, <2>1
      <3> QED
        BY <3>1, <3>2
    <2>11. \A p \in Parties : \A v \in Crew(wt, p) : h[v] = p
      BY <1>2, <1>6, <2>5, <2>8 DEF Linked
    <2>12. \A v \in Players : h[v] # None => v \in Crew(wt, h[v])
      <3> SUFFICES ASSUME NEW v \in Players, h[v] # None
                   PROVE  v \in Crew(wt, h[v])
        OBVIOUS
      <3>1. v # u /\ h[v] = g[v]
        BY <1>6
      <3>2. g[v] \in Parties /\ v \in Crew(qt, g[v])
        BY <1>2, <1>4, <3>1 DEF Linked
      <3> QED
        BY <2>8, <3>1, <3>2
    <2>13. Linked(wt, h)
      BY <1>5, <2>9, <2>10, <2>11, <2>12 DEF Linked
    <2> QED
      BY <1>1, <2>3, <2>8, <2>13 DEF h
  <1> QED
    BY <1>7, <1>8

(***************************************************************************)
(* The steps.                                                              *)
(***************************************************************************)
\* What a step does to the parties.
LEMMA PartyMoves ==
    ASSUME [Next]_vars
    PROVE  \/ Locked
           \/ UNCHANGED partyVars
           \/ \E u \in Players : PartyLeave(u)
           \/ \E u \in Players, p \in Parties : PartyCreate(u, p) \/ PartyAccept(u, p)
  <1>1. ASSUME NEW u \in Players, QueueActs(u)
        PROVE  Locked
    BY <1>1 DEF QueueActs, Poll, LeaveQueue, JoinQueue, Handled
  <1>2. ASSUME NEW u \in Players, CustomActs(u)
        PROVE  Locked
    BY <1>2 DEF CustomActs, CreateCustom, SwitchTeam, JoinCustom, AcceptDuel, Handled
  <1>3. ASSUME NEW u \in Players, MatchActs(u)
        PROVE  Locked
    BY <1>3 DEF MatchActs, BeginMatch, LeaveMatch, LeaveResults, Handled
  <1>4. ASSUME NEW u \in Players, RoomActs(u)
        PROVE  Locked
    BY <1>4 DEF RoomActs, ClaimRoom, ReleaseRoom
  <1>5. ASSUME Tick \/ \E m \in Matches : TickEndsMatch(m)
        PROVE  Locked
    BY <1>5 DEF Tick, TickEndsMatch
  <1>6. ASSUME Time
        PROVE  UNCHANGED partyVars
    BY <1>6 DEF Time, GameCloses, LeaseExpires, SearchGrowsStale, GetsRestricted
  <1> QED
    BY <1>1, <1>2, <1>3, <1>4, <1>5, <1>6 DEF Next, PartyActs, vars

\* A player founds a party.
LEMMA PartyCreateStep ==
    ASSUME PartyInv, NEW u \in Players, NEW p \in Parties, PartyCreate(u, p)
    PROVE  /\ PartyInv' /\ Crew(party', p) = {u} /\ Crew(fresh, p) = {}
           /\ \A r \in Parties \ {p} : party'[r] = fresh[r]
  <1>1. PICK qt, g : qt = fresh /\ g = freshOf
    OBVIOUS
  <1>2. PICK wt, h : wt = party' /\ h = partyOf'
    OBVIOUS
  <1> DEFINE q == [members |-> <<u>>, captain |-> u]
  <1>3. wt = [qt EXCEPT ![p] = q] /\ h = [g EXCEPT ![u] = p]
    BY <1>1, <1>2 DEF PartyCreate
  <1>4. Linked(qt, g)
    BY <1>1, FreshLinked
  <1>5. Crew(qt, p) = {}
    BY <1>1, NobodyInNone DEF PartyCreate, Crew
  <1>6. g[u] = None /\ \A r \in Parties : u \notin Crew(qt, r)
    BY <1>1, PartyOfPlayer DEF PartyCreate
  <1>7. Sound(q) /\ ToSet(q.members) = {u} /\ q \in PartyRow
    BY SoundOne, OneInParty DEF Sound
  <1> HIDE DEF q
  <1>8. qt \in [Parties -> PartyRow] /\ g \in [Players -> Parties \cup {None}]
    BY <1>4 DEF Linked
  <1>9. /\ wt \in [Parties -> PartyRow] /\ wt[p] = q
        /\ \A r \in Parties \ {p} : wt[r] = qt[r]
    BY <1>3, <1>7, <1>8
  <1>10. /\ h \in [Players -> Parties \cup {None}] /\ h[u] = p
         /\ \A v \in Players \ {u} : h[v] = g[v]
    BY <1>3, <1>8
  <1>11. Crew(wt, p) = {u} /\ \A r \in Parties \ {p} : Crew(wt, r) = Crew(qt, r)
    BY <1>7, <1>9 DEF Crew
  <1>12. \A r \in Parties : Crew(qt, r) \subseteq Players
    BY <1>4, CrewPlays DEF Linked
  <1>13. ASSUME NEW r \in Parties, NEW v \in Crew(wt, r)
         PROVE  h[v] = r
    <2>1. CASE r = p
      BY <1>10, <1>11, <1>13, <2>1
    <2>2. CASE r # p
      <3>1. v \in Crew(qt, r) /\ v # u /\ v \in Players
        BY <1>6, <1>11, <1>12, <1>13, <2>2
      <3> QED
        BY <1>4, <1>10, <3>1 DEF Linked
    <2> QED
      BY <2>1, <2>2
  <1>14. ASSUME NEW v \in Players, h[v] # None
         PROVE  v \in Crew(wt, h[v])
    <2>1. CASE v = u
      BY <1>10, <1>11, <2>1
    <2>2. CASE v # u
      <3>1. h[v] = g[v] /\ g[v] \in Parties /\ v \in Crew(qt, g[v])
        BY <1>4, <1>8, <1>10, <1>14, <2>2 DEF Linked
      <3> QED
        BY <1>5, <1>11, <3>1
    <2> QED
      BY <2>1, <2>2
  <1>15. \A r \in Parties : Sound(wt[r])
    BY <1>4, <1>7, <1>9 DEF Linked
  <1>16. Linked(wt, h)
    BY <1>9, <1>10, <1>13, <1>14, <1>15 DEF Linked
  <1> QED
    BY <1>1, <1>2, <1>5, <1>9, <1>11, <1>16 DEF PartyInv

\* A player accepts the invitation of a party's only member.
LEMMA PartyAcceptStep ==
    ASSUME PartyInv, NEW u \in Players, NEW p \in Parties, PartyAccept(u, p)
    PROVE  /\ PartyInv' /\ Crew(party', p) = Crew(fresh, p) \cup {u}
           /\ \A r \in Parties \ {p} : Crew(party', r) = Crew(fresh, r) \ {u}
           /\ p # PartyFor(u)
  <1>1. PICK qt, w, g0 : qt = fresh /\ w = WithoutUser(u) /\ g0 = freshOf
    OBVIOUS
  <1>2. PICK wt, h : wt = party' /\ h = partyOf'
    OBVIOUS
  <1> DEFINE g == [g0 EXCEPT ![u] = None]
  <1>3. wt = [w EXCEPT ![p].members = Append(@, u)] /\ h = [g0 EXCEPT ![u] = p]
    BY <1>1, <1>2 DEF PartyAccept
  <1>4. p # PartyFor(u) /\ Len(qt[p].members) = 1
    BY <1>1 DEF PartyAccept
  <1>5. /\ Linked(w, g) /\ w[p] = qt[p]
        /\ \A r \in Parties : Crew(w, r) = Crew(qt, r) \ {u}
    BY <1>1, <1>4, LinkedWithout
  <1>6. u \notin Crew(qt, p)
    BY <1>5 DEF Crew
  <1>7. g0 \in [Players -> Parties \cup {None}]
    BY <1>1, FreshLinked DEF Linked
  <1>8. \A v \in Players \ {u} : g[v] = g0[v]
    BY <1>7
  <1>9. /\ h \in [Players -> Parties \cup {None}] /\ h[u] = p
        /\ \A v \in Players \ {u} : h[v] = g0[v]
    BY <1>3, <1>7
  <1> HIDE DEF g
  <1> DEFINE q == [w[p] EXCEPT !.members = Append(@, u)]
  <1>10. w \in [Parties -> PartyRow] /\ Sound(w[p])
    BY <1>5 DEF Linked
  <1>11. Sound(q) /\ ToSet(q.members) = Crew(qt, p) \cup {u} /\ q \in PartyRow
    <2>1. PICK k : k = w[p]
      OBVIOUS
    <2>2. Sound(k) /\ Len(k.members) = 1 /\ u \notin ToSet(k.members)
      BY <1>4, <1>5, <1>6, <1>10, <2>1 DEF Crew
    <2>3. /\ Sound([k EXCEPT !.members = Append(@, u)])
          /\ ToSet(Append(k.members, u)) = ToSet(k.members) \cup {u}
      BY <2>2, SoundAppend
    <2>4. [k EXCEPT !.members = Append(@, u)].members = Append(k.members, u)
      BY <2>2 DEF Sound, PartyRow
    <2> QED
      BY <1>5, <2>1, <2>3, <2>4 DEF Crew, Sound
  <1>12. wt = [w EXCEPT ![p] = q]
    BY <1>3
  <1> HIDE DEF q
  <1>13. /\ wt \in [Parties -> PartyRow] /\ wt[p] = q
         /\ \A r \in Parties \ {p} : wt[r] = w[r]
    BY <1>10, <1>11, <1>12
  <1>14. /\ Crew(wt, p) = Crew(qt, p) \cup {u}
         /\ \A r \in Parties \ {p} : Crew(wt, r) = Crew(w, r)
    BY <1>11, <1>13 DEF Crew
  <1>15. \A r \in Parties : Crew(w, r) \subseteq Players /\ u \notin Crew(w, r)
    BY <1>5, CrewPlays DEF Linked
  <1>16. ASSUME NEW r \in Parties, NEW v \in Crew(wt, r)
         PROVE  h[v] = r
    <2>1. CASE v = u
      <3>1. r = p
        BY <1>14, <1>15, <1>16, <2>1
      <3> QED
        BY <1>9, <2>1, <3>1
    <2>2. CASE v # u
      <3>1. v \in Crew(w, r) /\ v \in Players
        BY <1>5, <1>14, <1>15, <1>16, <2>2
      <3>2. g[v] = r
        BY <1>5, <3>1 DEF Linked
      <3> QED
        BY <1>8, <1>9, <2>2, <3>1, <3>2
    <2> QED
      BY <2>1, <2>2
  <1>17. ASSUME NEW v \in Players, h[v] # None
         PROVE  v \in Crew(wt, h[v])
    <2>1. CASE v = u
      BY <1>9, <1>14, <2>1
    <2>2. CASE v # u
      <3>1. h[v] = g[v] /\ g[v] \in Parties /\ v \in Crew(w, g[v])
        BY <1>5, <1>8, <1>9, <1>17, <2>2 DEF Linked
      <3> QED
        BY <1>5, <1>14, <3>1
    <2> QED
      BY <2>1, <2>2
  <1>18. \A r \in Parties : Sound(wt[r])
    BY <1>5, <1>11, <1>13 DEF Linked
  <1>19. Linked(wt, h)
    BY <1>9, <1>13, <1>16, <1>17, <1>18 DEF Linked
  <1> QED
    BY <1>1, <1>2, <1>4, <1>5, <1>14, <1>19 DEF PartyInv

LEMMA PartyStep ==
    ASSUME PartyInv, [Next]_vars
    PROVE  PartyInv'
  <1>1. CASE Locked
    <2>1. Linked(party', partyOf')
      BY <1>1, FreshLinked DEF Locked
    <2> QED
      BY <2>1 DEF PartyInv
  <1>2. CASE UNCHANGED partyVars
    BY <1>2 DEF partyVars, PartyInv
  <1>3. ASSUME NEW u \in Players, PartyLeave(u)
        PROVE  PartyInv'
    <2>1. Linked(party', partyOf')
      BY <1>3, LinkedWithout DEF PartyLeave
    <2> QED
      BY <2>1 DEF PartyInv
  <1> QED
    BY <1>1, <1>2, <1>3, PartyMoves, PartyCreateStep, PartyAcceptStep

LEMMA PartyInit == Init => PartyInv
  <1> SUFFICES ASSUME Init
               PROVE  PartyInv
    OBVIOUS
  <1>1. Sound(NoParty) /\ NoParty \in PartyRow /\ ToSet(NoParty.members) = {}
    BY SoundNone, NobodyInNone DEF NoParty, Sound
  <1>2. /\ party \in [Parties -> PartyRow] /\ \A p \in Parties : party[p] = NoParty
        /\ partyOf \in [Players -> Parties \cup {None}] /\ \A u \in Players : partyOf[u] = None
    BY <1>1 DEF Init
  <1>3. \A p \in Parties : Sound(party[p]) /\ Crew(party, p) = {}
    BY <1>1, <1>2 DEF Crew
  <1> QED
    BY <1>2, <1>3 DEF PartyInv, Linked

LEMMA AlwaysPartyInv == Spec => []PartyInv
  <1>1. PartyInv /\ [Next]_vars => PartyInv'
    BY PartyStep
  <1> QED
    BY <1>1, PartyInit, PTL DEF Spec

\* The size of a party is the number of its members.
LEMMA PartySize ==
    ASSUME NEW q, Sound(q)
    PROVE  /\ IsFiniteSet(ToSet(q.members))
           /\ Cardinality(ToSet(q.members)) = Len(q.members)
           /\ Cardinality(ToSet(q.members)) <= 2
           /\ ToSet(q.members) # {} => q.captain \in ToSet(q.members)
  <1>1. ASSUME NEW a \in Players, q.members = <<a>>, q.captain = a
        PROVE  /\ IsFiniteSet(ToSet(q.members)) /\ Len(q.members) = 1
               /\ Cardinality(ToSet(q.members)) = 1 /\ q.captain \in ToSet(q.members)
    <2>1. ToSet(q.members) = {a} /\ Len(q.members) = 1
      BY <1>1, OneInParty
    <2>2. IsFiniteSet({a}) /\ Cardinality({a}) = 1
      BY FS_Singleton
    <2> QED
      BY <1>1, <2>1, <2>2
  <1>2. ASSUME NEW a \in Players, NEW b \in Players, a # b, q.members = <<a, b>>,
               q.captain \in {a, b}
        PROVE  /\ IsFiniteSet(ToSet(q.members)) /\ Len(q.members) = 2
               /\ Cardinality(ToSet(q.members)) = 2 /\ q.captain \in ToSet(q.members)
    <2>1. IsFiniteSet({a}) /\ Cardinality({a}) = 1
      BY FS_Singleton
    <2>2. IsFiniteSet({a} \cup {b}) /\ Cardinality({a} \cup {b}) = 2
      BY <1>2, <2>1, FS_AddElement
    <2>3. {a} \cup {b} = {a, b}
      OBVIOUS
    <2>4. ToSet(q.members) = {a, b} /\ Len(q.members) = 2
      BY <1>2, TwoInParty
    <2> QED
      BY <1>2, <2>2, <2>3, <2>4
  <1>3. 0 <= 2 /\ 1 <= 2 /\ 2 <= 2
    OBVIOUS
  <1>4. \/ q.members = <<>>
        \/ \E a \in Players : q.members = <<a>> /\ q.captain = a
        \/ \E a, b \in Players : a # b /\ q.members = <<a, b>> /\ q.captain \in {a, b}
    BY PartyCases
  <1>5. CASE q.members = <<>>
    <2>1. /\ IsFiniteSet(ToSet(q.members)) /\ Len(q.members) = 0
          /\ Cardinality(ToSet(q.members)) = 0 /\ ToSet(q.members) = {}
      BY <1>5, NobodyInNone, FS_EmptySet
    <2> QED
      BY <1>3, <2>1
  <1>6. CASE \E a \in Players : q.members = <<a>> /\ q.captain = a
    BY <1>1, <1>3, <1>6
  <1>7. CASE \E a, b \in Players : a # b /\ q.members = <<a, b>> /\ q.captain \in {a, b}
    BY <1>2, <1>3, <1>7
  <1> QED
    BY <1>4, <1>5, <1>6, <1>7

\* Parties and the players' pointers to them agree, whoever left, was dropped for
\* a missing heartbeat, or joined another party: one party each, two members at
\* most, a captain among them (leave_party, expire_stale_parties, accept).
THEOREM PartiesAlwaysAgree == Spec => []PartiesAgree
  <1>1. ASSUME PartyInv
        PROVE  PartiesAgree
    <2>1. /\ \A p \in Parties : Sound(party[p]) /\ \A u \in Crew(party, p) : partyOf[u] = p
          /\ \A u \in Players : partyOf[u] # None => u \in Crew(party, partyOf[u])
      BY <1>1 DEF PartyInv, Linked
    <2> QED
      BY <2>1, PartySize DEF PartiesAgree, Crew
  <1> QED
    BY <1>1, AlwaysPartyInv, PTL

\* The pointers of the activity table, to a party and to a match, lead to rows that
\* name the player, whatever the players, the tick and the spectator server do.
THEOREM PointersAlwaysAgree ==
    ASSUME Orderly
    PROVE  Spec => []PointersAgree
  <1>1. PartiesAgree /\ PlayersFindTheirMatch => PointersAgree
    BY DEF PointersAgree
  <1> QED
    BY <1>1, PartiesAlwaysAgree, PlayersAlwaysFindTheirMatch, PTL

\* A busy player: whoever has a reservation is kept, and no party with a busy
\* member is left or joined.
LEMMA BusyStep ==
    ASSUME PartyInv, [Next]_vars, NEW p \in Parties, NEW u \in Crew(party, p),
           holds[u] # None
    PROVE  u \in Crew(party', p) /\ Crew(party', p) \subseteq Crew(party, p)
  <1>1. u \in Players
    BY CrewPlays DEF PartyInv, Linked
  <1>2. u \in Kept
    BY <1>1 DEF Kept
  <1>3. u \in Crew(fresh, p) /\ Crew(fresh, p) \subseteq Crew(party, p)
    BY <1>2, FreshLinked
  <1>4. CASE Locked
    BY <1>3, <1>4 DEF Locked
  <1>5. CASE UNCHANGED partyVars
    <2>1. party' = party
      BY <1>5 DEF partyVars
    <2> QED
      BY <2>1
  <1>6. ASSUME NEW v \in Players, Idle(Side(v))
        PROVE  p # PartyFor(v) /\ v \notin Crew(fresh, p)
    <2>1. p # PartyFor(v)
      BY <1>3, <1>6, NoParties, PartyOfPlayer DEF Idle
    <2>2. v \in Crew(fresh, p) => freshOf[v] = p
      BY FreshLinked DEF Linked
    <2> QED
      BY <2>1, <2>2, PartyOfPlayer
  <1>7. ASSUME NEW v \in Players, PartyLeave(v)
        PROVE  u \in Crew(party', p) /\ Crew(party', p) \subseteq Crew(party, p)
    <2>1. v \notin Crew(fresh, p)
      BY <1>6, <1>7 DEF PartyLeave
    <2>2. Crew(party', p) = Crew(fresh, p) \ {v}
      BY <1>7, LinkedWithout DEF PartyLeave
    <2> QED
      BY <1>3, <2>1, <2>2
  <1>8. ASSUME NEW v \in Players, NEW q \in Parties, PartyCreate(v, q)
        PROVE  u \in Crew(party', p) /\ Crew(party', p) \subseteq Crew(party, p)
    <2>1. Crew(fresh, q) = {} /\ \A r \in Parties \ {q} : party'[r] = fresh[r]
      BY <1>8, PartyCreateStep
    <2>2. party'[p] = fresh[p]
      BY <1>3, <2>1
    <2> QED
      BY <1>3, <2>2 DEF Crew
  <1>9. ASSUME NEW v \in Players, NEW q \in Parties, PartyAccept(v, q)
        PROVE  u \in Crew(party', p) /\ Crew(party', p) \subseteq Crew(party, p)
    <2>1. v \notin Crew(fresh, p)
      BY <1>6, <1>9 DEF PartyAccept, MayMove
    <2>2. p # q
      BY <1>3, <1>9 DEF PartyAccept, MayMove, Idle, Crew
    <2>3. Crew(party', p) = Crew(fresh, p) \ {v}
      BY <1>9, <2>2, PartyAcceptStep
    <2> QED
      BY <1>3, <2>1, <2>3
  <1> QED
    BY <1>4, <1>5, <1>7, <1>8, <1>9, PartyMoves

\* While a member searches or plays, the party keeps that member and gets no new
\* one, whatever heartbeat is missing and whoever else comes and goes
\* (expire_stale_parties, leave_party, accept).
THEOREM BusyPartiesStayStable == Spec => BusyPartiesAreStable
  <1> DEFINE Stable ==
        \A p \in Parties, u \in Players :
          u \in ToSet(party[p].members) /\ holds[u] # None /\ holds'[u] = holds[u] =>
              /\ u \in ToSet(party'[p].members)
              /\ ToSet(party'[p].members) \subseteq ToSet(party[p].members)
  <1>1. PartyInv /\ [Next]_vars => Stable
    BY BusyStep DEF Crew
  <1>2. BusyPartiesAreStable <=> [][Stable]_vars
    BY DEF BusyPartiesAreStable
  <1> HIDE DEF Stable
  <1> QED
    BY <1>1, <1>2, AlwaysPartyInv, PTL DEF Spec

(***************************************************************************)
(* Head counts: the players of separate searches, counted search by        *)
(* search, are as many as the players in them.                             *)
(***************************************************************************)
Sizing(E) == [e \in E |-> Cardinality(e.members)]

\* Searches that share no player, each of finitely many.
Apart(E) ==
    /\ \A e \in E : IsFiniteSet(e.members)
    /\ \A e, f \in E : e # f => e.members \cap f.members = {}

LEMMA SizingType ==
    ASSUME NEW E, Apart(E)
    PROVE  Sizing(E) \in [E -> Nat] /\ \A e \in E : Sizing(E)[e] = Cardinality(e.members)
  <1>1. \A e \in E : Cardinality(e.members) \in Nat
    BY FS_CardinalityType DEF Apart
  <1> QED
    BY <1>1 DEF Sizing

LEMMA HeadCountIsSum ==
    ASSUME NEW E, IsFiniteSet(E), Apart(E)
    PROVE  HeadCount(E) = SumOver(Sizing(E), E)
  <1> DEFINE Part(e)  == Cardinality(e.members)
             Total(k) == k = [s \in SUBSET E |-> IF s = {} THEN 0
                                                 ELSE Part(Some(s)) + k[s \ {Some(s)}]]
  <1>1. PICK g : g = Sizing(E)
    OBVIOUS
  <1>2. g \in [E -> Nat] /\ \A e \in E : g[e] = Part(e)
    BY <1>1, SizingType
  <1>3. PICK h \in [SUBSET E -> Nat] : Sums(h, g, E)
    BY <1>2, SumsExist
  <1>4. PICK sum : sum = CHOOSE k : Total(k)
    OBVIOUS
  <1>5. HeadCount(E) = sum[E]
    BY <1>4 DEF HeadCount, MapThenSumSet, MapThenFoldSet, Some
  <1> HIDE DEF Part
  <1>6. \A s \in SUBSET E : s # {} => Some(s) \in E
    BY DEF Some
  <1>7. \A k : Sums(k, g, E) <=> Total(k)
    BY <1>2, <1>6 DEF Sums
  <1>8. Total(sum)
    <2> HIDE DEF Total
    <2>1. Total(h)
      BY <1>3, <1>7
    <2> QED
      BY <1>4, <2>1
  <1>9. sum[E] = SumOver(g, E)
    BY <1>2, <1>7, <1>8, SumOverUnique
  <1> QED
    BY <1>1, <1>5, <1>9

\* The claim about the searches of A.
Counts(A) ==
    /\ IsFiniteSet(A) /\ IsFiniteSet(Heads(A))
    /\ SumOver(Sizing(A), A) = Cardinality(Heads(A))

LEMMA OneMoreCounts ==
    ASSUME NEW E, Apart(E), NEW A, A \subseteq E, Counts(A), NEW x \in E, x \notin A
    PROVE  Counts(A \cup {x})
  <1>1. PICK B : B = A \cup {x}
    OBVIOUS
  <1>2. Apart(A) /\ Apart(B) /\ IsFiniteSet(A)
    BY <1>1 DEF Apart, Counts
  <1>3. PICK g, f : g = Sizing(A) /\ f = Sizing(B)
    OBVIOUS
  <1>4. /\ g \in [A -> Nat] /\ \A e \in A : g[e] = Cardinality(e.members)
        /\ f \in [B -> Nat] /\ \A e \in B : f[e] = Cardinality(e.members)
    BY <1>2, <1>3, SizingType
  <1>5. f \in [A \cup {x} -> Nat] /\ \A y \in A : g[y] = f[y]
    BY <1>1, <1>4
  <1>6. SumOver(f, A \cup {x}) = SumOver(g, A) + f[x]
    BY <1>2, <1>4, <1>5, SumOverAdd
  <1>7. f[x] = Cardinality(x.members) /\ IsFiniteSet(x.members)
    BY <1>1, <1>4 DEF Apart
  <1>8. Heads(B) = Heads(A) \cup x.members
    BY <1>1 DEF Heads
  <1>9. Heads(A) \cap x.members = {}
    BY DEF Heads, Apart
  <1>10. PICK S, T : S = Heads(A) /\ T = x.members
    OBVIOUS
  <1>11. IsFiniteSet(S) /\ IsFiniteSet(T) /\ Cardinality(S) \in Nat /\ Cardinality(T) \in Nat
    BY <1>7, <1>10, FS_CardinalityType DEF Counts
  <1>12. IsFiniteSet(S \cup T)
    BY <1>11, FS_Union
  <1>13. Cardinality(S \cup T) = Cardinality(S) + Cardinality(T) - Cardinality(S \cap T)
    BY <1>11, FS_Union
  <1>14. Cardinality(S \cap T) = 0
    BY <1>9, <1>10, FS_EmptySet
  <1>15. Cardinality(S \cup T) = Cardinality(S) + Cardinality(T)
    BY <1>11, <1>13, <1>14
  <1>16. SumOver(g, A) = Cardinality(S)
    BY <1>3, <1>10 DEF Counts
  <1>17. SumOver(f, B) = Cardinality(Heads(B)) /\ IsFiniteSet(Heads(B))
    BY <1>1, <1>6, <1>7, <1>8, <1>10, <1>12, <1>15, <1>16
  <1>18. IsFiniteSet(B)
    BY <1>1, <1>2, FS_AddElement
  <1> QED
    BY <1>1, <1>3, <1>17, <1>18 DEF Counts

LEMMA HeadCountIs ==
    ASSUME NEW E, IsFiniteSet(E), Apart(E)
    PROVE  IsFiniteSet(Heads(E)) /\ HeadCount(E) = Cardinality(Heads(E))
  <1>1. PICK F : F = {A \in SUBSET E : Counts(A)}
    OBVIOUS
  <1>2. {} \in F
    <2>1. Heads({}) = {}
      BY DEF Heads
    <2>2. Counts({})
      BY <2>1, FS_EmptySet, SumOverNone DEF Counts
    <2> QED
      BY <1>1, <2>2
  <1>3. ASSUME NEW A \in SUBSET E, A \in F, NEW x \in E \ A
        PROVE  A \cup {x} \in F
    <2>1. Counts(A \cup {x})
      BY <1>1, <1>3, OneMoreCounts
    <2> QED
      BY <1>1, <2>1
  <1>4. E \in F
    BY <1>2, <1>3, FiniteInduces
  <1> QED
    BY <1>1, <1>4, HeadCountIsSum DEF Counts

(***************************************************************************)
(* Undivided parties and complete teams.                                   *)
(***************************************************************************)
Undivided(us, team) == us \cap team # {} => us \subseteq team

SearchWhole(e, pt) ==
    /\ IsFiniteSet(e.members)
    /\ e.size = 2 => \A p \in Parties : Undivided(Crew(pt, p), e.members)

TeamsFull(row) ==
    \A t \in {0, 1} :
        /\ IsFiniteSet(row.teams[t]) /\ Cardinality(row.teams[t]) <= row.size
        /\ row.ranked => Cardinality(row.teams[t]) = row.size

GameWhole(row, pt) ==
    row.stage \in {"waiting", "live"} /\ row.size = 2 =>
        \A p \in Parties, t \in {0, 1} : Undivided(Crew(pt, p), row.teams[t])

\* No search and no running match divides a party, and no team is too large.
Whole(q, g, pt) ==
    /\ IsFiniteSet(q)
    /\ \A e \in q : SearchWhole(e, pt)
    /\ \A m \in Matches : TeamsFull(g[m]) /\ GameWhole(g[m], pt)

TeamInv == Whole(queue, match, party)

LEMMA WholeFewer ==
    ASSUME NEW q, NEW g, NEW pt, Whole(q, g, pt), NEW r, r \subseteq q
    PROVE  Whole(r, g, pt)
  BY FS_Subset DEF Whole

LEMMA WholeMore ==
    ASSUME NEW q, NEW g, NEW pt, Whole(q, g, pt), NEW e, SearchWhole(e, pt)
    PROVE  Whole(q \cup {e}, g, pt)
  BY FS_AddElement DEF Whole

LEMMA WholeMatch ==
    ASSUME NEW q, NEW g, NEW pt, Whole(q, g, pt), g = [n \in Matches |-> g[n]],
           NEW m \in Matches, NEW row, TeamsFull(row), GameWhole(row, pt)
    PROVE  Whole(q, [g EXCEPT ![m] = row], pt)
  <1>1. PICK h : h = [g EXCEPT ![m] = row]
    OBVIOUS
  <1>2. \A n \in Matches : h[n] = IF n = m THEN row ELSE g[n]
    BY <1>1
  <1>3. \A n \in Matches : TeamsFull(h[n]) /\ GameWhole(h[n], pt)
    BY <1>2 DEF Whole
  <1> QED
    BY <1>1, <1>3 DEF Whole

\* Parties that only lose members stay undivided.
LEMMA WholeSmaller ==
    ASSUME NEW q, NEW g, NEW pt, Whole(q, g, pt), NEW qt,
           \A p \in Parties : Crew(qt, p) \subseteq Crew(pt, p)
    PROVE  Whole(q, g, qt)
  <1>1. ASSUME NEW team, NEW p \in Parties, Undivided(Crew(pt, p), team)
        PROVE  Undivided(Crew(qt, p), team)
    BY <1>1 DEF Undivided
  <1>2. \A e \in q : SearchWhole(e, qt)
    BY <1>1 DEF Whole, SearchWhole
  <1>3. \A m \in Matches : TeamsFull(g[m]) /\ GameWhole(g[m], qt)
    BY <1>1 DEF Whole, GameWhole
  <1> QED
    BY <1>2, <1>3 DEF Whole

LEMMA FreshWhole ==
    ASSUME PartyInv, TeamInv
    PROVE  Whole(queue, match, fresh)
  <1>1. \A p \in Parties : Crew(fresh, p) \subseteq Crew(party, p)
    BY FreshLinked
  <1> QED
    BY <1>1, WholeSmaller DEF TeamInv

\* The side of a player is a whole party, or the player alone.
LEMMA SideWhole ==
    ASSUME PartyInv, NEW u \in Players
    PROVE  /\ IsFiniteSet(Side(u)) /\ u \in Side(u) /\ Side(u) \subseteq Players
           /\ \A p \in Parties : Undivided(Crew(fresh, p), Side(u))
  <1>1. PICK qt, g, k, us : qt = fresh /\ g = freshOf /\ k = PartyFor(u) /\ us = Side(u)
    OBVIOUS
  <1>2. Linked(qt, g)
    BY <1>1, FreshLinked
  <1>3. /\ k = g[u] /\ k \in Parties \cup {None}
        /\ k # None => us = Crew(qt, k) /\ u \in Crew(qt, k)
        /\ k = None => us = {u} /\ \A p \in Parties : u \notin Crew(qt, p)
    BY <1>1, PartyOfPlayer
  <1>4. CASE k = None
    <2>1. \A p \in Parties : Undivided(Crew(qt, p), us)
      BY <1>3, <1>4 DEF Undivided
    <2>2. us = {u}
      BY <1>3, <1>4
    <2>3. IsFiniteSet({u})
      BY FS_Singleton
    <2>4. IsFiniteSet(us) /\ u \in us /\ us \subseteq Players
      BY <2>2, <2>3
    <2> QED
      BY <1>1, <2>1, <2>4
  <1>5. CASE k # None
    <2>1. k \in Parties /\ us = Crew(qt, k)
      BY <1>3, <1>5
    <2>2. Sound(qt[k])
      BY <1>2, <2>1 DEF Linked
    <2>3. IsFiniteSet(us)
      BY <2>1, <2>2, PartySize DEF Crew
    <2>4. ASSUME NEW p \in Parties
          PROVE  Undivided(Crew(qt, p), us)
      <3>1. \A v \in Crew(qt, p) : g[v] = p
        BY <1>2 DEF Linked
      <3>2. \A v \in us : g[v] = k
        BY <1>2, <2>1 DEF Linked
      <3> QED
        BY <2>1, <3>1, <3>2 DEF Undivided
    <2>5. us \subseteq Players
      BY <2>1, <2>2, CrewPlays
    <2> QED
      BY <1>1, <1>3, <1>5, <2>3, <2>4, <2>5
  <1> QED
    BY <1>4, <1>5

(***************************************************************************)
(* The queue and the matches of the books.                                 *)
(***************************************************************************)
Lists(b, q, g) ==
    \E H, M, R : b \in [holds : H, matchOf : M, resv : R, queue : {q}, match : {g}]

LEMMA ListsBook ==
    ASSUME NEW b \in Book
    PROVE  Lists(b, b.queue, b.match)
  <1>1. b \in [holds : {b.holds}, matchOf : {b.matchOf}, resv : {b.resv},
               queue : {b.queue}, match : {b.match}]
    BY DEF Book
  <1> QED
    BY <1>1 DEF Lists

LEMMA ListsBooks == Lists(books, queue, match)
  <1>1. books \in [holds : {holds}, matchOf : {matchOf}, resv : {resv},
                   queue : {queue}, match : {match}]
    BY DEF books
  <1> QED
    BY <1>1 DEF Lists

LEMMA ListsFields ==
    ASSUME NEW b, NEW q, NEW g, Lists(b, q, g)
    PROVE  b.queue = q /\ b.match = g /\ (Become(b) => queue' = q /\ match' = g)
  BY DEF Lists, Become

LEMMA ListsQueue ==
    ASSUME NEW b, NEW q, NEW g, Lists(b, q, g), NEW r
    PROVE  Lists([b EXCEPT !.queue = r], r, g)
  <1>1. PICK H, M, R : b \in [holds : H, matchOf : M, resv : R, queue : {q}, match : {g}]
    BY DEF Lists
  <1>2. [b EXCEPT !.queue = r]
            \in [holds : H, matchOf : M, resv : R, queue : {r}, match : {g}]
    BY <1>1
  <1> QED
    BY <1>2 DEF Lists

LEMMA ListsMatch ==
    ASSUME NEW b, NEW q, NEW g, Lists(b, q, g), NEW f
    PROVE  Lists([b EXCEPT !.match = f], q, f)
  <1>1. PICK H, M, R : b \in [holds : H, matchOf : M, resv : R, queue : {q}, match : {g}]
    BY DEF Lists
  <1>2. [b EXCEPT !.match = f]
            \in [holds : H, matchOf : M, resv : R, queue : {q}, match : {f}]
    BY <1>1
  <1> QED
    BY <1>2 DEF Lists

\* Reservations, holders and pointers change alone.
LEMMA ListsRest ==
    ASSUME NEW b, NEW q, NEW g, Lists(b, q, g), NEW h, NEW mo, NEW rs
    PROVE  /\ Lists([b EXCEPT !.matchOf = mo], q, g)
           /\ Lists([b EXCEPT !.resv = rs, !.holds = h], q, g)
           /\ Lists([b EXCEPT !.resv = rs, !.holds = h, !.matchOf = mo], q, g)
  <1>1. PICK H, M, R : b \in [holds : H, matchOf : M, resv : R, queue : {q}, match : {g}]
    BY DEF Lists
  <1>2. [b EXCEPT !.matchOf = mo]
            \in [holds : H, matchOf : {mo}, resv : R, queue : {q}, match : {g}]
    BY <1>1
  <1>3. [b EXCEPT !.resv = rs, !.holds = h]
            \in [holds : {h}, matchOf : M, resv : {rs}, queue : {q}, match : {g}]
    BY <1>1
  <1>4. [b EXCEPT !.resv = rs, !.holds = h, !.matchOf = mo]
            \in [holds : {h}, matchOf : {mo}, resv : {rs}, queue : {q}, match : {g}]
    BY <1>1
  <1>5. Lists([b EXCEPT !.matchOf = mo], q, g)
    BY <1>2 DEF Lists
  <1>6. Lists([b EXCEPT !.resv = rs, !.holds = h], q, g)
    BY <1>3 DEF Lists
  <1>7. Lists([b EXCEPT !.resv = rs, !.holds = h, !.matchOf = mo], q, g)
    BY <1>4 DEF Lists
  <1> QED
    BY <1>5, <1>6, <1>7

LEMMA ListsPointTo ==
    ASSUME NEW b, NEW q, NEW g, Lists(b, q, g), NEW us, NEW m
    PROVE  Lists(PointTo(b, us, m), q, g)
  <1>1. PICK mo : mo = [u \in Players |-> IF u \in us THEN m ELSE b.matchOf[u]]
    OBVIOUS
  <1>2. Lists([b EXCEPT !.matchOf = mo], q, g)
    BY ListsRest
  <1> QED
    BY <1>1, <1>2 DEF PointTo

LEMMA ListsReserve ==
    ASSUME NEW b, NEW q, NEW g, Lists(b, q, g), NEW u, NEW us, NEW r, NEW custom
    PROVE  Lists(Reserve(b, u, us, r, custom), q, g)
  <1>1. PICK h : h = [v \in Players |-> IF v \in us THEN r ELSE b.holds[v]]
    OBVIOUS
  <1>2. PICK rs : rs = b.resv \cup {[id |-> r, captain |-> u, members |-> us,
                                     custom |-> custom]}
    OBVIOUS
  <1>3. Lists([b EXCEPT !.resv = rs, !.holds = h], q, g)
    BY ListsRest
  <1> QED
    BY <1>1, <1>2, <1>3 DEF Reserve

LEMMA ListsRelease ==
    ASSUME NEW b, NEW q, NEW g, Lists(b, q, g), NEW ids
    PROVE  Lists(Release(b, ids), q, g)
  <1> DEFINE LetsGo(u) == \E row \in b.resv : /\ row.id \in ids /\ u \in row.members
                                             /\ b.holds[u] = row.id
             Rest(f) == [u \in Players |-> IF LetsGo(u) THEN None ELSE f[u]]
  <1>1. PICK rs, h, mo : /\ rs = {row \in b.resv : row.id \notin ids}
                         /\ h = Rest(b.holds) /\ mo = Rest(b.matchOf)
    OBVIOUS
  <1>2. Lists([b EXCEPT !.resv = rs, !.holds = h, !.matchOf = mo], q, g)
    BY ListsRest
  <1> QED
    BY <1>1, <1>2 DEF Release

LEMMA ListsDrop ==
    ASSUME NEW b, NEW q, NEW g, Lists(b, q, g), NEW entries
    PROVE  Lists(Drop(b, entries), q \ entries, g)
  <1>1. PICK c : c = Release(b, {e.resv : e \in entries})
    OBVIOUS
  <1>2. Lists(c, q, g)
    BY <1>1, ListsRelease
  <1>3. c.queue = q
    BY <1>2, ListsFields
  <1>4. Drop(b, entries) = [c EXCEPT !.queue = q \ entries]
    BY <1>1, <1>3 DEF Drop
  <1> QED
    BY <1>2, <1>4, ListsQueue

LEMMA ListsAnswered ==
    ASSUME NEW b, NEW q, NEW g, Lists(b, q, g), NEW u
    PROVE  \E r \in SUBSET q : Lists(Answered(b, u), r, g)
  BY ListsDrop DEF Answered

LEMMA ListsCreate ==
    ASSUME NEW b, NEW q, NEW g, Lists(b, q, g), NEW m, NEW row
    PROVE  Lists(Create(b, m, row), q, [g EXCEPT ![m] = row])
  <1>1. PICK h : h = [g EXCEPT ![m] = row]
    OBVIOUS
  <1>2. PICK c : c = [b EXCEPT !.match = h]
    OBVIOUS
  <1>3. [b EXCEPT !.match[m] = row] = c
    BY <1>1, <1>2 DEF Lists
  <1>4. Lists(c, q, h)
    BY <1>2, ListsMatch
  <1> QED
    BY <1>1, <1>3, <1>4, ListsPointTo DEF Create

LEMMA ListsFinish ==
    ASSUME NEW b, NEW q, NEW g, Lists(b, q, g), NEW m
    PROVE  Lists(Finish(b, m), q, [g EXCEPT ![m].stage = "final"])
  <1>1. PICK h : h = [g EXCEPT ![m].stage = "final"]
    OBVIOUS
  <1>2. PICK c : c = [b EXCEPT !.match = h]
    OBVIOUS
  <1>3. [b EXCEPT !.match[m].stage = "final"] = c
    BY <1>1, <1>2 DEF Lists
  <1>4. Lists(c, q, h)
    BY <1>2, ListsMatch
  <1>5. Lists(Release(c, match[m].resvs), q, h)
    BY <1>4, ListsRelease
  <1>6. Finish(b, m) = PointTo(Release(c, match[m].resvs), MembersOf(m), m)
    BY <1>3 DEF Finish
  <1> QED
    BY <1>1, <1>5, <1>6, ListsPointTo

(***************************************************************************)
(* Books that divide no party of pt, from step to step of a handler.       *)
(***************************************************************************)
Together(b, pt) ==
    \E q, g : Lists(b, q, g) /\ g = [n \in Matches |-> g[n]] /\ Whole(q, g, pt)

LEMMA TogetherBecomes ==
    ASSUME NEW b, NEW pt, Together(b, pt), Become(b)
    PROVE  Whole(queue', match', pt)
  <1>1. PICK q, g : Lists(b, q, g) /\ Whole(q, g, pt)
    BY DEF Together
  <1>2. queue' = q /\ match' = g
    BY <1>1, ListsFields
  <1> QED
    BY <1>1, <1>2

LEMMA TogetherIs ==
    ASSUME NEW b, NEW pt, Together(b, pt)
    PROVE  Whole(b.queue, b.match, pt)
  <1>1. PICK q, g : Lists(b, q, g) /\ Whole(q, g, pt)
    BY DEF Together
  <1>2. b.queue = q /\ b.match = g
    BY <1>1, ListsFields
  <1> QED
    BY <1>1, <1>2

LEMMA TogetherBooks ==
    ASSUME Inv, PartyInv, TeamInv
    PROVE  Together(books, fresh)
  <1>1. match = [n \in Matches |-> match[n]]
    <2>1. match \in [Matches -> Match]
      BY BooksFacts DEF Book
    <2> QED
      BY <2>1
  <1> QED
    BY <1>1, ListsBooks, FreshWhole DEF Together

LEMMA TogetherReserve ==
    ASSUME NEW b, NEW pt, Together(b, pt), NEW u, NEW us, NEW r, NEW custom
    PROVE  Together(Reserve(b, u, us, r, custom), pt)
  BY ListsReserve DEF Together

LEMMA TogetherRelease ==
    ASSUME NEW b, NEW pt, Together(b, pt), NEW ids
    PROVE  Together(Release(b, ids), pt)
  BY ListsRelease DEF Together

LEMMA TogetherPointTo ==
    ASSUME NEW b, NEW pt, Together(b, pt), NEW us, NEW m
    PROVE  Together(PointTo(b, us, m), pt)
  BY ListsPointTo DEF Together

LEMMA TogetherDrop ==
    ASSUME NEW b, NEW pt, Together(b, pt), NEW entries
    PROVE  Together(Drop(b, entries), pt)
  <1>1. PICK q, g : /\ Lists(b, q, g) /\ g = [n \in Matches |-> g[n]] /\ Whole(q, g, pt)
    BY DEF Together
  <1>2. PICK r : r = q \ entries
    OBVIOUS
  <1>3. Whole(r, g, pt)
    BY <1>1, <1>2, WholeFewer
  <1>4. Lists(Drop(b, entries), r, g)
    BY <1>1, <1>2, ListsDrop
  <1> QED
    BY <1>1, <1>3, <1>4 DEF Together

LEMMA TogetherAnswered ==
    ASSUME NEW b, NEW pt, Together(b, pt), NEW u
    PROVE  Together(Answered(b, u), pt)
  BY TogetherDrop DEF Answered

\* Searches join and leave the queue without their reservations.
LEMMA TogetherQueue ==
    ASSUME NEW b, NEW pt, Together(b, pt)
    PROVE  /\ \A e : SearchWhole(e, pt) => Together([b EXCEPT !.queue = @ \cup {e}], pt)
           /\ \A entries : Together([b EXCEPT !.queue = @ \ entries], pt)
  <1>1. PICK q, g : /\ Lists(b, q, g) /\ g = [n \in Matches |-> g[n]] /\ Whole(q, g, pt)
    BY DEF Together
  <1>2. b.queue = q
    BY <1>1, ListsFields
  <1>3. ASSUME NEW r, Whole(r, g, pt)
        PROVE  Together([b EXCEPT !.queue = r], pt)
    BY <1>1, <1>3, ListsQueue DEF Together
  <1>4. ASSUME NEW e, SearchWhole(e, pt)
        PROVE  Together([b EXCEPT !.queue = @ \cup {e}], pt)
    <2>1. PICK r : r = q \cup {e}
      OBVIOUS
    <2>2. Whole(r, g, pt)
      BY <1>1, <1>4, <2>1, WholeMore
    <2>3. Together([b EXCEPT !.queue = r], pt)
      BY <1>3, <2>2
    <2> QED
      BY <1>2, <2>1, <2>3
  <1>5. ASSUME NEW entries
        PROVE  Together([b EXCEPT !.queue = @ \ entries], pt)
    <2>1. PICK r : r = q \ entries
      OBVIOUS
    <2>2. Whole(r, g, pt)
      BY <1>1, <2>1, WholeFewer
    <2>3. Together([b EXCEPT !.queue = r], pt)
      BY <1>3, <2>2
    <2> QED
      BY <1>2, <2>1, <2>3
  <1> QED
    BY <1>4, <1>5

LEMMA TogetherMatch ==
    ASSUME NEW b, NEW pt, Together(b, pt), NEW m \in Matches, NEW row, TeamsFull(row),
           GameWhole(row, pt), NEW f, f = [b.match EXCEPT ![m] = row]
    PROVE  Together([b EXCEPT !.match = f], pt)
  <1>1. PICK q, g : /\ Lists(b, q, g) /\ g = [n \in Matches |-> g[n]] /\ Whole(q, g, pt)
    BY DEF Together
  <1>2. b.match = g
    BY <1>1, ListsFields
  <1>3. f = [g EXCEPT ![m] = row]
    BY <1>2
  <1>4. f = [n \in Matches |-> f[n]]
    BY <1>1, <1>3
  <1>5. Whole(q, f, pt)
    BY <1>1, <1>3, WholeMatch
  <1>6. Lists([b EXCEPT !.match = f], q, f)
    BY <1>1, ListsMatch
  <1> QED
    BY <1>4, <1>5, <1>6 DEF Together

LEMMA TogetherCreate ==
    ASSUME NEW b, NEW pt, Together(b, pt), NEW m \in Matches, NEW row, TeamsFull(row),
           GameWhole(row, pt)
    PROVE  Together(Create(b, m, row), pt)
  <1>1. PICK f : f = [b.match EXCEPT ![m] = row]
    OBVIOUS
  <1>2. PICK c : c = [b EXCEPT !.match = f]
    OBVIOUS
  <1>3. [b EXCEPT !.match[m] = row] = c
    BY <1>1, <1>2
  <1>4. Together(c, pt)
    BY <1>1, <1>2, TogetherMatch
  <1>5. Create(b, m, row) = PointTo(c, row.teams[0] \cup row.teams[1], m)
    BY <1>3 DEF Create
  <1> QED
    BY <1>4, <1>5, TogetherPointTo

\* A match that ends, or begins, keeps its teams.
LEMMA StageWhole ==
    ASSUME NEW g, NEW q, NEW pt, Whole(q, g, pt), NEW m \in Matches, g[m] \in Match, NEW s,
           s \in {"waiting", "live"} => g[m].stage \in {"waiting", "live"}
    PROVE  LET row == [g[m] EXCEPT !.stage = s] IN TeamsFull(row) /\ GameWhole(row, pt)
  <1> DEFINE row == [g[m] EXCEPT !.stage = s]
  <1>1. TeamsFull(g[m]) /\ GameWhole(g[m], pt)
    BY DEF Whole
  <1>2. /\ row.stage = s /\ row.teams = g[m].teams /\ row.size = g[m].size
        /\ row.ranked = g[m].ranked
    BY DEF Match
  <1> HIDE DEF row
  <1>3. TeamsFull(row)
    BY <1>1, <1>2 DEF TeamsFull
  <1>4. GameWhole(row, pt)
    BY <1>1, <1>2 DEF GameWhole
  <1> QED
    BY <1>3, <1>4 DEF row

LEMMA TogetherStage ==
    ASSUME NEW b \in Book, NEW pt, Together(b, pt), NEW m \in Matches, NEW s,
           s \in {"waiting", "live"} => b.match[m].stage \in {"waiting", "live"}
    PROVE  Together([b EXCEPT !.match[m].stage = s], pt)
  <1>1. PICK g, row : g = b.match /\ row = [g[m] EXCEPT !.stage = s]
    OBVIOUS
  <1>2. g[m] \in Match
    BY <1>1 DEF Book
  <1>3. Whole(b.queue, g, pt)
    BY <1>1, TogetherIs
  <1>4. TeamsFull(row) /\ GameWhole(row, pt)
    BY <1>1, <1>2, <1>3, StageWhole
  <1>5. PICK f : f = [g EXCEPT ![m] = row]
    OBVIOUS
  <1>6. Together([b EXCEPT !.match = f], pt)
    BY <1>1, <1>4, <1>5, TogetherMatch
  <1>7. [b EXCEPT !.match[m].stage = s] = [b EXCEPT !.match = f]
    BY <1>1, <1>5
  <1> QED
    BY <1>6, <1>7

LEMMA TogetherFinish ==
    ASSUME NEW b \in Book, NEW pt, Together(b, pt), NEW m \in Matches
    PROVE  Together(Finish(b, m), pt)
  <1>1. PICK c, s : s = "final" /\ c = [b EXCEPT !.match[m].stage = s]
    OBVIOUS
  <1>2. s \notin {"waiting", "live"}
    BY <1>1
  <1>3. Together(c, pt)
    BY <1>1, <1>2, TogetherStage
  <1>4. Together(Release(c, match[m].resvs), pt)
    BY <1>3, TogetherRelease
  <1>5. Finish(b, m) = PointTo(Release(c, match[m].resvs), MembersOf(m), m)
    BY <1>1 DEF Finish
  <1> QED
    BY <1>4, <1>5, TogetherPointTo

(***************************************************************************)
(* A pass over the queue.                                                  *)
(***************************************************************************)
\* The searches on one side of a pairing make a complete, undivided team.
LEMMA SideOfPairing ==
    ASSUME NEW b, Good(b), NEW g, NEW pt, Whole(b.queue, g, pt), NEW E, E \subseteq b.queue
    PROVE  /\ IsFiniteSet(Heads(E)) /\ HeadCount(E) = Cardinality(Heads(E))
           /\ (\A e \in E : e.size = 2)
                => \A p \in Parties : Undivided(Crew(pt, p), Heads(E))
  <1>1. IsFiniteSet(E)
    BY FS_Subset DEF Whole
  <1>2. SearchesAgree(b)
    BY DEF Good, BookInv, Settled
  <1>3. ASSUME NEW e \in E, NEW f \in E, e # f
        PROVE  e.members \cap f.members = {}
    <2>1. e \in b.queue /\ f \in b.queue /\ e.resv # f.resv
      BY <1>2, <1>3 DEF SearchesAgree
    <2>2. \A u \in e.members : b.holds[u] = e.resv
      BY <2>1, SearchersHaveNoLease
    <2>3. \A u \in f.members : b.holds[u] = f.resv
      BY <2>1, SearchersHaveNoLease
    <2> QED
      BY <2>1, <2>2, <2>3
  <1>4. Apart(E)
    BY <1>3 DEF Apart, Whole, SearchWhole
  <1>5. ASSUME \A e \in E : e.size = 2, NEW p \in Parties
        PROVE  Undivided(Crew(pt, p), Heads(E))
    <2>1. \A e \in E : Undivided(Crew(pt, p), e.members)
      BY <1>5 DEF Whole, SearchWhole
    <2> QED
      BY <2>1 DEF Undivided, Heads
  <1> QED
    BY <1>1, <1>4, <1>5, HeadCountIs

LEMMA PairingWhole ==
    ASSUME NEW b, Good(b), NEW g, NEW pt, Whole(b.queue, g, pt), NEW pair \in Pairings(b.queue)
    PROVE  TeamsFull(RankedMatch(pair)) /\ GameWhole(RankedMatch(pair), pt)
  <1>1. PICK A, B, row : A = pair[1] /\ B = pair[2] /\ row = RankedMatch(pair)
    OBVIOUS
  <1>2. A \subseteq b.queue /\ B \subseteq b.queue
    BY <1>1 DEF Pairings
  <1>3. PICK n \in Sizes : /\ \A e \in A \cup B : e.size = n
                           /\ HeadCount(A) = n /\ HeadCount(B) = n
    BY <1>1 DEF Pairings
  <1>4. /\ row.size = HeadCount(A)
        /\ row.teams[0] = Heads(A) /\ row.teams[1] = Heads(B)
    BY <1>1 DEF RankedMatch
  <1>5. n \in {1, 2} /\ n <= n
    <2>1. n \in {1, 2}
      BY LobbyAssumption
    <2> QED
      BY <2>1
  <1>6. /\ IsFiniteSet(Heads(A)) /\ HeadCount(A) = Cardinality(Heads(A))
        /\ (\A e \in A : e.size = 2) => \A p \in Parties : Undivided(Crew(pt, p), Heads(A))
    BY <1>2, SideOfPairing
  <1>7. /\ IsFiniteSet(Heads(B)) /\ HeadCount(B) = Cardinality(Heads(B))
        /\ (\A e \in B : e.size = 2) => \A p \in Parties : Undivided(Crew(pt, p), Heads(B))
    BY <1>2, SideOfPairing
  <1>8. TeamsFull(row)
    BY <1>3, <1>4, <1>5, <1>6, <1>7 DEF TeamsFull
  <1>9. GameWhole(row, pt)
    <2> SUFFICES ASSUME row.size = 2, NEW p \in Parties
                 PROVE  /\ Undivided(Crew(pt, p), row.teams[0])
                        /\ Undivided(Crew(pt, p), row.teams[1])
      BY DEF GameWhole
    <2>1. n = 2
      BY <1>3, <1>4
    <2>2. \A e \in A : e.size = 2
      BY <1>3, <2>1
    <2>3. \A e \in B : e.size = 2
      BY <1>3, <2>1
    <2> QED
      BY <1>4, <1>6, <1>7, <2>2, <2>3
  <1> QED
    BY <1>1, <1>8, <1>9

LEMMA TogetherMatchQueues ==
    ASSUME NEW b, Good(b), NEW pt, Together(b, pt), NEW d \in MatchQueues(b)
    PROVE  Together(d, pt)
  <1> DEFINE c == Drop(b, Stale(b.queue))
             Selected(pair) == pair[1] \cup pair[2]
  <1>1. Good(c)
    BY GoodDrop DEF Stale
  <1>2. Together(c, pt)
    BY TogetherDrop
  <1> HIDE DEF c
  <1>3. \/ d = c
        \/ \E pair \in Pairings(c.queue) :
              \/ \E e \in Selected(pair) : d = Drop(c, {e})
              \/ d = Drop(c, Selected(pair))
              \/ \E m \in Matches :
                    /\ IsNext(m)
                    /\ d = Create([c EXCEPT !.queue = @ \ Selected(pair)], m, RankedMatch(pair))
    BY DEF MatchQueues, c
  <1>4. ASSUME NEW pair \in Pairings(c.queue), NEW m \in Matches,
               d = Create([c EXCEPT !.queue = @ \ Selected(pair)], m, RankedMatch(pair))
        PROVE  Together(d, pt)
    <2>1. PICK row, k : /\ row = RankedMatch(pair)
                        /\ k = [c EXCEPT !.queue = @ \ Selected(pair)]
      OBVIOUS
    <2>2. Together(k, pt)
      <3>1. PICK entries : entries = Selected(pair)
        OBVIOUS
      <3>2. Together([c EXCEPT !.queue = @ \ entries], pt)
        BY <1>2, TogetherQueue
      <3> QED
        BY <2>1, <3>1, <3>2
    <2>3. Whole(c.queue, c.match, pt)
      BY <1>2, TogetherIs
    <2>4. TeamsFull(row) /\ GameWhole(row, pt)
      BY <1>1, <2>1, <2>3, PairingWhole
    <2>5. Together(Create(k, m, row), pt)
      BY <2>2, <2>4, TogetherCreate
    <2> QED
      BY <1>4, <2>1, <2>5
  <1>5. ASSUME NEW entries, d = Drop(c, entries)
        PROVE  Together(d, pt)
    BY <1>2, <1>5, TogetherDrop
  <1> QED
    BY <1>2, <1>3, <1>4, <1>5

(***************************************************************************)
(* The handlers.                                                           *)
(***************************************************************************)
LEMMA TeamBecomes ==
    ASSUME NEW b, Together(b, fresh), Become(b), Locked
    PROVE  TeamInv'
  <1>1. PICK pt : pt = fresh
    OBVIOUS
  <1>2. Whole(queue', match', pt)
    BY <1>1, TogetherBecomes
  <1>3. party' = pt
    BY <1>1 DEF Locked
  <1> QED
    BY <1>2, <1>3 DEF TeamInv

LEMMA TeamNothingBooked ==
    ASSUME PartyInv, TeamInv, UNCHANGED <<queue, match>>, Locked \/ UNCHANGED party
    PROVE  TeamInv'
  <1>1. CASE Locked
    <2>1. PICK pt : pt = fresh
      OBVIOUS
    <2>2. Whole(queue, match, pt)
      BY <2>1, FreshWhole
    <2>3. party' = pt /\ queue' = queue /\ match' = match
      BY <1>1, <2>1 DEF Locked
    <2> QED
      BY <2>2, <2>3 DEF TeamInv
  <1>2. CASE UNCHANGED party
    BY <1>2 DEF TeamInv
  <1> QED
    BY <1>1, <1>2

\* A search is for a whole party, or for one player alone.
LEMMA JoinQueueTeam ==
    ASSUME Inv, PartyInv, TeamInv, NEW u \in Players, NEW n \in Sizes, NEW r \in Resvs,
           JoinQueue(u, n, r)
    PROVE  TeamInv'
  <1>1. PICK e, us : e = Search(u, n, r) /\ us = Seekers(u, n)
    OBVIOUS
  <1>2. PICK pt : pt = fresh
    OBVIOUS
  <1>3. e.members = us /\ e.size = n
    BY <1>1 DEF Search
  <1>4. ASSUME n = 2
        PROVE  SearchWhole(e, pt)
    <2>1. us = Side(u)
      BY <1>1, <1>4 DEF Seekers
    <2>2. IsFiniteSet(us) /\ \A p \in Parties : Undivided(Crew(pt, p), us)
      BY <1>2, <2>1, SideWhole
    <2> QED
      BY <1>3, <2>2 DEF SearchWhole
  <1>5. ASSUME n # 2
        PROVE  SearchWhole(e, pt)
    <2>1. us = {u}
      BY <1>1, <1>5 DEF Seekers
    <2>2. IsFiniteSet({u})
      BY FS_Singleton
    <2> QED
      BY <1>3, <1>5, <2>1, <2>2 DEF SearchWhole
  <1>6. SearchWhole(e, pt)
    BY <1>4, <1>5
  <1>7. PICK b : b = PointTo(Reserve(books, u, us, r, FALSE), us, None)
    OBVIOUS
  <1>8. Together(b, pt)
    BY <1>2, <1>7, TogetherBooks, TogetherReserve, TogetherPointTo
  <1>9. PICK c : c = Joined(u, n, r)
    OBVIOUS
  <1>10. Together(c, pt)
    <2>1. Together([b EXCEPT !.queue = @ \cup {e}], pt)
      BY <1>6, <1>8, TogetherQueue
    <2> QED
      BY <1>1, <1>7, <1>9, <2>1 DEF Joined
  <1>11. PICK d \in MatchQueues(c) : Become(Answered(d, u))
    BY <1>9, JoinedIs
  <1>12. Good(c)
    BY <1>9, JoinedKeeps
  <1>13. Together(Answered(d, u), pt)
    BY <1>10, <1>11, <1>12, TogetherMatchQueues, TogetherAnswered
  <1>14. Locked
    BY DEF JoinQueue, Handled
  <1> QED
    BY <1>2, <1>11, <1>13, <1>14, TeamBecomes

LEMMA CreateCustomTeam ==
    ASSUME Inv, PartyInv, TeamInv, NEW u \in Players, NEW n \in Sizes, NEW m \in Matches,
           NEW r \in Resvs, CreateCustom(u, n, m, r)
    PROVE  TeamInv'
  <1>1. PICK us, pt : us = Side(u) /\ pt = fresh
    OBVIOUS
  <1>2. PICK row : row = [stage |-> "waiting", ranked |-> FALSE, size |-> n, resvs |-> {r},
                          teams |-> [t \in {0, 1} |-> IF t = 0 THEN us ELSE {}]]
    OBVIOUS
  <1>3. PICK b : b = Reserve(books, u, us, r, TRUE)
    OBVIOUS
  <1>4. /\ Cardinality(us) <= n /\ Become(Create(b, m, row)) /\ Locked
    BY <1>1, <1>2, <1>3 DEF CreateCustom, Handled
  <1>5. IsFiniteSet(us) /\ \A p \in Parties : Undivided(Crew(pt, p), us)
    BY <1>1, SideWhole
  <1>6. /\ row.ranked = FALSE /\ row.size = n
        /\ row.teams[0] = us /\ row.teams[1] = {}
    BY <1>2
  <1>7. IsFiniteSet({}) /\ Cardinality({}) = 0 /\ 0 <= n
    <2>1. n \in {1, 2}
      BY LobbyAssumption
    <2>2. 0 <= n
      BY <2>1
    <2> QED
      BY <2>2, FS_EmptySet
  <1>8. TeamsFull(row)
    BY <1>4, <1>5, <1>6, <1>7 DEF TeamsFull
  <1>9. GameWhole(row, pt)
    <2>1. \A p \in Parties : Undivided(Crew(pt, p), {})
      BY DEF Undivided
    <2> QED
      BY <1>5, <1>6, <2>1 DEF GameWhole
  <1>10. Together(b, pt)
    BY <1>1, <1>3, TogetherBooks, TogetherReserve
  <1>11. Together(Create(b, m, row), pt)
    BY <1>8, <1>9, <1>10, TogetherCreate
  <1> QED
    BY <1>1, <1>4, <1>11, TeamBecomes

LEMMA AcceptDuelTeam ==
    ASSUME Inv, PartyInv, TeamInv, NEW u \in Players, NEW v \in Players, NEW m \in Matches,
           NEW r \in Resvs, NEW t \in Resvs, AcceptDuel(u, v, m, r, t)
    PROVE  TeamInv'
  <1>1. PICK row : row = [stage |-> "live", ranked |-> FALSE, size |-> 1, resvs |-> {r, t},
                          teams |-> [k \in {0, 1} |-> IF k = 0 THEN {v} ELSE {u}]]
    OBVIOUS
  <1>2. PICK b : b = Reserve(Reserve(books, v, {v}, r, FALSE), u, {u}, t, FALSE)
    OBVIOUS
  <1>3. Become(Create(b, m, row)) /\ Locked
    BY <1>1, <1>2 DEF AcceptDuel, Handled
  <1>4. PICK pt : pt = fresh
    OBVIOUS
  <1>5. Together(b, pt)
    BY <1>2, <1>4, TogetherBooks, TogetherReserve
  <1>6. /\ row.ranked = FALSE /\ row.size = 1
        /\ row.teams[0] = {v} /\ row.teams[1] = {u}
    BY <1>1
  <1>7. IsFiniteSet({v}) /\ Cardinality({v}) = 1 /\ IsFiniteSet({u}) /\ Cardinality({u}) = 1
    BY FS_Singleton
  <1>8. TeamsFull(row)
    <2>1. 1 <= 1
      OBVIOUS
    <2> QED
      BY <1>6, <1>7, <2>1 DEF TeamsFull
  <1>9. GameWhole(row, pt)
    BY <1>6 DEF GameWhole
  <1>10. Together(Create(b, m, row), pt)
    BY <1>5, <1>8, <1>9, TogetherCreate
  <1> QED
    BY <1>3, <1>4, <1>10, TeamBecomes

\* A side that takes its seats in a team leaves no party divided.
LEMMA ReseatedWhole ==
    ASSUME PartyInv, NEW q, Whole(q, match, fresh), NEW m \in Matches, match[m] \in Match,
           ~match[m].ranked, NEW t \in {0, 1}, NEW u \in Players, Seats(m, t, Side(u)),
           match[m].stage \in {"waiting", "live"}, NEW rs
    PROVE  /\ TeamsFull(Reseated(m, t, Side(u), rs))
           /\ GameWhole(Reseated(m, t, Side(u), rs), fresh)
  <1>1. PICK us, pt, old, row : /\ us = Side(u) /\ pt = fresh /\ old = match[m]
                                /\ row = Reseated(m, t, us, rs)
    OBVIOUS
  <1>2. old \in Match /\ TeamsFull(old) /\ GameWhole(old, pt)
    BY <1>1 DEF Whole
  <1>3. IsFiniteSet(us) /\ \A p \in Parties : Undivided(Crew(pt, p), us)
    BY <1>1, SideWhole
  <1>4. /\ row.size = old.size /\ row.ranked = FALSE /\ row.stage \in {"waiting", "live"}
        /\ row.teams = Seated(m, t, us)
    BY <1>1, <1>2 DEF Reseated, Match
  <1>5. \A k \in {0, 1} : row.teams[k] = IF k = t THEN old.teams[k] \cup us
                                                   ELSE old.teams[k] \ us
    BY <1>1, <1>4 DEF Seated
  <1>6. \A k \in {0, 1} : IsFiniteSet(old.teams[k]) /\ Cardinality(old.teams[k]) <= old.size
    BY <1>2 DEF TeamsFull
  <1>7. ASSUME NEW k \in {0, 1}
        PROVE  IsFiniteSet(row.teams[k]) /\ Cardinality(row.teams[k]) <= row.size
    <2>1. PICK T, D : T = old.teams[k] /\ D = T \ us
      OBVIOUS
    <2>2. IsFiniteSet(T) /\ IsFiniteSet(D) /\ Cardinality(D) <= Cardinality(T)
          /\ Cardinality(T) \in Nat /\ Cardinality(D) \in Nat /\ Cardinality(us) \in Nat
      BY <1>3, <1>6, <2>1, FS_Subset, FS_CardinalityType
    <2>3. old.size \in Nat
      BY <1>2 DEF Match
    <2>4. CASE k = t
      <3>1. Cardinality(D) + Cardinality(us) <= old.size
        BY <1>1, <2>1, <2>4 DEF Seats
      <3>2. IsFiniteSet(D \cup us)
            /\ Cardinality(D \cup us)
                 = Cardinality(D) + Cardinality(us) - Cardinality(D \cap us)
        BY <1>3, <2>2, FS_Union
      <3>3. D \cap us = {} /\ D \cup us = T \cup us
        BY <2>1
      <3>4. Cardinality(D \cap us) = 0
        BY <3>3, FS_EmptySet
      <3>5. Cardinality(D \cup us) <= old.size
        BY <2>2, <3>1, <3>2, <3>4
      <3>6. row.teams[k] = D \cup us
        BY <1>5, <2>1, <2>4, <3>3
      <3> QED
        BY <1>4, <3>2, <3>5, <3>6
    <2>5. CASE k # t
      <3>1. row.teams[k] = D
        BY <1>5, <2>1, <2>5
      <3>2. Cardinality(T) <= old.size
        BY <1>6, <2>1
      <3>3. Cardinality(D) <= old.size
        BY <2>2, <2>3, <3>2
      <3> QED
        BY <1>4, <2>2, <3>1, <3>3
    <2> QED
      BY <2>4, <2>5
  <1>8. TeamsFull(row)
    BY <1>4, <1>7 DEF TeamsFull
  <1>9. ASSUME row.size = 2, NEW p \in Parties, NEW k \in {0, 1}
        PROVE  Undivided(Crew(pt, p), row.teams[k])
    <2>1. Undivided(Crew(pt, p), old.teams[k])
      BY <1>1, <1>2, <1>4, <1>9 DEF GameWhole
    <2>2. Undivided(Crew(pt, p), us)
      BY <1>3
    <2> QED
      BY <1>5, <2>1, <2>2 DEF Undivided
  <1>10. GameWhole(row, pt)
    BY <1>9 DEF GameWhole
  <1> QED
    BY <1>1, <1>8, <1>10

LEMMA JoinCustomTeam ==
    ASSUME Inv, PartyInv, TeamInv, NEW u \in Players, NEW m \in Matches, NEW t \in {0, 1},
           NEW r \in Resvs, JoinCustom(u, m, t, r)
    PROVE  TeamInv'
  <1>1. PICK us, pt : us = Side(u) /\ pt = fresh
    OBVIOUS
  <1>2. PICK b, rs : b = Reserve(books, u, us, r, TRUE) /\ rs = match[m].resvs \cup {r}
    OBVIOUS
  <1>3. PICK row, g : row = Reseated(m, t, us, rs) /\ g = [match EXCEPT ![m] = row]
    OBVIOUS
  <1>4. PICK d : d = [b EXCEPT !.match[m].teams = Seated(m, t, us), !.match[m].resvs = @ \cup {r}]
    OBVIOUS
  <1>5. /\ Become(PointTo(d, us, m)) /\ Locked
        /\ match[m].stage = "waiting" /\ ~match[m].ranked /\ Seats(m, t, Side(u))
    BY <1>1, <1>2, <1>4 DEF JoinCustom, Joinable, Handled
  <1>6. Together(b, pt)
    BY <1>1, <1>2, TogetherBooks, TogetherReserve
  <1>7. b.match = match
    <2>1. Lists(b, queue, match)
      BY <1>2, ListsBooks, ListsReserve
    <2> QED
      BY <2>1, ListsFields
  <1>8. match \in [Matches -> Match] /\ match[m] \in Match
    BY BooksFacts DEF Book
  <1>9. Whole(queue, match, fresh)
    BY FreshWhole
  <1>10. TeamsFull(row) /\ GameWhole(row, pt)
    <2>1. /\ TeamsFull(Reseated(m, t, Side(u), rs))
          /\ GameWhole(Reseated(m, t, Side(u), rs), fresh)
      BY <1>5, <1>8, <1>9, ReseatedWhole
    <2> QED
      BY <1>1, <1>3, <2>1
  <1>11. d = [b EXCEPT !.match = g]
    <2>1. [b.match EXCEPT ![m].teams = Seated(m, t, us), ![m].resvs = @ \cup {r}] = g
      BY <1>2, <1>3, <1>7, <1>8 DEF Match, Reseated
    <2> QED
      BY <1>4, <2>1
  <1>12. Together([b EXCEPT !.match = g], pt)
    BY <1>3, <1>6, <1>7, <1>10, TogetherMatch
  <1>13. Together(PointTo(d, us, m), pt)
    BY <1>11, <1>12, TogetherPointTo
  <1> QED
    BY <1>1, <1>5, <1>13, TeamBecomes

LEMMA SwitchTeamTeam ==
    ASSUME Inv, PartyInv, TeamInv, NEW u \in Players, NEW m \in Matches, NEW t \in {0, 1},
           SwitchTeam(u, m, t)
    PROVE  TeamInv'
  <1>1. PICK us, pt : us = Side(u) /\ pt = fresh
    OBVIOUS
  <1>2. PICK b, rs : b = books /\ rs = match[m].resvs
    OBVIOUS
  <1>3. PICK row, g : row = Reseated(m, t, us, rs) /\ g = [match EXCEPT ![m] = row]
    OBVIOUS
  <1>4. PICK d : d = [b EXCEPT !.match[m].teams = Seated(m, t, us)]
    OBVIOUS
  <1>5. /\ Become(PointTo(d, us, m)) /\ Locked
        /\ match[m].stage = "waiting" /\ ~match[m].ranked /\ Seats(m, t, Side(u))
    BY <1>1, <1>2, <1>4 DEF SwitchTeam, Joinable, Handled
  <1>6. Together(b, pt) /\ b.match = match
    BY <1>1, <1>2, TogetherBooks, BooksFacts
  <1>7. match \in [Matches -> Match] /\ match[m] \in Match
    BY BooksFacts DEF Book
  <1>8. Whole(queue, match, fresh)
    BY FreshWhole
  <1>9. TeamsFull(row) /\ GameWhole(row, pt)
    <2>1. /\ TeamsFull(Reseated(m, t, Side(u), rs))
          /\ GameWhole(Reseated(m, t, Side(u), rs), fresh)
      BY <1>5, <1>7, <1>8, ReseatedWhole
    <2> QED
      BY <1>1, <1>3, <2>1
  <1>10. d = [b EXCEPT !.match = g]
    <2>1. [b.match EXCEPT ![m].teams = Seated(m, t, us)] = g
      BY <1>2, <1>3, <1>6, <1>7 DEF Match, Reseated
    <2> QED
      BY <1>4, <2>1
  <1>11. Together([b EXCEPT !.match = g], pt)
    BY <1>3, <1>6, <1>9, TogetherMatch
  <1>12. Together(PointTo(d, us, m), pt)
    BY <1>10, <1>11, TogetherPointTo
  <1> QED
    BY <1>1, <1>5, <1>12, TeamBecomes

\* A match that begins, is left, or is over.
LEMMA MatchActsTeam ==
    ASSUME Inv, PartyInv, TeamInv, NEW u \in Players, MatchActs(u)
    PROVE  TeamInv'
  <1>1. PICK b, pt : b = books /\ pt = fresh
    OBVIOUS
  <1>2. b \in Book /\ b.match = match /\ Together(b, pt)
    BY <1>1, BooksFacts, TogetherBooks
  <1>3. ASSUME NEW m \in Matches, BeginMatch(u, m)
        PROVE  TeamInv'
    <2>1. PICK s : s = "live"
      OBVIOUS
    <2>2. /\ match[m].stage = "waiting" /\ Locked
          /\ Become(Answered([b EXCEPT !.match[m].stage = s], u))
      BY <1>1, <1>3, <2>1 DEF BeginMatch, Handled
    <2>3. Together([b EXCEPT !.match[m].stage = s], pt)
      BY <1>2, <2>2, TogetherStage
    <2>4. Together(Answered([b EXCEPT !.match[m].stage = s], u), pt)
      BY <2>3, TogetherAnswered
    <2> QED
      BY <1>1, <2>2, <2>4, TeamBecomes
  <1>4. ASSUME NEW m \in Matches, LeaveMatch(u, m)
        PROVE  TeamInv'
    <2>1. Become(Answered(Finish(b, m), u)) /\ Locked
      BY <1>1, <1>4 DEF LeaveMatch, Handled
    <2>2. Together(Answered(Finish(b, m), u), pt)
      BY <1>2, TogetherFinish, TogetherAnswered
    <2> QED
      BY <1>1, <2>1, <2>2, TeamBecomes
  <1>5. ASSUME NEW m \in Matches, LeaveResults(u, m)
        PROVE  TeamInv'
    <2>1. Become(Answered(PointTo(b, {u}, None), u)) /\ Locked
      BY <1>1, <1>5 DEF LeaveResults, Handled
    <2>2. Together(Answered(PointTo(b, {u}, None), u), pt)
      BY <1>2, TogetherPointTo, TogetherAnswered
    <2> QED
      BY <1>1, <2>1, <2>2, TeamBecomes
  <1> QED
    BY <1>3, <1>4, <1>5 DEF MatchActs

LEMMA QueueActsTeam ==
    ASSUME Inv, PartyInv, TeamInv, NEW u \in Players, QueueActs(u)
    PROVE  TeamInv'
  <1>1. PICK b, pt : b = books /\ pt = fresh
    OBVIOUS
  <1>2. b \in Book /\ b.match = match /\ Together(b, pt)
    BY <1>1, BooksFacts, TogetherBooks
  <1>3. CASE Poll(u)
    <2>1. Become(Answered(b, u)) /\ Locked
      BY <1>1, <1>3 DEF Poll, Handled
    <2>2. Together(Answered(b, u), pt)
      BY <1>2, TogetherAnswered
    <2> QED
      BY <1>1, <2>1, <2>2, TeamBecomes
  <1>4. CASE LeaveQueue(u)
    <2>1. PICK mine : mine = {e \in queue : e.resv = holds[u]}
      OBVIOUS
    <2>2. Locked /\ \/ Become(Drop(b, mine))
                    \/ matchOf[u] # None /\ Become(Finish(b, matchOf[u]))
      BY <1>1, <1>4, <2>1 DEF LeaveQueue, Handled
    <2>3. CASE Become(Drop(b, mine))
      BY <1>1, <1>2, <2>2, <2>3, TogetherDrop, TeamBecomes
    <2>4. CASE matchOf[u] # None /\ Become(Finish(b, matchOf[u]))
      <3>1. PICK m : m = matchOf[u]
        OBVIOUS
      <3>2. m \in Matches
        BY <2>4, <3>1, BooksFacts, RowFacts
      <3>3. Together(Finish(b, m), pt)
        BY <1>2, <3>2, TogetherFinish
      <3> QED
        BY <1>1, <2>2, <2>4, <3>1, <3>3, TeamBecomes
    <2> QED
      BY <2>2, <2>3, <2>4
  <1> QED
    BY <1>3, <1>4, JoinQueueTeam DEF QueueActs

\* A player who enters another room has left the match, or a reservation.
LEMMA ClaimRoomTeam ==
    ASSUME Inv, PartyInv, TeamInv, NEW u \in Players, NEW room, ClaimRoom(u, room)
    PROVE  TeamInv'
  <1>1. PICK b, pt, d, m : b = books /\ pt = fresh /\ d = Departed(u, room) /\ m = matchOf[u]
    OBVIOUS
  <1>2. b \in Book /\ b.match = match /\ Together(b, pt)
    BY <1>1, BooksFacts, TogetherBooks
  <1>3. Become(d) /\ Locked
    BY <1>1 DEF ClaimRoom
  <1>4. \/ d = b
        \/ d = Release(b, {holds[u]})
        \/ m # None /\ d = Finish(b, m)
    BY <1>1 DEF Departed
  <1>5. m \in Matches \cup {None}
    BY <1>1, BooksFacts, RowFacts
  <1>6. Together(d, pt)
    BY <1>2, <1>4, <1>5, TogetherRelease, TogetherFinish
  <1> QED
    BY <1>1, <1>3, <1>6, TeamBecomes

LEMMA SearchGrowsStaleTeam ==
    ASSUME Inv, PartyInv, TeamInv, NEW e \in queue, SearchGrowsStale(e)
    PROVE  TeamInv'
  <1>1. PICK late : late = [e EXCEPT !.late = TRUE]
    OBVIOUS
  <1>2. e \in Entry
    BY BooksFacts DEF Book
  <1>3. late.members = e.members /\ late.size = e.size
    BY <1>1, <1>2 DEF Entry
  <1>4. SearchWhole(late, party)
    BY <1>3 DEF TeamInv, Whole, SearchWhole
  <1>5. PICK pt, q : pt = party /\ q = queue \ {e}
    OBVIOUS
  <1>6. Whole(q, match, pt)
    BY <1>5, WholeFewer DEF TeamInv
  <1>7. Whole(q \cup {late}, match, pt)
    BY <1>4, <1>5, <1>6, WholeMore
  <1>8. queue' = q \cup {late} /\ match' = match /\ party' = pt
    BY <1>1, <1>5 DEF SearchGrowsStale, partyVars
  <1> QED
    BY <1>7, <1>8 DEF TeamInv

\* Who has no reservation is in no search and in no running match.
LEMMA IdleApart ==
    ASSUME Inv, NEW u \in Players, holds[u] = None
    PROVE  /\ \A e \in queue : u \notin e.members
           /\ \A m \in Matches : Running(m) =>
                  u \notin match[m].teams[0] /\ u \notin match[m].teams[1]
  <1>1. ASSUME NEW e \in queue, u \in e.members
        PROVE  FALSE
    <2>1. PICK b : b = books
      OBVIOUS
    <2>2. Good(b) /\ e \in b.queue /\ b.holds = holds /\ b \in Book
      BY <1>1, <2>1, BooksFacts DEF Inv
    <2>3. b.holds[u] = e.resv /\ e.resv \in Resvs
      BY <1>1, <2>2, SearchersHaveNoLease, RowFacts
    <2> QED
      BY <2>2, <2>3, NoneIsNothing
  <1>2. ASSUME NEW m \in Matches, Running(m), u \in MembersOf(m)
        PROVE  FALSE
    <2>1. holds[u] \in match[m].resvs /\ match[m].resvs \subseteq Resvs
      BY <1>2, GameFacts, BooksFacts DEF GameAgrees
    <2> QED
      BY <2>1, NoneIsNothing
  <1> QED
    BY <1>1, <1>2 DEF MembersOf

\* Parties lose members, or are made of players who do nothing else.
LEMMA WholeMoved ==
    ASSUME Inv, NEW pt, Whole(queue, match, pt), NEW qt,
           \A p \in Parties : \/ Crew(qt, p) \subseteq Crew(pt, p)
                              \/ \A u \in Crew(qt, p) : u \in Players /\ holds[u] = None
    PROVE  Whole(queue, match, qt)
  <1>1. ASSUME NEW team, NEW p \in Parties, Undivided(Crew(pt, p), team),
               \A u \in Players : holds[u] = None => u \notin team
        PROVE  Undivided(Crew(qt, p), team)
    BY <1>1 DEF Undivided
  <1>2. ASSUME NEW e \in queue
        PROVE  SearchWhole(e, qt)
    <2>1. \A u \in Players : holds[u] = None => u \notin e.members
      BY IdleApart
    <2>2. SearchWhole(e, pt)
      BY DEF Whole
    <2> QED
      BY <1>1, <2>1, <2>2 DEF SearchWhole
  <1>3. ASSUME NEW m \in Matches
        PROVE  GameWhole(match[m], qt)
    <2> SUFFICES ASSUME match[m].stage \in {"waiting", "live"}, match[m].size = 2,
                        NEW p \in Parties, NEW t \in {0, 1}
                 PROVE  Undivided(Crew(qt, p), match[m].teams[t])
      BY DEF GameWhole
    <2>1. Running(m)
      BY DEF Running
    <2>2. \A u \in Players : holds[u] = None => u \notin match[m].teams[t]
      BY <2>1, IdleApart
    <2>3. Undivided(Crew(pt, p), match[m].teams[t])
      BY DEF Whole, GameWhole
    <2> QED
      BY <1>1, <2>2, <2>3
  <1> QED
    BY <1>2, <1>3 DEF Whole

LEMMA PartyActsTeam ==
    ASSUME Inv, PartyInv, TeamInv, NEW u \in Players, PartyActs(u)
    PROVE  TeamInv'
  <1>1. PICK pt, qt : pt = fresh /\ qt = party'
    OBVIOUS
  <1>2. Whole(queue, match, pt)
    BY <1>1, FreshWhole
  <1>3. queue' = queue /\ match' = match
    BY DEF PartyActs, PartyLeave, PartyCreate, PartyAccept, bookVars
  <1>4. \A p \in Parties : Crew(pt, p) \subseteq Players
    BY <1>1, FreshLinked, CrewPlays DEF Linked
  <1>5. ASSUME \A p \in Parties : \/ Crew(qt, p) \subseteq Crew(pt, p)
                                  \/ \A v \in Crew(qt, p) : v \in Players /\ holds[v] = None
        PROVE  TeamInv'
    <2>1. Whole(queue, match, qt)
      BY <1>2, <1>5, WholeMoved
    <2> QED
      BY <1>1, <1>3, <2>1 DEF TeamInv
  <1>6. CASE PartyLeave(u)
    <2>1. qt = WithoutUser(u)
      BY <1>1, <1>6 DEF PartyLeave
    <2>2. \A p \in Parties : Crew(qt, p) \subseteq Crew(pt, p)
      BY <1>1, <2>1, LinkedWithout
    <2> QED
      BY <1>5, <2>2
  <1>7. ASSUME NEW p \in Parties, PartyCreate(u, p)
        PROVE  TeamInv'
    <2>1. Crew(qt, p) = {u} /\ \A r \in Parties \ {p} : qt[r] = pt[r]
      BY <1>1, <1>7, PartyCreateStep
    <2>2. holds[u] = None
      BY <1>7 DEF PartyCreate
    <2>3. \A r \in Parties \ {p} : Crew(qt, r) = Crew(pt, r)
      BY <2>1 DEF Crew
    <2> QED
      BY <1>5, <2>1, <2>2, <2>3
  <1>8. ASSUME NEW p \in Parties, PartyAccept(u, p)
        PROVE  TeamInv'
    <2>1. /\ Crew(qt, p) = Crew(pt, p) \cup {u}
          /\ \A r \in Parties \ {p} : Crew(qt, r) = Crew(pt, r) \ {u}
      BY <1>1, <1>8, PartyAcceptStep
    <2>2. holds[u] = None /\ \A v \in Crew(pt, p) : holds[v] = None
      BY <1>1, <1>8 DEF PartyAccept, MayMove, Idle, Crew
    <2> QED
      BY <1>4, <1>5, <2>1, <2>2
  <1> QED
    BY <1>6, <1>7, <1>8 DEF PartyActs

(***************************************************************************)
(* The specification.                                                      *)
(***************************************************************************)
LEMMA TeamInit == Init => TeamInv
  <1> SUFFICES ASSUME Init
               PROVE  TeamInv
    OBVIOUS
  <1>1. queue = {} /\ \A m \in Matches : match[m] = NoMatch
    BY DEF Init
  <1>2. /\ NoMatch.stage = "none" /\ NoMatch.ranked = FALSE /\ NoMatch.size = 1
        /\ NoMatch.teams[0] = {} /\ NoMatch.teams[1] = {}
    BY DEF NoMatch
  <1>3. IsFiniteSet({}) /\ Cardinality({}) = 0
    BY FS_EmptySet
  <1>4. TeamsFull(NoMatch)
    <2>1. 0 <= 1
      OBVIOUS
    <2> QED
      BY <1>2, <1>3, <2>1 DEF TeamsFull
  <1>5. GameWhole(NoMatch, party)
    BY <1>2 DEF GameWhole
  <1> QED
    BY <1>1, <1>3, <1>4, <1>5 DEF TeamInv, Whole

LEMMA TeamStep ==
    ASSUME Inv, PartyInv, TeamInv, [Next]_vars
    PROVE  TeamInv'
  <1>1. PICK b, pt : b = books /\ pt = fresh
    OBVIOUS
  <1>2. b \in Book /\ Together(b, pt)
    BY <1>1, BooksFacts, TogetherBooks
  <1>3. ASSUME NEW u \in Players, CustomActs(u)
        PROVE  TeamInv'
    BY <1>3, CreateCustomTeam, SwitchTeamTeam, JoinCustomTeam, AcceptDuelTeam DEF CustomActs
  <1>4. ASSUME NEW u \in Players, RoomActs(u)
        PROVE  TeamInv'
    <2>1. CASE ReleaseRoom(u)
      BY <2>1, TeamNothingBooked DEF ReleaseRoom, bookVars
    <2> QED
      BY <1>4, <2>1, ClaimRoomTeam DEF RoomActs
  <1>5. ASSUME Tick
        PROVE  TeamInv'
    <2>1. PICK d \in MatchQueues(b) : Become(d)
      BY <1>1, <1>5 DEF Tick
    <2>2. Locked
      BY <1>5 DEF Tick
    <2>3. Good(b)
      BY <1>1 DEF Inv
    <2>4. Together(d, pt)
      BY <1>2, <2>1, <2>3, TogetherMatchQueues
    <2> QED
      BY <1>1, <2>1, <2>2, <2>4, TeamBecomes
  <1>6. ASSUME NEW m \in Matches, TickEndsMatch(m)
        PROVE  TeamInv'
    <2>1. Become(Finish(b, m)) /\ Locked
      BY <1>1, <1>6 DEF TickEndsMatch
    <2>2. Together(Finish(b, m), pt)
      BY <1>2, TogetherFinish
    <2> QED
      BY <1>1, <2>1, <2>2, TeamBecomes
  <1>7. ASSUME Time
        PROVE  TeamInv'
    <2>1. CASE UNCHANGED <<partyVars, bookVars>>
      BY <2>1, TeamNothingBooked DEF partyVars, bookVars
    <2>2. ASSUME NEW e \in queue, SearchGrowsStale(e)
          PROVE  TeamInv'
      BY <2>2, SearchGrowsStaleTeam
    <2> QED
      BY <1>7, <2>1, <2>2 DEF Time, GameCloses, LeaseExpires, GetsRestricted
  <1>8. CASE UNCHANGED vars
    BY <1>8, TeamNothingBooked DEF vars, partyVars, bookVars
  <1> QED
    BY <1>3, <1>4, <1>5, <1>6, <1>7, <1>8, PartyActsTeam, QueueActsTeam, MatchActsTeam DEF Next

LEMMA AlwaysTeamInv ==
    ASSUME Orderly
    PROVE  Spec => []TeamInv
  <1>1. Inv /\ PartyInv /\ TeamInv /\ [Next]_vars => TeamInv'
    BY TeamStep
  <1> QED
    BY <1>1, TeamInit, AlwaysInv, AlwaysPartyInv, PTL DEF Spec

\* Matched teams are complete, no team is larger than its format, and no party is
\* divided between two teams, or between a team and the queue, whoever joins,
\* leaves, switches sides or stops answering (match_queues, create_custom,
\* join_custom, expire_stale_parties).
THEOREM TeamsAlwaysWhole ==
    ASSUME Orderly
    PROVE  Spec => []TeamsAreWhole
  <1>1. ASSUME TeamInv
        PROVE  TeamsAreWhole
    <2>1. TeamsFit
      BY <1>1 DEF TeamInv, Whole, TeamsFull, TeamsFit
    <2>2. PartiesStayTogether
      <3> SUFFICES ASSUME NEW p \in Parties
                   PROVE  /\ \A e \in queue : e.size = 2 => Undivided(Crew(party, p), e.members)
                          /\ \A m \in Matches : Running(m) /\ match[m].size = 2 =>
                                \A t \in {0, 1} : Undivided(Crew(party, p), match[m].teams[t])
        BY DEF PartiesStayTogether, Undivided, Crew
      <3> QED
        BY <1>1 DEF TeamInv, Whole, SearchWhole, GameWhole, Running
    <2> QED
      BY <2>1, <2>2 DEF TeamsAreWhole
  <1> QED
    BY <1>1, AlwaysTeamInv, PTL

\* Only the heartbeat of a player adds to the players seen.
SeenInv == seen \subseteq Players

LEMMA SeenStep ==
    ASSUME SeenInv, [Next]_vars
    PROVE  SeenInv'
  <1>1. ASSUME NEW u \in Players, PartyActs(u)
        PROVE  seen' = seen
    BY <1>1 DEF PartyActs, PartyLeave, PartyCreate, PartyAccept
  <1>2. ASSUME NEW u \in Players, QueueActs(u)
        PROVE  seen' \subseteq seen \cup {u}
    BY <1>2 DEF QueueActs, Poll, LeaveQueue, JoinQueue
  <1>3. ASSUME NEW u \in Players, CustomActs(u)
        PROVE  seen' = seen
    BY <1>3 DEF CustomActs, CreateCustom, SwitchTeam, JoinCustom, AcceptDuel
  <1>4. ASSUME NEW u \in Players, MatchActs(u)
        PROVE  seen' = seen
    BY <1>4 DEF MatchActs, BeginMatch, LeaveMatch, LeaveResults
  <1>5. ASSUME NEW u \in Players, RoomActs(u)
        PROVE  seen' = seen
    BY <1>5 DEF RoomActs, ClaimRoom, ReleaseRoom
  <1>6. ASSUME Tick \/ \E m \in Matches : TickEndsMatch(m)
        PROVE  seen' = seen
    BY <1>6 DEF Tick, TickEndsMatch
  <1>7. ASSUME Time
        PROVE  seen' \subseteq seen
    BY <1>7 DEF Time, GameCloses, LeaseExpires, SearchGrowsStale, GetsRestricted
  <1>8. ASSUME UNCHANGED vars
        PROVE  seen' = seen
    BY <1>8 DEF vars
  <1> QED
    BY <1>1, <1>2, <1>3, <1>4, <1>5, <1>6, <1>7, <1>8 DEF Next, SeenInv

\* Every table refers to players, parties, reservations and rooms that exist: no
\* handler leaves a pointer to a row that is not there.
THEOREM LobbyTypeTheorem ==
    ASSUME Orderly
    PROVE  Spec => []TypeOK
  <1>1. ASSUME Inv, PartyInv, SeenInv
        PROVE  TypeOK
    <2>1. /\ holds \in [Players -> Resvs \cup {None}] /\ matchOf \in [Players -> Matches \cup {None}]
          /\ resv \subseteq Row /\ queue \subseteq Entry /\ match \in [Matches -> Match]
      BY <1>1, BooksFacts DEF Book
    <2>2. usable \subseteq Players /\ lease \in [Players -> Rooms \cup Matches \cup {None}]
      BY <1>1 DEF Inv, LeaseType
    <2>3. /\ partyOf \in [Players -> Parties \cup {None}]
          /\ \A p \in Parties : party[p] \in PartyRow
      BY <1>1 DEF PartyInv, Linked
    <2>4. \A p \in Parties : /\ party[p].members \in Seq(Players)
                             /\ party[p].captain \in Players \cup {Nobody}
      BY <2>3 DEF PartyRow
    <2> QED
      BY <1>1, <2>1, <2>2, <2>3, <2>4 DEF TypeOK, SeenInv
  <1>2. Init => SeenInv
    BY DEF Init, SeenInv
  <1>3. SeenInv /\ [Next]_vars => SeenInv'
    BY SeenStep
  <1>4. Spec => []SeenInv
    BY <1>2, <1>3, PTL DEF Spec
  <1> QED
    BY <1>1, <1>4, AlwaysInv, AlwaysPartyInv, PTL

=============================================================================
