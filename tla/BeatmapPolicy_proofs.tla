------------------------ MODULE BeatmapPolicy_proofs ------------------------
(***************************************************************************)
(* Proofs about BeatmapPolicy, for every set of difficulties, revisions    *)
(* and statuses that its assumption allows.                                *)
(***************************************************************************)
EXTENDS BeatmapPolicy, WellFoundedInduction, TLAPS

(***************************************************************************)
(* The inductive invariant.                                                *)
(***************************************************************************)
Sums     == Revisions \cup {0}
Statuses == UpStatuses \cup {"none", "Graveyard", "Ranked", "Loved"}
Rows     == [md5 : Sums, status : Statuses, deleted : BOOLEAN]
Snaps    == [time : 0 .. MaxUp, status : UpStatuses, maps : [Maps -> Sums]]
MapPols  == [active : BOOLEAN, force : BOOLEAN, blocks : BOOLEAN, sum : Sums, status : Statuses]
SetPols  == [exists : BOOLEAN, active : BOOLEAN, force : BOOLEAN, status : Statuses,
             manifest : [Maps -> Sums]]
Types    == {"added", "updated", "status", "deleted"}
Syncs    == [pc : {"idle", "set", "maps", "gone"}, snap : Snaps \cup {NoSnap},
             todo : SUBSET [map : Maps, type : Types], changed : BOOLEAN, import : BOOLEAN]

\* The upstream server and what was fetched from it.
UpInv ==
    /\ up.time \in 0 .. ups /\ ups \in 0 .. MaxUp
    /\ up.status \in UpStatuses /\ up.maps \in [Maps -> Sums]
    /\ inbox \in Snaps \cup {NoSnap}

\* The rows, and when there are any.
RowInv ==
    /\ db \in [Maps -> Rows] /\ \A m \in Maps : db[m].md5 = 0 => db[m] = Absent
    /\ derived \in [Maps -> Sums]
    /\ dbSet = NoSet \/ dbSet \in [time : 0 .. MaxUp, status : UpStatuses \cup {"Graveyard"}]
    /\ dbSet = NoSet => tracker = NoTracker /\ \A m \in Maps : db[m] = Absent

PolicyInv ==
    /\ admin \in Nat
    /\ setPol \in SetPols /\ mapPol \in [Maps -> MapPols] /\ events \subseteq {"map", "set"} \X Maps

\* A sync that holds the lock has a snapshot, and changes rows that exist.
HolderInv ==
    /\ sync \in Syncs
    /\ sync.pc # "idle" => sync.snap \in Snaps
    /\ sync.pc \in {"maps", "gone"} => dbSet # NoSet

TypeInv == UpInv /\ RowInv /\ PolicyInv /\ HolderInv

\* What a sync has left to do agrees with the rows, each difficulty once.
TodoInv ==
    \A c \in sync.todo :
        /\ c.type \in {"added", "updated"} =>
              /\ Present(sync.snap, c.map)
              /\ \/ ~Alive(c.map) \/ db[c.map].md5 # sync.snap.maps[c.map]
                 \/ db[c.map].status = sync.snap.status
        /\ c.type = "status" => Alive(c.map) /\ db[c.map].md5 = sync.snap.maps[c.map]
        /\ sync.pc = "gone" => c.type = "deleted"
        /\ \A d \in sync.todo : d.map = c.map => d = c

\* Decisions that are pinned to a revision are active only for the revision in
\* the database; the others rank nothing.
MapPinned(p, m) ==
    /\ p.active /\ ~p.blocks =>
          IF p.force THEN p.status = "Graveyard" ELSE Alive(m) /\ p.sum = db[m].md5
    /\ p.blocks => ~p.force

SetPinned(p) ==
    /\ p.active /\ p.force => p.status = "Graveyard"
    /\ \A m \in Maps : p.active /\ ~p.force /\ p.manifest[m] # 0 =>
                          Alive(m) /\ p.manifest[m] = db[m].md5

PinInv ==
    /\ \A m \in Maps : MapPinned(mapPol[m], m)
    /\ SetPinned(setPol)
    /\ \A m \in Maps : <<"set", m>> \in events => setPol.manifest[m] = 0

RankInv == LocalRanksAreTracked /\ RowsMatchPolicy

Inv == TypeInv /\ TodoInv /\ PinInv /\ RankInv

(***************************************************************************)
(* Smallest elements.                                                      *)
(***************************************************************************)
\* A set of numbers that is not empty has a smallest element.
LEMMA Smallest ==
    ASSUME NEW S, S \subseteq Nat, S # {}
    PROVE  \E x \in S : \A y \in S : x <= y
  <1> DEFINE R == OpToRel(<, Nat)
  <1>1. PICK x \in S : \A y \in S : <<y, x>> \notin R
    BY WFMin, NatLessThanWellFounded
  <1>2. ASSUME NEW y \in S
        PROVE  x <= y
    <2>1. ~(y < x)
      BY <1>1 DEF OpToRel
    <2> QED
      BY <2>1
  <1> QED
    BY <1>2

\* The next change of a sync is one of those it has left.
Head == CHOOSE d \in sync.todo : \A e \in sync.todo : d.map <= e.map

LEMMA HeadIsLeft ==
    ASSUME sync \in Syncs, sync.todo # {}
    PROVE  Head \in sync.todo
  <1> DEFINE S == {d.map : d \in sync.todo}
  <1>1. S \subseteq Nat /\ S # {}
    <2>1. \A d \in sync.todo : d.map \in Nat
      BY PolicyAssumption DEF Syncs
    <2> QED
      BY <2>1
  <1>2. PICK x \in S : \A y \in S : x <= y
    BY <1>1, Smallest
  <1>3. \E d \in sync.todo : \A e \in sync.todo : d.map <= e.map
    BY <1>2
  <1> QED
    BY <1>3 DEF Head

(***************************************************************************)
(* What a step may touch.                                                  *)
(***************************************************************************)
\* Nothing of a difficulty's effective policy changes.
Untouched(n) ==
    /\ db'[n] = db[n] /\ mapPol'[n] = mapPol[n]
    /\ setPol'.active = setPol.active /\ setPol'.force = setPol.force
    /\ setPol'.status = setPol.status /\ setPol'.manifest[n] = setPol.manifest[n]
    /\ <<"set", n>> \in events' <=> <<"set", n>> \in events

LEMMA UntouchedPolicy ==
    ASSUME NEW n, Untouched(n)
    PROVE  /\ Effective(n)' = Effective(n) /\ LocalRank(n)' = LocalRank(n)
           /\ Alive(n)' = Alive(n)
  <1>1. Effective(n)' = Effective(n)
    BY DEF Untouched, Effective, EffectiveIn, MapPolicyApplies, SetPolicyApplies
  <1> QED
    BY <1>1 DEF Untouched, LocalRank, Alive

\* Besides decisions, only a sync at one difficulty changes rows or policies.
LEMMA Shapes ==
    ASSUME [Next]_vars
    PROVE  \/ UNCHANGED <<db, policies, derived, admin>>
           \/ \E m \in Maps : Play(m)
           \/ Decision
           \/ \E e \in events : ResolveEvent(e)
           \/ SyncMap
  <1>1. CASE UNCHANGED vars
    BY <1>1 DEF vars, policies
  <1>2. CASE \/ \E m \in Maps, r \in Revisions \cup {0} : UpRevise(m, r)
             \/ \E s \in UpStatuses : UpStatus(s)
             \/ UpGone
    BY <1>2 DEF UpRevise, UpStatus, UpGone
  <1>3. CASE RefreshBegin \/ Prefetch \/ AddTracker \/ AddSync \/ SyncAborts
    BY <1>3 DEF RefreshBegin, Prefetch, AddTracker, AddSync, SyncAborts
  <1>4. CASE SyncStep
    BY <1>4 DEF SyncStep, SyncBegin, GoneBegin, SyncSet, SyncFinish, ImportFinish, GoneFinish
  <1> QED
    BY <1>1, <1>2, <1>3, <1>4 DEF Next

\* A pin to another revision is lost and reported; nothing else changes.
MapLosesPin(m, sum) ==
    /\ mapPol'[m].active <=>
          /\ mapPol[m].active
          /\ mapPol[m].force \/ mapPol[m].blocks \/ mapPol[m].sum = sum
    /\ mapPol'[m].force = mapPol[m].force /\ mapPol'[m].blocks = mapPol[m].blocks
    /\ mapPol'[m].sum = mapPol[m].sum /\ mapPol'[m].status = mapPol[m].status
    /\ mapPol'[m].active # mapPol[m].active => <<"map", m>> \in events'

SetLosesPin(m, sum) ==
    /\ setPol'.active = setPol.active /\ setPol'.force = setPol.force
    /\ setPol'.status = setPol.status
    /\ setPol'.manifest[m] = IF setPol.active /\ ~setPol.force /\ setPol.manifest[m] # sum
                             THEN 0 ELSE setPol.manifest[m]
    /\ <<"set", m>> \in events' <=>
          \/ <<"set", m>> \in events
          \/ setPol.active /\ ~setPol.force /\ setPol.manifest[m] # sum

OthersKeepPins(m) ==
    \A n \in Maps \ {m} :
        /\ mapPol'[n] = mapPol[n] /\ setPol'.manifest[n] = setPol.manifest[n]
        /\ <<"set", n>> \in events' <=> <<"set", n>> \in events

LEMMA Invalidated ==
    ASSUME PolicyInv, UNCHANGED admin, NEW m \in Maps, NEW sum, Invalidate(m, sum)
    PROVE  PolicyInv' /\ MapLosesPin(m, sum) /\ SetLosesPin(m, sum) /\ OthersKeepPins(m)
  <1> DEFINE mine == LET p == mapPol[m] IN p.active /\ ~p.force /\ ~p.blocks /\ p.sum # sum
             sets == setPol.active /\ ~setPol.force /\ setPol.manifest[m] # sum
  <1>1. /\ mapPol' = [mapPol EXCEPT ![m].active = @ /\ ~mine]
        /\ setPol' = IF sets THEN [setPol EXCEPT !.manifest[m] = 0] ELSE setPol
        /\ events' = events \cup {e \in {"map", "set"} \X {m} :
                                    IF e[1] = "map" THEN mine ELSE sets}
    BY DEF Invalidate
  <1>2. mapPol[m] \in MapPols /\ mapPol \in [Maps -> MapPols]
    BY DEF PolicyInv
  <1>3. /\ mapPol'[m] = [mapPol[m] EXCEPT !.active = @ /\ ~mine]
        /\ \A n \in Maps \ {m} : mapPol'[n] = mapPol[n]
        /\ mapPol'[m].active = (mapPol[m].active /\ ~mine)
    BY <1>1, <1>2 DEF MapPols
  <1>4. mapPol' \in [Maps -> MapPols]
    BY <1>1, <1>2 DEF MapPols
  <1>5. setPol \in SetPols
    BY DEF PolicyInv
  <1>6. /\ setPol' \in SetPols
        /\ setPol'.active = setPol.active /\ setPol'.force = setPol.force
        /\ setPol'.status = setPol.status
        /\ setPol'.manifest[m] = IF sets THEN 0 ELSE setPol.manifest[m]
        /\ \A n \in Maps \ {m} : setPol'.manifest[n] = setPol.manifest[n]
    BY <1>1, <1>5 DEF SetPols, Sums
  <1>7. /\ events' \subseteq {"map", "set"} \X Maps
        /\ <<"set", m>> \in events' <=> <<"set", m>> \in events \/ sets
        /\ mine => <<"map", m>> \in events'
        /\ \A n \in Maps \ {m} : <<"set", n>> \in events' <=> <<"set", n>> \in events
    BY <1>1 DEF PolicyInv
  <1>8. mapPol'[m].active # mapPol[m].active => <<"map", m>> \in events'
    BY <1>2, <1>3, <1>7 DEF MapPols
  <1>9. PolicyInv'
    BY <1>4, <1>6, <1>7 DEF PolicyInv
  <1>10. /\ mapPol'[m].active <=>
               /\ mapPol[m].active
               /\ mapPol[m].force \/ mapPol[m].blocks \/ mapPol[m].sum = sum
         /\ mapPol'[m].force = mapPol[m].force /\ mapPol'[m].blocks = mapPol[m].blocks
         /\ mapPol'[m].sum = mapPol[m].sum /\ mapPol'[m].status = mapPol[m].status
    BY <1>2, <1>3 DEF MapPols
  <1> QED
    BY <1>3, <1>6, <1>7, <1>8, <1>9, <1>10 DEF MapLosesPin, SetLosesPin, OthersKeepPins

(***************************************************************************)
(* The ways a sync deals with one difficulty.                              *)
(***************************************************************************)
Row == [md5 |-> sync.snap.maps[Head.map], status |-> sync.snap.status, deleted |-> FALSE]

\* Nothing is to be done.
Stays == UNCHANGED <<db, policies, derived>>

\* A status changes, with the leaderboard if need be.
Restatus(m) ==
    /\ Alive(m) /\ db[m].md5 = Row.md5 /\ ApplyStatus(m, Row)

\* A deleted difficulty comes back unchanged.
Revival(m) ==
    /\ ~Alive(m) /\ db[m].md5 = Row.md5
    /\ db' = [db EXCEPT ![m] = Row] /\ UNCHANGED <<policies, derived>>

\* A difficulty is added or edited.
Revision(m) ==
    /\ db[m].md5 # Row.md5 /\ Invalidate(m, Row.md5)
    /\ db' = [db EXCEPT ![m] = Row]
    /\ derived' = IF Alive(m) THEN [derived EXCEPT ![m] = 0] ELSE derived

\* A difficulty is removed.
Removal(m) == Alive(m) /\ ApplyDelete(m)

LEMMA SyncShapes ==
    ASSUME TypeInv, TodoInv, SyncMap
    PROVE  /\ Head \in sync.todo /\ Head.map \in Maps
           /\ \/ Stays
              \/ Removal(Head.map)
              \/ /\ Row \in Rows /\ Row.md5 # 0
                 /\ Restatus(Head.map) \/ Revival(Head.map) \/ Revision(Head.map)
  <1> DEFINE m       == Head.map
             revised == ~Alive(m) \/ db[m].md5 # Row.md5
  <1>1. sync.todo # {} /\ sync.pc \in {"maps", "gone"} /\ sync \in Syncs /\ sync.snap \in Snaps
    BY DEF SyncMap, TypeInv, HolderInv
  <1>2. Head \in sync.todo
    BY <1>1, HeadIsLeft
  <1>3. Head \in [map : Maps, type : Types]
    BY <1>1, <1>2 DEF Syncs
  <1>4. m \in Maps
    BY <1>3
  <1>5. \/ Head.type \in {"added", "updated"} /\ ApplyUpdate(m, Row, revised)
        \/ Head.type = "status" /\ ApplyStatus(m, Row)
        \/ Head.type = "deleted" /\ ApplyDelete(m)
    BY DEF SyncMap, Head, Row
  <1>6. db \in [Maps -> Rows] /\ \A n \in Maps : db[n].md5 = 0 => db[n] = Absent
    BY DEF TypeInv, RowInv
  <1>7. Row \in Rows
    BY <1>1, <1>4 DEF Snaps, Rows, Row, Statuses
  <1>8. CASE Head.type \in {"added", "updated"} /\ ApplyUpdate(m, Row, revised)
    <2>1. Row.md5 # 0 /\ (~Alive(m) \/ db[m].md5 # Row.md5 \/ db[m].status = Row.status)
      BY <1>2, <1>8 DEF TodoInv, Present, Row
    <2>2. CASE ~revised
      <3>1. db[m] = Row
        BY <1>4, <1>6, <1>7, <2>1, <2>2 DEF Alive, Rows, Row
      <3> QED
        BY <1>2, <1>4, <1>6, <1>8, <2>2, <3>1 DEF ApplyUpdate, Stays, policies
    <2>3. CASE revised /\ db[m].md5 = Row.md5
      BY <1>2, <1>4, <1>7, <1>8, <2>1, <2>3 DEF ApplyUpdate, Revival, policies
    <2>4. CASE db[m].md5 # Row.md5
      BY <1>2, <1>4, <1>7, <1>8, <2>1, <2>4 DEF ApplyUpdate, Revision
    <2> QED
      BY <2>2, <2>3, <2>4
  <1>9. CASE Head.type = "status" /\ ApplyStatus(m, Row)
    <2>1. Alive(m) /\ db[m].md5 = Row.md5
      BY <1>2, <1>9 DEF TodoInv, Row
    <2>2. Row.md5 # 0
      BY <1>4, <1>6, <2>1 DEF Alive
    <2> QED
      BY <1>2, <1>4, <1>7, <1>9, <2>1, <2>2 DEF Restatus
  <1>10. CASE Head.type = "deleted" /\ ApplyDelete(m)
    BY <1>2, <1>4, <1>10 DEF ApplyDelete, Removal, Stays, policies
  <1> QED
    BY <1>5, <1>8, <1>9, <1>10

\* A sync leaves the other difficulties alone and the tables well-formed.
LEMMA SyncFrame ==
    ASSUME TypeInv, TodoInv, SyncMap
    PROVE  /\ \A n \in Maps \ {Head.map} : Untouched(n) /\ derived'[n] = derived[n]
           /\ db' \in [Maps -> Rows] /\ \A n \in Maps : db'[n].md5 = 0 => db'[n] = Absent
           /\ derived' \in [Maps -> Sums]
           /\ PolicyInv'
  <1> DEFINE m == Head.map
  <1>1. PolicyInv /\ UNCHANGED admin
    BY DEF TypeInv, SyncMap
  <1>2. /\ db \in [Maps -> Rows] /\ \A n \in Maps : db[n].md5 = 0 => db[n] = Absent
        /\ derived \in [Maps -> Sums]
    BY DEF TypeInv, RowInv
  <1>3. m \in Maps
    BY SyncShapes
  <1>4. CASE Stays
    BY <1>1, <1>2, <1>4 DEF Stays, policies, Untouched, PolicyInv
  <1>5. ASSUME NEW sum, Invalidate(m, sum), NEW row \in Rows, row.md5 # 0,
               db' = [db EXCEPT ![m] = row],
               derived' = [derived EXCEPT ![m] = 0] \/ derived' = derived
        PROVE  /\ \A n \in Maps \ {m} : Untouched(n) /\ derived'[n] = derived[n]
               /\ db' \in [Maps -> Rows] /\ \A n \in Maps : db'[n].md5 = 0 => db'[n] = Absent
               /\ derived' \in [Maps -> Sums]
               /\ PolicyInv'
    <2>1. PolicyInv' /\ SetLosesPin(m, sum) /\ OthersKeepPins(m)
      BY <1>1, <1>3, <1>5, Invalidated
    <2>2. \A n \in Maps \ {m} : Untouched(n)
      BY <1>2, <1>3, <1>5, <2>1 DEF Untouched, SetLosesPin, OthersKeepPins
    <2> QED
      BY <1>2, <1>3, <1>5, <2>1, <2>2 DEF Sums
  <1>6. CASE Removal(m)
    <2>1. /\ Invalidate(m, 0)
          /\ db' = [db EXCEPT ![m] = [db[m] EXCEPT !.deleted = TRUE]]
          /\ derived' = [derived EXCEPT ![m] = 0]
      BY <1>6 DEF Removal, ApplyDelete
    <2>2. [db[m] EXCEPT !.deleted = TRUE] \in Rows /\ [db[m] EXCEPT !.deleted = TRUE].md5 # 0
      BY <1>2, <1>3, <1>6 DEF Removal, Alive, Rows
    <2> QED
      BY <1>5, <2>1, <2>2
  <1>7. CASE Row \in Rows /\ Row.md5 # 0 /\ Revision(m)
    BY <1>5, <1>7 DEF Revision
  <1>8. CASE Row \in Rows /\ Row.md5 # 0 /\ (Restatus(m) \/ Revival(m))
    <2>1. /\ UNCHANGED policies
          /\ db' = [db EXCEPT ![m] = Row]
          /\ derived' = [derived EXCEPT ![m] = 0] \/ derived' = derived
      BY <1>8 DEF Restatus, Revival, ApplyStatus
    <2> QED
      BY <1>1, <1>2, <1>3, <1>8, <2>1 DEF policies, Untouched, PolicyInv, Sums
  <1> QED
    BY <1>4, <1>6, <1>7, <1>8, SyncShapes

(***************************************************************************)
(* The work of a sync.                                                     *)
(***************************************************************************)
\* One kind of change per difficulty.
LEMMA DiffFits ==
    ASSUME NEW saved, NEW snap, NEW c \in Diff(saved, snap)
    PROVE  /\ c \in [map : Maps, type : Types]
           /\ LET s == saved[c.map]
                  known == s # Absent /\ ~s.deleted
              IN  c.type = IF Present(snap, c.map)
                           THEN IF ~known THEN "added"
                                ELSE IF s.md5 # snap.maps[c.map] THEN "updated"
                                ELSE IF s.status # snap.status THEN "status" ELSE "none"
                           ELSE IF known THEN "deleted" ELSE "none"
  BY DEF Diff, Change, Types

\* A difficulty that differs is in the difference.
LEMMA DiffComplete ==
    ASSUME NEW saved, NEW snap, NEW m \in Maps,
           \A c \in Diff(saved, snap) : c.map # m
    PROVE  IF Present(snap, m)
           THEN /\ saved[m] # Absent /\ ~saved[m].deleted
                /\ saved[m].md5 = snap.maps[m] /\ saved[m].status = snap.status
           ELSE ~(saved[m] # Absent /\ ~saved[m].deleted)
  <1> DEFINE s     == saved[m]
             known == s # Absent /\ ~s.deleted
             type  == IF Present(snap, m)
                      THEN IF ~known THEN "added"
                           ELSE IF s.md5 # snap.maps[m] THEN "updated"
                           ELSE IF s.status # snap.status THEN "status" ELSE "none"
                      ELSE IF known THEN "deleted" ELSE "none"
  <1>1. type \notin {"added", "updated", "status", "deleted"}
    <2> SUFFICES ASSUME type \in {"added", "updated", "status", "deleted"}
                 PROVE  FALSE
      OBVIOUS
    <2>1. Change(m, type) \in Diff(saved, snap)
      BY DEF Diff, Change
    <2> QED
      BY <2>1 DEF Change
  <1> QED
    BY <1>1

\* A sync that begins has work that agrees with the rows.
LEMMA BeginFits ==
    ASSUME TypeInv, NEW t, NEW snap \in Snaps, BeginWith(t, snap), UNCHANGED db
    PROVE  sync' \in Syncs /\ sync'.snap = snap /\ sync'.pc = "set" /\ TodoInv'
  <1> DEFINE todo == Changes(t, snap)
  <1>1. /\ sync'.pc = "set" /\ sync'.snap = snap /\ sync'.todo = todo
        /\ sync'.import = FALSE
        /\ sync' = [pc |-> "set", snap |-> snap, todo |-> todo,
                    changed |-> todo # {} \/ t.status # snap.status, import |-> FALSE]
    BY DEF BeginWith
  <1>2. todo \subseteq [map : Maps, type : Types]
    BY DiffFits DEF Changes
  <1>3. sync' \in Syncs
    <2>1. (todo # {} \/ t.status # snap.status) \in BOOLEAN
      OBVIOUS
    <2> QED
      BY <1>1, <1>2, <2>1 DEF Syncs
  <1>4. ASSUME NEW c \in todo
        PROVE  /\ c.type \in {"added", "updated"} =>
                     /\ Present(snap, c.map)
                     /\ \/ ~Alive(c.map) \/ db[c.map].md5 # snap.maps[c.map]
                        \/ db[c.map].status = snap.status
               /\ c.type = "status" => Alive(c.map) /\ db[c.map].md5 = snap.maps[c.map]
               /\ \A d \in todo : d.map = c.map => d = c
    <2>1. c.map \in Maps
      BY <1>2
    <2>2. CASE c \in Diff(db, snap)
      <3>1. /\ c.type \in {"added", "updated"} =>
                  Present(snap, c.map) /\ (~Alive(c.map) \/ db[c.map].md5 # snap.maps[c.map])
            /\ c.type = "status" => Alive(c.map) /\ db[c.map].md5 = snap.maps[c.map]
        BY <2>2, DiffFits DEF Alive
      <3>2. ASSUME NEW d \in todo, d.map = c.map
            PROVE  d = c
        <4>1. d \in Diff(db, snap)
          BY <2>2, <3>2 DEF Changes
        <4>2. d.type = c.type
          BY <2>2, <3>2, <4>1, DiffFits
        <4> QED
          BY <1>2, <3>2, <4>2
      <3> QED
        BY <3>1, <3>2
    <2>3. CASE c \in Diff(t.maps, snap) /\ \A d \in Diff(db, snap) : d.map # c.map
      <3>1. IF Present(snap, c.map)
            THEN Alive(c.map) /\ db[c.map].md5 = snap.maps[c.map]
                 /\ db[c.map].status = snap.status
            ELSE ~Alive(c.map)
        BY <2>1, <2>3, DiffComplete DEF Alive
      <3>2. c.type \in {"added", "updated", "status"} => Present(snap, c.map)
        BY <2>3, DiffFits
      <3>3. ASSUME NEW d \in todo, d.map = c.map
            PROVE  d = c
        <4>1. d \in Diff(t.maps, snap)
          BY <2>3, <3>3 DEF Changes
        <4>2. d.type = c.type
          BY <2>3, <3>3, <4>1, DiffFits
        <4> QED
          BY <1>2, <3>3, <4>2
      <3> QED
        BY <3>1, <3>2, <3>3
    <2> QED
      BY <2>2, <2>3 DEF Changes
  <1>5. \A m : Alive(m)' <=> Alive(m)
    BY DEF Alive
  <1>6. \A m : Present(sync'.snap, m) <=> Present(snap, m)
    BY <1>1
  <1> QED
    BY <1>1, <1>3, <1>4, <1>5, <1>6 DEF TodoInv

\* What was fetched is a snapshot.
LEMMA SnapFits ==
    ASSUME TypeInv
    PROVE  Snap(up) \in Snaps
  <1>1. up.time \in 0 .. MaxUp
    BY PolicyAssumption DEF TypeInv, UpInv
  <1> QED
    BY <1>1 DEF TypeInv, UpInv, Snap, Snaps

\* A sync without work fits any rows.
LEMMA NoWork ==
    ASSUME sync'.todo = {}
    PROVE  TodoInv'
  BY DEF TodoInv

\* Work stays right while neither it nor the rows change.
LEMMA SameWork ==
    ASSUME TodoInv, UNCHANGED db, sync'.todo = sync.todo, sync'.snap = sync.snap,
           sync'.pc = "gone" => sync.pc = "gone"
    PROVE  TodoInv'
  <1>1. \A m : Alive(m)' <=> Alive(m)
    BY DEF Alive
  <1>2. \A m : Present(sync'.snap, m) <=> Present(sync.snap, m)
    OBVIOUS
  <1> QED
    BY <1>1, <1>2 DEF TodoInv

LEMMA TodoStep ==
    ASSUME TypeInv, TodoInv, [Next]_vars
    PROVE  TodoInv'
  <1>1. sync \in Syncs
    BY DEF TypeInv, HolderInv
  <1>2. CASE UNCHANGED <<db, sync>>
    BY <1>2, SameWork
  <1>3. CASE SyncBegin
    BY <1>3, SnapFits, BeginFits DEF SyncBegin
  <1>4. CASE AddSync
    <2>1. inbox \in Snaps
      BY <1>4 DEF AddSync, TypeInv, UpInv
    <2> QED
      BY <1>4, <2>1, BeginFits DEF AddSync
  <1>5. CASE RefreshBegin
    <2>1. CASE dbSet = NoSet
      <3>1. sync' = [pc |-> "set", snap |-> Snap(up), changed |-> TRUE, import |-> TRUE,
                     todo |-> {Change(m, "added") : m \in {n \in Maps : up.maps[n] # 0}}]
        BY <1>5, <2>1 DEF RefreshBegin
      <3>2. \A m \in Maps : ~Alive(m)'
        BY <1>5, <2>1 DEF RefreshBegin, TypeInv, RowInv, Alive
      <3>3. sync'.snap = Snap(up) /\ sync'.pc = "set"
        BY <3>1
      <3>4. \A c \in sync'.todo : /\ c.map \in Maps /\ c.type = "added"
                                  /\ up.maps[c.map] # 0 /\ c = Change(c.map, "added")
        BY <3>1 DEF Change
      <3>5. \A c \in sync'.todo : Present(sync'.snap, c.map)
        BY <3>3, <3>4 DEF Present, Snap
      <3> QED
        BY <3>2, <3>3, <3>4, <3>5 DEF TodoInv
    <2>2. CASE dbSet # NoSet
      <3>1. PICK t : BeginWith(t, Snap(up)) /\ UNCHANGED db
        BY <1>5, <2>2 DEF RefreshBegin
      <3> QED
        BY <3>1, SnapFits, BeginFits
    <2> QED
      BY <2>1, <2>2
  <1>6. CASE GoneBegin
    <2>1. sync'.todo = {Change(m, "deleted") : m \in AliveMaps}
      BY <1>6 DEF GoneBegin, Idle
    <2>2. \A c \in sync'.todo : c.type = "deleted" /\ c = Change(c.map, "deleted")
      BY <2>1 DEF Change
    <2> QED
      BY <2>2 DEF TodoInv
  <1>7. CASE SyncSet
    <2>1. \/ sync' = [sync EXCEPT !.pc = "maps"]
          \/ sync' = Idle
      BY <1>7 DEF SyncSet
    <2>2. UNCHANGED db
      BY <1>7 DEF SyncSet
    <2>3. CASE sync' = [sync EXCEPT !.pc = "maps"]
      <3>1. sync'.todo = sync.todo /\ sync'.snap = sync.snap /\ sync'.pc = "maps"
        BY <1>1, <2>3 DEF Syncs
      <3> QED
        BY <2>2, <3>1, SameWork
    <2> QED
      BY <2>1, <2>3, NoWork DEF Idle
  <1>8. CASE SyncMap
    <2>1. /\ sync'.todo = sync.todo \ {Head} /\ sync'.snap = sync.snap /\ sync'.pc = sync.pc
      <3>1. sync' = [sync EXCEPT !.todo = @ \ {Head}]
        BY <1>8 DEF SyncMap, Head
      <3> QED
        BY <1>1, <3>1 DEF Syncs
    <2>2. Head \in sync.todo
      BY <1>8, SyncShapes
    <2>3. ASSUME NEW c \in sync'.todo
          PROVE  c.map \in Maps \ {Head.map}
      BY <1>1, <2>1, <2>2 DEF TodoInv, Syncs
    <2>4. ASSUME NEW c \in sync'.todo
          PROVE  db'[c.map] = db[c.map] /\ (Alive(c.map)' <=> Alive(c.map))
      BY <1>8, <2>3, SyncFrame DEF Untouched, Alive
    <2>5. \A m : Present(sync'.snap, m) <=> Present(sync.snap, m)
      BY <2>1
    <2> QED
      BY <2>1, <2>4, <2>5 DEF TodoInv
  <1>9. CASE SyncFinish \/ ImportFinish \/ GoneFinish \/ SyncAborts
    BY <1>9, NoWork DEF SyncFinish, ImportFinish, GoneFinish, SyncAborts, Idle
  <1>10. CASE Decision
    BY <1>10, SameWork DEF Decision, Rank, RankSet, Unrank, UnrankSet, ClearMap, ClearSet
  <1>11. CASE \/ \E m \in Maps, r \in Revisions \cup {0} : UpRevise(m, r)
              \/ \E s \in UpStatuses : UpStatus(s)
              \/ UpGone \/ Prefetch \/ AddTracker
              \/ \E m \in Maps : Play(m)
              \/ \E e \in events : ResolveEvent(e)
    BY <1>2, <1>11 DEF UpRevise, UpStatus, UpGone, Prefetch, AddTracker, Play, ResolveEvent
  <1> QED
    BY <1>2, <1>3, <1>4, <1>5, <1>6, <1>7, <1>8, <1>9, <1>10, <1>11
       DEF Next, SyncStep, vars

(***************************************************************************)
(* Types.                                                                  *)
(***************************************************************************)
LEMMA UpStep ==
    ASSUME TypeInv, [Next]_vars
    PROVE  UpInv'
  <1>1. UpInv
    BY DEF TypeInv
  <1>2. CASE UNCHANGED <<upstream, inbox>>
    BY <1>1, <1>2 DEF UpInv, upstream
  <1>3. ASSUME NEW m \in Maps, NEW r \in Revisions \cup {0}, UpRevise(m, r)
        PROVE  UpInv'
    <2>1. /\ up' = [up EXCEPT !.maps = [up.maps EXCEPT ![m] = r], !.time = up.time + 1]
          /\ ups < MaxUp /\ ups' = ups + 1 /\ inbox' = inbox
      BY <1>3 DEF UpRevise
    <2>2. ups' \in 0 .. MaxUp /\ up.time + 1 \in 0 .. ups'
      BY <1>1, <2>1, PolicyAssumption DEF UpInv
    <2> QED
      BY <1>1, <2>1, <2>2 DEF UpInv, Sums
  <1>4. ASSUME NEW s \in UpStatuses, UpStatus(s)
        PROVE  UpInv'
    <2>1. up' = [up EXCEPT !.status = s] /\ ups < MaxUp /\ ups' = ups + 1 /\ inbox' = inbox
      BY <1>4 DEF UpStatus
    <2>2. ups' \in 0 .. MaxUp /\ up.time \in 0 .. ups'
      BY <1>1, <2>1, PolicyAssumption DEF UpInv
    <2> QED
      BY <1>1, <2>1, <2>2 DEF UpInv
  <1>5. CASE UpGone
    <2>1. up' = [up EXCEPT !.gone = ~@] /\ ups < MaxUp /\ ups' = ups + 1 /\ inbox' = inbox
      BY <1>5 DEF UpGone
    <2>2. ups' \in 0 .. MaxUp /\ up.time \in 0 .. ups'
      BY <1>1, <2>1, PolicyAssumption DEF UpInv
    <2>3. up'.time = up.time /\ up'.status = up.status /\ up'.maps = up.maps
      BY <2>1
    <2> QED
      BY <1>1, <2>1, <2>2, <2>3 DEF UpInv
  <1>6. CASE Prefetch \/ AddTracker \/ AddSync \/ SyncAborts
    <2>1. inbox' \in {inbox, NoSnap, Snap(up)} /\ UNCHANGED upstream
      BY <1>6 DEF Prefetch, AddTracker, AddSync, SyncAborts
    <2> QED
      BY <1>1, <2>1, SnapFits DEF UpInv, upstream
  <1>7. CASE Decision
    BY <1>2, <1>7 DEF Decision, Rank, RankSet, Unrank, UnrankSet, ClearMap, ClearSet
  <1>8. CASE RefreshBegin \/ SyncStep
    BY <1>2, <1>8 DEF RefreshBegin, SyncStep, SyncBegin, GoneBegin, SyncSet, SyncMap,
                      SyncFinish, ImportFinish, GoneFinish
  <1>9. CASE \/ \E m \in Maps : Play(m)
             \/ \E e \in events : ResolveEvent(e)
             \/ UNCHANGED vars
    BY <1>2, <1>9 DEF Play, ResolveEvent, vars, upstream
  <1> QED
    BY <1>3, <1>4, <1>5, <1>6, <1>7, <1>8, <1>9 DEF Next

LEMMA HolderStep ==
    ASSUME TypeInv, TodoInv, [Next]_vars
    PROVE  HolderInv'
  <1>1. HolderInv /\ sync \in Syncs
    BY DEF TypeInv, HolderInv
  <1>2. Idle \in Syncs
    BY DEF Idle, Syncs
  <1>3. CASE sync' = Idle
    BY <1>2, <1>3 DEF HolderInv, Idle
  <1>4. CASE UNCHANGED <<sync, dbSet>>
    BY <1>1, <1>4 DEF HolderInv
  <1>5. ASSUME NEW t, NEW snap \in Snaps, BeginWith(t, snap), UNCHANGED db
        PROVE  HolderInv'
    BY <1>5, BeginFits DEF HolderInv
  <1>6. CASE SyncBegin
    BY <1>5, <1>6, SnapFits DEF SyncBegin
  <1>7. CASE AddSync
    <2>1. inbox \in Snaps
      BY <1>7 DEF AddSync, TypeInv, UpInv
    <2> QED
      BY <1>5, <1>7, <2>1 DEF AddSync
  <1>8. CASE RefreshBegin
    <2>1. CASE dbSet = NoSet
      <3>1. sync' = [pc |-> "set", snap |-> Snap(up), changed |-> TRUE, import |-> TRUE,
                     todo |-> {Change(m, "added") : m \in {n \in Maps : up.maps[n] # 0}}]
        BY <1>8, <2>1 DEF RefreshBegin
      <3>2. {Change(m, "added") : m \in {n \in Maps : up.maps[n] # 0}}
               \subseteq [map : Maps, type : Types]
        BY DEF Change, Types
      <3>3. sync' \in Syncs
        BY <3>1, <3>2, SnapFits DEF Syncs
      <3> QED
        BY <3>1, <3>3, SnapFits DEF HolderInv
    <2>2. CASE dbSet # NoSet
      <3>1. PICK t : BeginWith(t, Snap(up)) /\ UNCHANGED db
        BY <1>8, <2>2 DEF RefreshBegin
      <3> QED
        BY <1>5, <3>1, SnapFits
    <2> QED
      BY <2>1, <2>2
  <1>9. CASE GoneBegin
    <2>1. sync' = [pc |-> "gone", snap |-> Snap(up), changed |-> FALSE, import |-> FALSE,
                   todo |-> {Change(m, "deleted") : m \in AliveMaps}]
      BY <1>9 DEF GoneBegin, Idle
    <2>2. {Change(m, "deleted") : m \in AliveMaps} \subseteq [map : Maps, type : Types]
      BY DEF Change, Types, AliveMaps
    <2>3. sync' \in Syncs
      BY <2>1, <2>2, SnapFits DEF Syncs
    <2>4. dbSet' # NoSet
      BY <1>9 DEF GoneBegin, TypeInv, RowInv
    <2> QED
      BY <2>1, <2>3, <2>4, SnapFits DEF HolderInv
  <1>10. CASE SyncSet
    <2>1. CASE /\ dbSet' = [time |-> sync.snap.time, status |-> sync.snap.status]
               /\ sync' = [sync EXCEPT !.pc = "maps"]
      <3>1. sync' \in Syncs /\ sync'.pc = "maps" /\ sync'.snap = sync.snap
        BY <1>1, <2>1 DEF Syncs
      <3>2. sync.snap \in Snaps
        BY <1>1, <1>10 DEF SyncSet, HolderInv
      <3>3. dbSet'.time \in 0 .. MaxUp
        BY <2>1, <3>2 DEF Snaps
      <3>4. dbSet' # NoSet
        BY <3>3, PolicyAssumption DEF NoSet
      <3> QED
        BY <3>1, <3>2, <3>4 DEF HolderInv
    <2> QED
      BY <1>3, <1>10, <2>1 DEF SyncSet
  <1>11. CASE SyncMap
    <2>1. sync' = [sync EXCEPT !.todo = @ \ {Head}] /\ UNCHANGED dbSet
      BY <1>11 DEF SyncMap, Head
    <2>2. sync.todo \ {Head} \in SUBSET [map : Maps, type : Types]
      BY <1>1 DEF Syncs
    <2>3. sync' \in Syncs /\ sync'.pc = sync.pc /\ sync'.snap = sync.snap
      BY <1>1, <2>1, <2>2 DEF Syncs
    <2> QED
      BY <1>1, <2>1, <2>3 DEF HolderInv
  <1>12. CASE SyncFinish \/ ImportFinish \/ GoneFinish \/ SyncAborts
    BY <1>3, <1>12 DEF SyncFinish, ImportFinish, GoneFinish, SyncAborts
  <1>13. CASE Decision
    BY <1>4, <1>13 DEF Decision, Rank, RankSet, Unrank, UnrankSet, ClearMap, ClearSet
  <1>14. CASE \/ \E m \in Maps, r \in Revisions \cup {0} : UpRevise(m, r)
              \/ \E s \in UpStatuses : UpStatus(s)
              \/ UpGone \/ Prefetch \/ AddTracker
              \/ \E m \in Maps : Play(m)
              \/ \E e \in events : ResolveEvent(e)
              \/ UNCHANGED vars
    BY <1>4, <1>14
       DEF UpRevise, UpStatus, UpGone, Prefetch, AddTracker, Play, ResolveEvent, vars
  <1> QED
    BY <1>6, <1>7, <1>8, <1>9, <1>10, <1>11, <1>12, <1>13, <1>14 DEF Next, SyncStep

(***************************************************************************)
(* Decisions.                                                              *)
(***************************************************************************)
MapDecision(m, p) ==
    Decide(setPol, [mapPol EXCEPT ![m] = p], {e \in events : e[2] # m}, {m})

SetDecision(sp, mp) == Decide(sp, mp, {}, AliveMaps)

\* A decision about one difficulty, or about all of them, pins what it ranks.
MapDecided ==
    \E m \in Maps, p \in MapPols : MapDecision(m, p) /\ MapPinned(p, m)

SetDecided ==
    \E sp \in SetPols, mp \in [Maps -> MapPols] :
        SetDecision(sp, mp) /\ SetPinned(sp) /\ \A m \in Maps : MapPinned(mp[m], m)

\* A decision that ranks also tracks; another ends ranks.
Tracks ==
    \/ tracker' # NoTracker /\ dbSet # NoSet
    \/ tracker' = tracker /\ (HasActiveLocalRank' => HasActiveLocalRank)

LEMMA AliveIsStored ==
    ASSUME TypeInv, NEW m \in Maps, Alive(m)
    PROVE  dbSet # NoSet /\ db[m] \in Rows /\ db[m].md5 # 0
  BY DEF TypeInv, RowInv, Alive

LEMMA Scheduled ==
    ASSUME TypeInv, dbSet # NoSet, Schedule
    PROVE  tracker' # NoTracker
  <1>1. dbSet.status # "none"
    BY PolicyAssumption DEF TypeInv, RowInv
  <1> QED
    BY <1>1 DEF Schedule, ManifestOfDb, NoTracker

LEMMA ApplyMapShape ==
    ASSUME TypeInv, NEW m \in Maps, Alive(m), NEW st \in Statuses, NEW force \in BOOLEAN,
           force => st = "Graveyard", ApplyMap(m, st, force)
    PROVE  MapDecided /\ Tracks
  <1> DEFINE p == [active |-> TRUE, force |-> force, blocks |-> FALSE,
                   sum |-> db[m].md5, status |-> st]
  <1>1. p \in MapPols /\ MapPinned(p, m)
    BY AliveIsStored DEF MapPols, Rows, MapPinned
  <1>2. MapDecision(m, p)
    BY DEF ApplyMap, MapDecision
  <1>3. Tracks
    BY AliveIsStored, Scheduled DEF ApplyMap, Tracks
  <1> QED
    BY <1>1, <1>2, <1>3 DEF MapDecided

LEMMA ApplySetShape ==
    ASSUME TypeInv, PinInv, AliveMaps # {}, NEW st \in Statuses, NEW force \in BOOLEAN,
           NEW replace \in BOOLEAN, force => st = "Graveyard", ApplySet(st, force, replace)
    PROVE  SetDecided /\ Tracks
  <1> DEFINE sp == [exists |-> TRUE, active |-> TRUE, force |-> force, status |-> st,
                    manifest |-> [m \in Maps |-> IF Alive(m) THEN db[m].md5 ELSE 0]]
             mp == [m \in Maps |-> IF replace THEN [mapPol[m] EXCEPT !.active = FALSE]
                                   ELSE mapPol[m]]
  <1>1. [m \in Maps |-> IF Alive(m) THEN db[m].md5 ELSE 0] \in [Maps -> Sums]
    BY AliveIsStored DEF Rows, Sums
  <1>2. sp \in SetPols
    BY <1>1 DEF SetPols
  <1>3. SetPinned(sp)
    BY DEF SetPinned
  <1>4. ASSUME NEW m \in Maps
        PROVE  mp[m] \in MapPols /\ MapPinned(mp[m], m)
    BY DEF TypeInv, PolicyInv, PinInv, MapPinned, MapPols
  <1>5. SetDecision(sp, mp)
    BY DEF ApplySet, SetDecision
  <1>6. SetDecided
    BY <1>2, <1>3, <1>4, <1>5 DEF SetDecided
  <1>7. dbSet # NoSet
    BY AliveIsStored DEF AliveMaps
  <1> QED
    BY <1>6, <1>7, Scheduled DEF ApplySet, Tracks

LEMMA DecisionShapes ==
    ASSUME TypeInv, PinInv, Decision
    PROVE  /\ UNCHANGED <<upstream, dbSet, db, sync, inbox, crashes>>
           /\ admin' = admin + 1
           /\ MapDecided \/ SetDecided
           /\ Tracks
  <1>1. /\ UNCHANGED <<upstream, dbSet, db, sync, inbox, crashes>>
        /\ admin' = admin + 1
    BY DEF Decision, Rank, RankSet, Unrank, UnrankSet, ClearMap, ClearSet
  <1>2. setPol \in SetPols /\ mapPol \in [Maps -> MapPols]
    BY DEF TypeInv, PolicyInv
  <1>3. \A m \in Maps : MapPinned(mapPol[m], m)
    BY DEF PinInv
  <1>4. SetPinned(setPol)
    BY DEF PinInv
  <1>5. ASSUME NEW m \in Maps, NEW st \in {"Ranked", "Loved"}, Rank(m, st)
        PROVE  (MapDecided \/ SetDecided) /\ Tracks
    BY <1>5, ApplyMapShape DEF Rank, Statuses
  <1>6. ASSUME NEW st \in {"Ranked", "Loved"}, NEW r \in BOOLEAN, RankSet(st, r)
        PROVE  (MapDecided \/ SetDecided) /\ Tracks
    BY <1>6, ApplySetShape DEF RankSet, Statuses
  <1>7. ASSUME NEW m \in Maps, Unrank(m)
        PROVE  (MapDecided \/ SetDecided) /\ Tracks
    <2>1. CASE ~LocalRank(m)
      BY <1>7, <2>1, ApplyMapShape DEF Unrank, Statuses
    <2>2. CASE LocalRank(m)
      <3> DEFINE p == [active |-> TRUE, force |-> FALSE, blocks |-> TRUE,
                       sum |-> db[m].md5, status |-> db[m].status]
      <3>1. /\ Alive(m) /\ MapDecision(m, p) /\ UNCHANGED tracker
        BY <1>7, <2>2 DEF Unrank, MapDecision
      <3>2. p \in MapPols
        BY <3>1, AliveIsStored DEF MapPols, Rows
      <3>3. MapPinned(p, m)
        BY DEF MapPinned
      <3>4. HasActiveLocalRank' => HasActiveLocalRank
        <4>1. setPol' = setPol /\ mapPol' = [mapPol EXCEPT ![m] = p]
          BY <3>1 DEF MapDecision, Decide
        <4>2. \A n \in Maps : mapPol'[n].active /\ ~mapPol'[n].blocks =>
                                mapPol[n].active /\ ~mapPol[n].blocks
          BY <1>2, <4>1
        <4> QED
          BY <4>1, <4>2 DEF HasActiveLocalRank
      <3> QED
        BY <3>1, <3>2, <3>3, <3>4 DEF MapDecided, Tracks
    <2> QED
      BY <2>1, <2>2
  <1>8. ASSUME NEW r \in BOOLEAN, UnrankSet(r)
        PROVE  (MapDecided \/ SetDecided) /\ Tracks
    <2> DEFINE local == {m \in AliveMaps : LocalRank(m)}
    <2>1. CASE local = {}
      BY <1>8, <2>1, ApplySetShape DEF UnrankSet, Statuses
    <2>2. CASE local # {}
      <3> DEFINE sp == [setPol EXCEPT !.active = @ /\ setPol.force]
                 mp == [m \in Maps |-> IF r \/ m \in local
                                       THEN [mapPol[m] EXCEPT !.active = FALSE]
                                       ELSE mapPol[m]]
      <3>1. SetDecision(sp, mp) /\ UNCHANGED tracker
        BY <1>8, <2>2 DEF UnrankSet, SetDecision
      <3>2. /\ sp \in SetPols /\ sp.force = setPol.force /\ sp.status = setPol.status
            /\ sp.active <=> setPol.active /\ setPol.force
        BY <1>2 DEF SetPols
      <3>3. SetPinned(sp)
        BY <1>4, <3>2 DEF SetPinned
      <3>4. ASSUME NEW m \in Maps
            PROVE  mp[m] \in MapPols /\ MapPinned(mp[m], m)
        BY <1>2, <1>3 DEF MapPinned, MapPols
      <3>5. HasActiveLocalRank' => HasActiveLocalRank
        <4>1. setPol' = sp /\ mapPol' = mp
          BY <3>1 DEF SetDecision, Decide
        <4>2. \A n \in Maps : mapPol'[n].active /\ ~mapPol'[n].blocks =>
                                mapPol[n].active /\ ~mapPol[n].blocks
          BY <1>2, <4>1 DEF MapPols
        <4> QED
          BY <3>2, <4>1, <4>2 DEF HasActiveLocalRank
      <3> QED
        BY <3>1, <3>2, <3>3, <3>4, <3>5 DEF SetDecided, Tracks
    <2> QED
      BY <2>1, <2>2
  <1>9. ASSUME NEW m \in Maps, ClearMap(m)
        PROVE  (MapDecided \/ SetDecided) /\ Tracks
    <2> DEFINE p == [mapPol[m] EXCEPT !.active = FALSE]
    <2>1. MapDecision(m, p) /\ UNCHANGED tracker
      BY <1>9 DEF ClearMap, MapDecision
    <2>2. p \in MapPols /\ p.active = FALSE /\ MapPinned(p, m)
      BY <1>2, <1>3 DEF MapPols, MapPinned
    <2>3. HasActiveLocalRank' => HasActiveLocalRank
      <3>1. setPol' = setPol /\ mapPol' = [mapPol EXCEPT ![m] = p]
        BY <2>1 DEF MapDecision, Decide
      <3>2. \A n \in Maps : mapPol'[n].active /\ ~mapPol'[n].blocks =>
                              mapPol[n].active /\ ~mapPol[n].blocks
        BY <1>2, <2>2, <3>1
      <3> QED
        BY <3>1, <3>2 DEF HasActiveLocalRank
    <2> QED
      BY <2>1, <2>2, <2>3 DEF MapDecided, Tracks
  <1>10. ASSUME ClearSet
         PROVE  (MapDecided \/ SetDecided) /\ Tracks
    <2> DEFINE sp == [setPol EXCEPT !.active = FALSE]
    <2>1. SetDecision(sp, mapPol) /\ UNCHANGED tracker
      BY <1>10 DEF ClearSet, SetDecision
    <2>2. sp \in SetPols /\ sp.active = FALSE /\ SetPinned(sp)
      BY <1>2 DEF SetPols, SetPinned
    <2>3. HasActiveLocalRank' => HasActiveLocalRank
      BY <2>1, <2>2 DEF SetDecision, Decide, HasActiveLocalRank
    <2> QED
      BY <1>2, <1>3, <2>1, <2>2, <2>3 DEF SetDecided, Tracks
  <1> QED
    BY <1>1, <1>5, <1>6, <1>7, <1>8, <1>9, <1>10 DEF Decision

\* A decision retires the rows that lose their leaderboard.
LEMMA DecisionRetires ==
    ASSUME TypeInv, RowsMatchPolicy, UNCHANGED db,
           NEW sp, NEW mp, NEW ev, NEW affected, Decide(sp, mp, ev, affected),
           \A n \in Maps \ affected : Alive(n) => Untouched(n)
    PROVE  RowsMatchPolicy'
  <1> SUFFICES ASSUME NEW n \in Maps, derived'[n] # 0
               PROVE  Alive(n)' /\ derived'[n] = db'[n].md5 /\ HasLeaderboard(Effective(n).status)'
    BY DEF RowsMatchPolicy
  <1>1. derived' = Retired(affected, sp, mp, ev) /\ setPol' = sp /\ mapPol' = mp /\ events' = ev
    BY DEF Decide
  <1>2. derived'[n] = derived[n]
    BY <1>1 DEF Retired
  <1>3. Alive(n) /\ derived[n] = db[n].md5 /\ HasLeaderboard(Effective(n).status)
    BY <1>2 DEF RowsMatchPolicy
  <1>4. Effective(n)' = EffectiveIn(db[n], mp[n], sp, ev, n)
    BY <1>1 DEF Effective
  <1>5. CASE n \in affected
    BY <1>1, <1>2, <1>3, <1>4, <1>5 DEF Retired, HasLeaderboard, Alive
  <1>6. CASE n \notin affected
    BY <1>2, <1>3, <1>6, UntouchedPolicy DEF HasLeaderboard
  <1> QED
    BY <1>5, <1>6

LEMMA MapDecisionFits ==
    ASSUME TypeInv, PinInv, UNCHANGED db, admin' = admin + 1, MapDecided
    PROVE  /\ PolicyInv' /\ PinInv' /\ derived' \in [Maps -> Sums]
           /\ RowsMatchPolicy => RowsMatchPolicy'
  <1>1. PICK m \in Maps, p \in MapPols : MapDecision(m, p) /\ MapPinned(p, m)
    BY DEF MapDecided
  <1>2. /\ setPol' = setPol /\ mapPol' = [mapPol EXCEPT ![m] = p]
        /\ events' = {e \in events : e[2] # m}
        /\ derived' = Retired({m}, setPol, mapPol', events')
    BY <1>1 DEF MapDecision, Decide
  <1>3. /\ mapPol \in [Maps -> MapPols] /\ setPol \in SetPols /\ admin \in Nat
        /\ events \subseteq {"map", "set"} \X Maps /\ derived \in [Maps -> Sums]
    BY DEF TypeInv, PolicyInv, RowInv
  <1>4. PolicyInv'
    BY <1>2, <1>3 DEF PolicyInv
  <1>5. derived' \in [Maps -> Sums]
    BY <1>2, <1>3 DEF Retired, Sums
  <1>6. \A n \in Maps : MapPinned(mapPol[n], n)'
    BY <1>1, <1>2, <1>3 DEF PinInv, MapPinned, Alive
  <1>7. SetPinned(setPol)'
    BY <1>2 DEF PinInv, SetPinned, Alive
  <1>8. PinInv'
    BY <1>2, <1>6, <1>7 DEF PinInv
  <1>9. \A n \in Maps \ {m} : Untouched(n)
    BY <1>2, <1>3 DEF Untouched
  <1>10. RowsMatchPolicy => RowsMatchPolicy'
    BY <1>1, <1>9, DecisionRetires DEF MapDecision
  <1> QED
    BY <1>4, <1>5, <1>8, <1>10

LEMMA SetDecisionFits ==
    ASSUME TypeInv, PinInv, UNCHANGED db, admin' = admin + 1, SetDecided
    PROVE  /\ PolicyInv' /\ PinInv' /\ derived' \in [Maps -> Sums]
           /\ RowsMatchPolicy => RowsMatchPolicy'
  <1>1. PICK sp \in SetPols, mp \in [Maps -> MapPols] :
          SetDecision(sp, mp) /\ SetPinned(sp) /\ \A m \in Maps : MapPinned(mp[m], m)
    BY DEF SetDecided
  <1>2. /\ setPol' = sp /\ mapPol' = mp /\ events' = {}
        /\ derived' = Retired(AliveMaps, sp, mp, {})
    BY <1>1 DEF SetDecision, Decide
  <1>3. admin \in Nat /\ derived \in [Maps -> Sums]
    BY DEF TypeInv, PolicyInv, RowInv
  <1>4. PolicyInv'
    BY <1>1, <1>2, <1>3 DEF PolicyInv
  <1>5. derived' \in [Maps -> Sums]
    BY <1>2, <1>3 DEF Retired, Sums
  <1>6. PinInv'
    BY <1>1, <1>2 DEF PinInv, MapPinned, SetPinned, Alive
  <1>7. RowsMatchPolicy => RowsMatchPolicy'
    BY <1>1, DecisionRetires DEF SetDecision, AliveMaps
  <1> QED
    BY <1>4, <1>5, <1>6, <1>7

(***************************************************************************)
(* Tables.                                                                 *)
(***************************************************************************)
LEMMA PolicyStep ==
    ASSUME TypeInv, TodoInv, PinInv, [Next]_vars
    PROVE  PolicyInv'
  <1>1. PolicyInv
    BY DEF TypeInv
  <1>2. CASE UNCHANGED <<policies, admin>>
    BY <1>1, <1>2 DEF PolicyInv, policies
  <1>3. ASSUME NEW m \in Maps, Play(m)
        PROVE  PolicyInv'
    BY <1>2, <1>3 DEF Play
  <1>4. CASE Decision
    BY <1>4, DecisionShapes, MapDecisionFits, SetDecisionFits
  <1>5. ASSUME NEW e \in events, ResolveEvent(e)
        PROVE  PolicyInv'
    BY <1>1, <1>5 DEF ResolveEvent, PolicyInv
  <1>6. CASE SyncMap
    BY <1>6, SyncFrame
  <1> QED
    BY <1>2, <1>3, <1>4, <1>5, <1>6, Shapes

LEMMA RowStep ==
    ASSUME TypeInv, TodoInv, PinInv, [Next]_vars
    PROVE  RowInv'
  <1> DEFINE SetRows == [time : 0 .. MaxUp, status : UpStatuses \cup {"Graveyard"}]
  <1>1. /\ db \in [Maps -> Rows] /\ \A m \in Maps : db[m].md5 = 0 => db[m] = Absent
        /\ derived \in [Maps -> Sums]
        /\ dbSet = NoSet \/ dbSet \in SetRows
        /\ dbSet = NoSet => tracker = NoTracker /\ \A m \in Maps : db[m] = Absent
    BY DEF TypeInv, RowInv
  <1>2. NoSet \notin SetRows
    BY PolicyAssumption DEF NoSet
  <1>3. CASE UNCHANGED <<dbSet, db, tracker, derived>>
    BY <1>1, <1>3 DEF RowInv
  <1>4. CASE UNCHANGED <<db, derived>> /\ dbSet' \in SetRows
    BY <1>1, <1>2, <1>4 DEF RowInv
  <1>5. CASE UNCHANGED <<db, derived, dbSet>> /\ dbSet # NoSet
    BY <1>1, <1>5 DEF RowInv
  <1>6. ASSUME NEW m \in Maps, Play(m)
        PROVE  RowInv'
    <2>1. derived' = [derived EXCEPT ![m] = db[m].md5] /\ UNCHANGED <<dbSet, db, tracker>>
      BY <1>6 DEF Play
    <2>2. db[m].md5 \in Sums
      BY <1>1 DEF Rows
    <2> QED
      BY <1>1, <2>1, <2>2 DEF RowInv
  <1>7. CASE Decision
    <2>1. UNCHANGED <<dbSet, db>> /\ derived' \in [Maps -> Sums] /\ Tracks
      BY <1>7, DecisionShapes, MapDecisionFits, SetDecisionFits
    <2> QED
      BY <1>1, <2>1 DEF RowInv, Tracks
  <1>8. CASE RefreshBegin \/ AddTracker
    <2>1. UNCHANGED <<dbSet, db, derived>> /\ (dbSet = NoSet => UNCHANGED tracker)
      BY <1>8 DEF RefreshBegin, AddTracker
    <2> QED
      BY <1>3, <1>5, <2>1
  <1>9. CASE SyncSet
    <2>1. CASE dbSet' = [time |-> sync.snap.time, status |-> sync.snap.status]
      <3>1. sync.snap \in Snaps
        BY <1>9 DEF SyncSet, TypeInv, HolderInv
      <3>2. dbSet' \in SetRows
        BY <2>1, <3>1 DEF Snaps
      <3> QED
        BY <1>4, <1>9, <3>2 DEF SyncSet
    <2> QED
      BY <1>3, <1>9, <2>1 DEF SyncSet
  <1>10. CASE SyncMap
    <2>1. dbSet # NoSet /\ UNCHANGED <<dbSet, tracker>>
      BY <1>10 DEF SyncMap, TypeInv, HolderInv
    <2> QED
      BY <1>1, <1>10, <2>1, SyncFrame DEF RowInv
  <1>11. CASE SyncFinish \/ ImportFinish
    BY <1>5, <1>11 DEF SyncFinish, ImportFinish, TypeInv, HolderInv
  <1>12. CASE GoneFinish
    <2>1. dbSet \in SetRows /\ dbSet' = [dbSet EXCEPT !.status = "Graveyard"]
      BY <1>1, <1>12 DEF GoneFinish, TypeInv, HolderInv
    <2> QED
      BY <1>4, <1>12, <2>1 DEF GoneFinish
  <1>13. CASE \/ \E m \in Maps, r \in Revisions \cup {0} : UpRevise(m, r)
              \/ \E s \in UpStatuses : UpStatus(s)
              \/ UpGone \/ Prefetch \/ AddSync \/ SyncAborts \/ SyncBegin \/ GoneBegin
              \/ \E e \in events : ResolveEvent(e)
              \/ UNCHANGED vars
    BY <1>3, <1>13 DEF UpRevise, UpStatus, UpGone, Prefetch, AddSync, SyncAborts,
                       SyncBegin, GoneBegin, ResolveEvent, vars
  <1> QED
    BY <1>6, <1>7, <1>8, <1>9, <1>10, <1>11, <1>12, <1>13 DEF Next, SyncStep

(***************************************************************************)
(* Pins.                                                                   *)
(***************************************************************************)
LEMMA SyncPins ==
    ASSUME TypeInv, TodoInv, PinInv, SyncMap
    PROVE  PinInv'
  <1> PICK m \in Maps : m = Head.map
    BY SyncShapes
  <1>1. PolicyInv /\ UNCHANGED admin
    BY DEF SyncMap, TypeInv
  <1>2. /\ db \in [Maps -> Rows] /\ \A n \in Maps : db[n].md5 = 0 => db[n] = Absent
        /\ mapPol \in [Maps -> MapPols]
    BY DEF TypeInv, RowInv, PolicyInv
  <1>3. ASSUME NEW n \in Maps \ {m}
        PROVE  /\ MapPinned(mapPol[n], n)'
               /\ setPol'.active /\ ~setPol'.force /\ setPol'.manifest[n] # 0 =>
                     Alive(n)' /\ setPol'.manifest[n] = db'[n].md5
               /\ <<"set", n>> \in events' => setPol'.manifest[n] = 0
    BY <1>3, SyncFrame DEF PinInv, MapPinned, SetPinned, Untouched, Alive
  <1>4. ASSUME NEW sum, Invalidate(m, sum),
               sum # 0 => Alive(m)' /\ db'[m].md5 = sum,
               sum = 0 => db[m].md5 # 0
        PROVE  /\ MapPinned(mapPol[m], m)'
               /\ setPol'.active /\ setPol'.force => setPol'.status = "Graveyard"
               /\ setPol'.active /\ ~setPol'.force /\ setPol'.manifest[m] # 0 =>
                     Alive(m)' /\ setPol'.manifest[m] = db'[m].md5
               /\ <<"set", m>> \in events' => setPol'.manifest[m] = 0
    <2>1. /\ MapPinned(mapPol[m], m) /\ SetPinned(setPol)
          /\ <<"set", m>> \in events => setPol.manifest[m] = 0
      BY DEF PinInv
    <2>2. MapLosesPin(m, sum) /\ SetLosesPin(m, sum)
      BY <1>1, <1>4, Invalidated
    <2>3. MapPinned(mapPol[m], m)'
      BY <1>4, <2>1, <2>2 DEF MapPinned, MapLosesPin
    <2>4. setPol'.active /\ setPol'.force => setPol'.status = "Graveyard"
      BY <2>1, <2>2 DEF SetPinned, SetLosesPin
    <2>5. setPol'.active /\ ~setPol'.force /\ setPol'.manifest[m] # 0 =>
             Alive(m)' /\ setPol'.manifest[m] = db'[m].md5
      BY <1>4, <2>1, <2>2 DEF SetPinned, SetLosesPin
    <2>6. <<"set", m>> \in events' => setPol'.manifest[m] = 0
      BY <2>1, <2>2 DEF SetLosesPin
    <2> QED
      BY <2>3, <2>4, <2>5, <2>6
  <1>5. /\ MapPinned(mapPol[m], m)'
        /\ setPol'.active /\ setPol'.force => setPol'.status = "Graveyard"
        /\ setPol'.active /\ ~setPol'.force /\ setPol'.manifest[m] # 0 =>
              Alive(m)' /\ setPol'.manifest[m] = db'[m].md5
        /\ <<"set", m>> \in events' => setPol'.manifest[m] = 0
    <2>1. CASE Stays
      BY <1>1, <2>1 DEF Stays, policies, PinInv, MapPinned, SetPinned, Alive
    <2>2. CASE Row \in Rows /\ Row.md5 # 0 /\ (Restatus(m) \/ Revival(m))
      <3>1. UNCHANGED policies /\ db' = [db EXCEPT ![m] = Row] /\ db[m].md5 = Row.md5
        BY <2>2 DEF Restatus, Revival, ApplyStatus
      <3>2. db'[m] = Row /\ Row.deleted = FALSE /\ Row # Absent
        BY <1>1, <1>2, <2>2, <3>1 DEF Row, Absent
      <3>3. Alive(m)' /\ db'[m].md5 = db[m].md5
        BY <3>1, <3>2 DEF Alive
      <3> QED
        BY <1>1, <3>1, <3>3 DEF policies, PinInv, MapPinned, SetPinned
    <2>3. CASE Row \in Rows /\ Row.md5 # 0 /\ Revision(m)
      <3>1. Invalidate(m, Row.md5) /\ db' = [db EXCEPT ![m] = Row]
        BY <2>3 DEF Revision
      <3>2. db'[m] = Row /\ Row.deleted = FALSE /\ Row # Absent
        BY <1>1, <1>2, <2>3, <3>1 DEF Row, Absent
      <3>3. Alive(m)' /\ db'[m].md5 = Row.md5
        BY <3>2 DEF Alive
      <3>4. PICK sum : sum = Row.md5
        OBVIOUS
      <3> QED
        BY <1>4, <2>3, <3>1, <3>3, <3>4
    <2>4. CASE Removal(m)
      <3>1. Invalidate(m, 0) /\ Alive(m) /\ db[m].md5 # 0
        BY <1>1, <1>2, <2>4 DEF Removal, ApplyDelete, Alive
      <3> QED
        BY <1>4, <3>1
    <2> QED
      BY <2>1, <2>2, <2>3, <2>4, SyncShapes
  <1>6. \A n \in Maps : MapPinned(mapPol[n], n)'
    BY <1>3, <1>5
  <1> QED
    BY <1>3, <1>5, <1>6 DEF PinInv, SetPinned

LEMMA PinStep ==
    ASSUME TypeInv, TodoInv, PinInv, [Next]_vars
    PROVE  PinInv'
  <1>1. CASE UNCHANGED <<db, policies>>
    BY <1>1 DEF policies, PinInv, MapPinned, SetPinned, Alive
  <1>2. ASSUME NEW m \in Maps, Play(m)
        PROVE  PinInv'
    BY <1>1, <1>2 DEF Play
  <1>3. CASE Decision
    BY <1>3, DecisionShapes, MapDecisionFits, SetDecisionFits
  <1>4. ASSUME NEW e \in events, ResolveEvent(e)
        PROVE  PinInv'
    BY <1>4 DEF ResolveEvent, PinInv, MapPinned, SetPinned, Alive
  <1> QED
    BY <1>1, <1>2, <1>3, <1>4, SyncPins, Shapes

\* A difficulty is locally ranked by an active policy of its own or, without
\* one, by a pin of its set, and then the pin is for the revision it has.
MapRanks(m) == LET p == mapPol[m] IN
    p.active /\ ~p.force /\ ~p.blocks /\ HasLeaderboard(p.status)

SetRanks(m) ==
    /\ setPol.active /\ ~setPol.force /\ setPol.manifest[m] # 0
    /\ HasLeaderboard(setPol.status) /\ ~mapPol[m].active

RanksPinned == \A m \in Maps : LocalRank(m) <=> MapRanks(m) \/ SetRanks(m)

LEMMA RankIsPinned == TypeInv /\ PinInv => RanksPinned
  <1> SUFFICES ASSUME TypeInv, PinInv, NEW m \in Maps
               PROVE  LocalRank(m) <=> MapRanks(m) \/ SetRanks(m)
    BY DEF RanksPinned
  <1>1. mapPol[m] \in MapPols /\ MapPinned(mapPol[m], m)
    BY DEF TypeInv, PolicyInv, PinInv
  <1>2. CASE mapPol[m].active
    <2>1. CASE Alive(m)
      <3>1. MapPolicyApplies(mapPol[m], db[m].md5)
        BY <1>1, <1>2, <2>1 DEF MapPolicyApplies, MapPinned
      <3>2. Effective(m) = IF mapPol[m].blocks /\ ~mapPol[m].force
                           THEN Policy(db[m].status, "upstream")
                           ELSE Policy(mapPol[m].status, "map")
        BY <2>1, <3>1 DEF Effective, EffectiveIn, Alive
      <3> QED
        BY <1>1, <1>2, <3>2 DEF LocalRank, Policy, MapRanks, SetRanks, MapPinned, HasLeaderboard
    <2>2. CASE ~Alive(m)
      <3>1. ~LocalRank(m)
        BY <2>2 DEF LocalRank, Effective, EffectiveIn, Alive, Policy
      <3> QED
        BY <1>1, <1>2, <2>2, <3>1 DEF MapRanks, SetRanks, MapPinned
    <2> QED
      BY <2>1, <2>2
  <1>3. CASE ~mapPol[m].active
    <2>1. CASE Alive(m)
      <3>1. db[m].md5 # 0
        BY <2>1, AliveIsStored
      <3>2. Effective(m) = IF SetPolicyApplies(setPol, m, db[m].md5, events)
                           THEN Policy(setPol.status, "set")
                           ELSE Policy(db[m].status, "upstream")
        BY <1>3, <2>1 DEF Effective, EffectiveIn, Alive, MapPolicyApplies
      <3>3. setPol.active /\ setPol.force => ~HasLeaderboard(setPol.status)
        BY DEF PinInv, SetPinned, HasLeaderboard
      <3>4. SetPolicyApplies(setPol, m, db[m].md5, events) /\ ~setPol.force <=>
               setPol.active /\ ~setPol.force /\ setPol.manifest[m] # 0
        BY <3>1 DEF SetPolicyApplies, PinInv, SetPinned
      <3> QED
        BY <1>3, <3>2, <3>3, <3>4 DEF LocalRank, Policy, MapRanks, SetRanks, SetPolicyApplies
    <2>2. CASE ~Alive(m)
      <3>1. ~LocalRank(m)
        BY <2>2 DEF LocalRank, Effective, EffectiveIn, Alive, Policy
      <3> QED
        BY <1>3, <2>2, <3>1 DEF MapRanks, SetRanks, PinInv, SetPinned
    <2> QED
      BY <2>1, <2>2
  <1> QED
    BY <1>2, <1>3

(***************************************************************************)
(* Tracked sets.                                                           *)
(***************************************************************************)
\* A sync activates no policy.
LEMMA SyncRanksNothing ==
    ASSUME TypeInv, TodoInv, SyncMap
    PROVE  HasActiveLocalRank' => HasActiveLocalRank
  <1> PICK m \in Maps : m = Head.map
    BY SyncShapes
  <1>1. PolicyInv /\ UNCHANGED admin
    BY DEF TypeInv, SyncMap
  <1>2. CASE UNCHANGED policies
    BY <1>2 DEF policies, HasActiveLocalRank
  <1>3. ASSUME NEW sum, Invalidate(m, sum)
        PROVE  HasActiveLocalRank' => HasActiveLocalRank
    <2>1. MapLosesPin(m, sum) /\ SetLosesPin(m, sum) /\ OthersKeepPins(m)
      BY <1>1, <1>3, Invalidated
    <2>2. \A n \in Maps : mapPol'[n].active /\ ~mapPol'[n].blocks =>
                            mapPol[n].active /\ ~mapPol[n].blocks
      BY <2>1 DEF MapLosesPin, OthersKeepPins
    <2> QED
      BY <2>1, <2>2 DEF HasActiveLocalRank, SetLosesPin
  <1>4. CASE Removal(m)
    BY <1>3, <1>4 DEF Removal, ApplyDelete
  <1>5. CASE Revision(m)
    <2>1. PICK sum : sum = Row.md5
      OBVIOUS
    <2> QED
      BY <1>3, <1>5, <2>1 DEF Revision
  <1> QED
    BY <1>2, <1>4, <1>5, SyncShapes DEF Stays, Restatus, Revival, ApplyStatus, policies

LEMMA TrackedStep ==
    ASSUME TypeInv, TodoInv, PinInv, LocalRanksAreTracked, [Next]_vars
    PROVE  LocalRanksAreTracked'
  <1>1. CASE UNCHANGED policies /\ (HasActiveLocalRank => UNCHANGED tracker \/ tracker' # NoTracker)
    <2>1. HasActiveLocalRank' <=> HasActiveLocalRank
      BY <1>1 DEF policies, HasActiveLocalRank
    <2> QED
      BY <1>1, <2>1 DEF LocalRanksAreTracked
  <1>2. CASE RefreshBegin
    <2>1. UNCHANGED tracker \/ (dbSet # NoSet /\ tracker = NoTracker)
      BY <1>2 DEF RefreshBegin
    <2> QED
      BY <1>1, <1>2, <2>1 DEF RefreshBegin, LocalRanksAreTracked
  <1>3. CASE AddTracker
    BY <1>1, <1>3 DEF AddTracker, LocalRanksAreTracked
  <1>4. CASE SyncFinish \/ ImportFinish
    <2>1. sync.snap \in Snaps
      BY <1>4 DEF SyncFinish, ImportFinish, TypeInv, HolderInv
    <2>2. sync.snap.status # "none"
      BY <2>1, PolicyAssumption DEF Snaps
    <2>3. ManifestOf(sync.snap) # NoTracker
      BY <2>2 DEF ManifestOf, NoTracker
    <2>4. HasActiveLocalRank => UNCHANGED tracker \/ tracker' # NoTracker
      BY <1>4, <2>3 DEF SyncFinish, ImportFinish
    <2> QED
      BY <1>1, <1>4, <2>4 DEF SyncFinish, ImportFinish
  <1>5. CASE GoneFinish
    <2>1. HasActiveLocalRank => tracker' # NoTracker
      BY <1>5 DEF GoneFinish, NoTracker
    <2> QED
      BY <1>1, <1>5, <2>1 DEF GoneFinish
  <1>6. CASE Decision
    <2>1. Tracks
      BY <1>6, DecisionShapes
    <2> QED
      BY <2>1 DEF Tracks, LocalRanksAreTracked
  <1>7. CASE SyncMap
    BY <1>7, SyncRanksNothing DEF SyncMap, LocalRanksAreTracked
  <1>8. ASSUME NEW e \in events, ResolveEvent(e)
        PROVE  LocalRanksAreTracked'
    BY <1>8 DEF ResolveEvent, LocalRanksAreTracked, HasActiveLocalRank
  <1>9. CASE \/ \E m \in Maps, r \in Revisions \cup {0} : UpRevise(m, r)
             \/ \E s \in UpStatuses : UpStatus(s)
             \/ UpGone \/ Prefetch \/ AddSync \/ SyncAborts \/ SyncBegin \/ GoneBegin \/ SyncSet
             \/ \E m \in Maps : Play(m)
             \/ UNCHANGED vars
    BY <1>1, <1>9 DEF UpRevise, UpStatus, UpGone, Prefetch, AddSync, SyncAborts, SyncBegin,
                      GoneBegin, SyncSet, Play, vars, policies
  <1> QED
    BY <1>2, <1>3, <1>4, <1>5, <1>6, <1>7, <1>8, <1>9 DEF Next, SyncStep

(***************************************************************************)
(* Leaderboard rows.                                                       *)
(***************************************************************************)
LEMMA SyncRows ==
    ASSUME TypeInv, TodoInv, RowsMatchPolicy, SyncMap
    PROVE  RowsMatchPolicy'
  <1> SUFFICES ASSUME NEW n \in Maps, derived'[n] # 0
               PROVE  Alive(n)' /\ derived'[n] = db'[n].md5 /\ HasLeaderboard(Effective(n).status)'
    BY DEF RowsMatchPolicy
  <1> PICK m \in Maps : m = Head.map
    BY SyncShapes
  <1>1. CASE Untouched(n) /\ derived'[n] = derived[n]
    BY <1>1, UntouchedPolicy DEF RowsMatchPolicy, Untouched, HasLeaderboard
  <1>2. CASE n # m
    BY <1>1, <1>2, SyncFrame
  <1>3. CASE n = m
    <2>1. derived \in [Maps -> Sums] /\ db \in [Maps -> Rows]
      BY DEF TypeInv, RowInv
    <2>2. derived[m] # 0 => Alive(m) /\ derived[m] = db[m].md5
                            /\ HasLeaderboard(Effective(m).status)
      BY DEF RowsMatchPolicy
    <2>3. CASE Stays
      BY <1>1, <2>3 DEF Stays, policies, Untouched
    <2>4. CASE Removal(m)
      BY <1>3, <2>1, <2>4 DEF Removal, ApplyDelete
    <2>5. CASE Revival(m) \/ Revision(m)
      BY <1>3, <2>1, <2>2, <2>5 DEF Revival, Revision
    <2>6. CASE Restatus(m) /\ Row.md5 # 0
      <3>1. /\ db' = [db EXCEPT ![m] = Row] /\ UNCHANGED policies
            /\ db[m].md5 = Row.md5
            /\ derived' = IF /\ HasLeaderboard(Effective(m).status)
                             /\ ~HasLeaderboard(EffectiveIn(Row, mapPol[m], setPol, events, m).status)
                          THEN [derived EXCEPT ![m] = 0] ELSE derived
        BY <2>6 DEF Restatus, ApplyStatus
      <3>2. derived'[m] = derived[m] /\ db'[m] = Row
        BY <1>3, <2>1, <3>1
      <3>3. HasLeaderboard(EffectiveIn(Row, mapPol[m], setPol, events, m).status)
        BY <1>3, <2>1, <2>2, <3>1, <3>2
      <3>4. HasLeaderboard(Effective(m).status)'
        BY <3>1, <3>2, <3>3 DEF Effective, policies, HasLeaderboard
      <3>5. Alive(m)'
        BY <2>6, <3>2 DEF Alive, Row, Absent
      <3> QED
        BY <1>3, <2>2, <3>1, <3>2, <3>4, <3>5
    <2> QED
      BY <2>3, <2>4, <2>5, <2>6, SyncShapes
  <1> QED
    BY <1>2, <1>3

LEMMA ResolvedPolicy ==
    ASSUME TypeInv, PinInv, NEW e \in events, ResolveEvent(e), NEW n \in Maps
    PROVE  Effective(n)' = Effective(n) /\ LocalRank(n)' = LocalRank(n)
  <1>1. UNCHANGED <<db, setPol, mapPol>> /\ events' = events \ {e}
    BY DEF ResolveEvent
  <1>2. CASE Alive(n)
    <2>1. db[n].md5 # 0
      BY <1>2, AliveIsStored
    <2>2. SetPolicyApplies(setPol, n, db[n].md5, events')
             <=> SetPolicyApplies(setPol, n, db[n].md5, events)
      BY <1>1, <2>1 DEF SetPolicyApplies, PinInv
    <2>3. Effective(n)' = Effective(n)
      BY <1>1, <2>2 DEF Effective, EffectiveIn
    <2> QED
      BY <2>3 DEF LocalRank
  <1>3. CASE ~Alive(n)
    <2>1. Effective(n)' = Effective(n)
      BY <1>1, <1>3 DEF Effective, EffectiveIn, Alive
    <2> QED
      BY <2>1 DEF LocalRank
  <1> QED
    BY <1>2, <1>3

LEMMA RowsStep ==
    ASSUME TypeInv, TodoInv, PinInv, RowsMatchPolicy, [Next]_vars
    PROVE  RowsMatchPolicy'
  <1>1. ASSUME UNCHANGED <<db, policies>>
        PROVE  \A n \in Maps : Effective(n)' = Effective(n) /\ (Alive(n)' <=> Alive(n))
    <2>1. \A n \in Maps : Untouched(n)
      BY <1>1 DEF policies, Untouched
    <2> QED
      BY <2>1, UntouchedPolicy
  <1>2. CASE UNCHANGED <<db, policies, derived, admin>>
    BY <1>1, <1>2 DEF RowsMatchPolicy, HasLeaderboard
  <1>3. ASSUME NEW m \in Maps, Play(m)
        PROVE  RowsMatchPolicy'
    <2>1. /\ derived' = [derived EXCEPT ![m] = db[m].md5] /\ UNCHANGED <<db, policies>>
          /\ Alive(m) /\ HasLeaderboard(Effective(m).status)
      BY <1>3 DEF Play
    <2>2. derived \in [Maps -> Sums]
      BY DEF TypeInv, RowInv
    <2> QED
      BY <1>1, <2>1, <2>2 DEF RowsMatchPolicy, HasLeaderboard
  <1>4. CASE Decision
    BY <1>4, DecisionShapes, MapDecisionFits, SetDecisionFits
  <1>5. ASSUME NEW e \in events, ResolveEvent(e)
        PROVE  RowsMatchPolicy'
    <2>1. UNCHANGED <<db, derived>>
      BY <1>5 DEF ResolveEvent
    <2>2. \A n \in Maps : Effective(n)' = Effective(n)
      BY <1>5, ResolvedPolicy
    <2> QED
      BY <2>1, <2>2 DEF RowsMatchPolicy, HasLeaderboard, Alive
  <1>6. CASE SyncMap
    BY <1>6, SyncRows
  <1> QED
    BY <1>2, <1>3, <1>4, <1>5, <1>6, Shapes

(***************************************************************************)
(* The theorems.                                                           *)
(***************************************************************************)
LEMMA InvInit == Init => Inv
  <1> SUFFICES ASSUME Init
               PROVE  Inv
    OBVIOUS
  <1>1. Min(Revisions) \in Revisions
    BY Smallest, PolicyAssumption DEF Min
  <1>2. UpInv
    BY <1>1, PolicyAssumption DEF Init, UpInv, Sums
  <1>3. RowInv
    BY DEF Init, RowInv, Rows, Sums, Statuses, Absent
  <1>4. PolicyInv
    BY DEF Init, PolicyInv, SetPols, MapPols, NoPolicy, Sums, Statuses
  <1>5. HolderInv
    BY DEF Init, HolderInv, Idle, Syncs
  <1>6. TodoInv
    BY DEF Init, TodoInv, Idle
  <1>7. PinInv /\ RankInv
    BY DEF Init, PinInv, MapPinned, SetPinned, NoPolicy, RankInv, LocalRanksAreTracked,
           HasActiveLocalRank, RowsMatchPolicy
  <1> QED
    BY <1>2, <1>3, <1>4, <1>5, <1>6, <1>7 DEF Inv, TypeInv

LEMMA InvStep == Inv /\ [Next]_vars => Inv'
  <1> SUFFICES ASSUME Inv, [Next]_vars
               PROVE  Inv'
    OBVIOUS
  <1>1. TypeInv /\ TodoInv /\ PinInv /\ LocalRanksAreTracked /\ RowsMatchPolicy
    BY DEF Inv, RankInv
  <1>2. TypeInv'
    BY <1>1, UpStep, RowStep, PolicyStep, HolderStep DEF TypeInv
  <1>3. TodoInv' /\ PinInv'
    BY <1>1, TodoStep, PinStep
  <1>4. RankInv'
    BY <1>1, TrackedStep, RowsStep DEF RankInv
  <1> QED
    BY <1>2, <1>3, <1>4 DEF Inv

LEMMA InvAlways == Spec => []Inv
  BY InvInit, InvStep, PTL DEF Spec

LEMMA PinnedAlways == Spec => [](Inv /\ RanksPinned)
  <1>1. Inv => RanksPinned
    BY RankIsPinned DEF Inv
  <1> QED
    BY <1>1, InvAlways, PTL

\* Rows, policies, snapshots and the work of a sync keep their types.
THEOREM PolicyTypeCorrect == Spec => []TypeOK
  <1>1. Inv => TypeOK
    <2> SUFFICES ASSUME Inv
                 PROVE  TypeOK
      OBVIOUS
    <2>1. /\ sync \in Syncs /\ db \in [Maps -> Rows] /\ derived \in [Maps -> Sums]
          /\ \A m \in Maps : db[m].md5 = 0 => db[m] = Absent
          /\ setPol \in SetPols /\ mapPol \in [Maps -> MapPols]
          /\ events \subseteq {"map", "set"} \X Maps
          /\ dbSet = NoSet => tracker = NoTracker
          /\ dbSet = NoSet \/ dbSet.time \in 0 .. MaxUp
      BY DEF Inv, TypeInv, RowInv, PolicyInv, HolderInv
    <2>2. \A m \in Maps : /\ db[m] = Absent \/ db[m].md5 \in Revisions
                          /\ mapPol[m].sum \in Sums /\ setPol.manifest[m] \in Sums
                          /\ derived[m] \in Sums
      BY <2>1 DEF Rows, Sums, MapPols, SetPols
    <2>3. ASSUME NEW c \in [map : Maps, type : Types]
          PROVE  c \in {Change(m, t) : m \in Maps,
                                       t \in {"added", "updated", "status", "deleted"}}
      <3>1. c.map \in Maps /\ c.type \in {"added", "updated", "status", "deleted"}
        BY DEF Types
      <3>2. c = Change(c.map, c.type)
        BY DEF Change
      <3> QED
        BY <3>1, <3>2
    <2>4. /\ sync.pc \in {"idle", "set", "maps", "gone"}
          /\ sync.todo \subseteq
               {Change(m, t) : m \in Maps, t \in {"added", "updated", "status", "deleted"}}
      BY <2>1, <2>3 DEF Syncs
    <2> QED
      BY <2>1, <2>2, <2>4 DEF TypeOK, Sums
  <1> QED
    BY <1>1, InvAlways, PTL

\* A set with an active local rank stays tracked (_process_changed_beatmapset
\* removes it from the sync list only after it has looked for one).
THEOREM RanksAlwaysTracked == Spec => []LocalRanksAreTracked
  BY InvAlways, PTL DEF Inv, RankInv

\* Leaderboard rows belong to the chart in the database and to a policy that
\* has a leaderboard.
THEOREM RowsAlwaysMatch == Spec => []RowsMatchPolicy
  BY InvAlways, PTL DEF Inv, RankInv

LEMMA RankChanges ==
    ASSUME TypeInv, TodoInv, PinInv, TypeInv', RanksPinned, RanksPinned', [Next]_vars,
           NEW m \in Maps
    PROVE  /\ ~LocalRank(m) /\ LocalRank(m)' => admin' # admin
           /\ LocalRank(m) /\ ~LocalRank(m)' /\ admin' = admin =>
                 \E scope \in {"map", "set"} : <<scope, m>> \in events'
  <1>1. LocalRank(m) <=> MapRanks(m) \/ SetRanks(m)
    BY DEF RanksPinned
  <1>2. LocalRank(m)' <=> MapRanks(m)' \/ SetRanks(m)'
    BY DEF RanksPinned
  <1>3. CASE UNCHANGED policies
    BY <1>1, <1>2, <1>3 DEF policies, MapRanks, SetRanks, HasLeaderboard
  <1>4. CASE Decision
    <2>1. admin' = admin + 1 /\ admin \in Nat
      BY <1>4, DecisionShapes DEF TypeInv, PolicyInv
    <2> QED
      BY <2>1
  <1>5. ASSUME NEW e \in events, ResolveEvent(e)
        PROVE  LocalRank(m)' = LocalRank(m)
    BY <1>5, ResolvedPolicy
  <1>6. ASSUME NEW sum, Invalidate(m, sum), UNCHANGED admin
        PROVE  /\ LocalRank(m)' => LocalRank(m)
               /\ LocalRank(m) /\ ~LocalRank(m)' =>
                     \E scope \in {"map", "set"} : <<scope, m>> \in events'
    <2>1. PolicyInv /\ MapPinned(mapPol[m], m) /\ SetPinned(setPol)
      BY DEF TypeInv, PinInv
    <2>2. MapLosesPin(m, sum) /\ SetLosesPin(m, sum)
      BY <1>6, <2>1, Invalidated
    <2>3. MapRanks(m)' => MapRanks(m)
      BY <2>2 DEF MapRanks, HasLeaderboard, MapLosesPin
    <2>4. SetRanks(m)' => SetRanks(m)
      BY <2>1, <2>2 DEF SetRanks, HasLeaderboard, MapPinned, SetPinned, MapLosesPin, SetLosesPin
    <2>5. MapRanks(m) /\ ~MapRanks(m)' => <<"map", m>> \in events'
      <3>1. mapPol[m] \in MapPols /\ mapPol'[m] \in MapPols
        BY DEF TypeInv, PolicyInv
      <3> QED
        BY <2>2, <3>1 DEF MapRanks, HasLeaderboard, MapPols, MapLosesPin
    <2>6. SetRanks(m) /\ ~SetRanks(m)' => \E scope \in {"map", "set"} : <<scope, m>> \in events'
      BY <2>2 DEF SetRanks, HasLeaderboard, MapLosesPin, SetLosesPin
    <2> QED
      BY <1>1, <1>2, <2>3, <2>4, <2>5, <2>6
  <1>7. CASE SyncMap
    <2> PICK h \in Maps : h = Head.map
      BY <1>7, SyncShapes
    <2>1. UNCHANGED admin
      BY <1>7 DEF SyncMap
    <2>2. CASE h # m
      <3>1. LocalRank(m)' = LocalRank(m)
        BY <1>7, <2>2, SyncFrame, UntouchedPolicy
      <3> QED
        BY <3>1
    <2>3. CASE h = m
      <3>1. CASE Removal(m)
        BY <1>6, <2>1, <3>1 DEF Removal, ApplyDelete
      <3>2. CASE Revision(m)
        <4>1. PICK sum : sum = Row.md5
          OBVIOUS
        <4> QED
          BY <1>6, <2>1, <3>2, <4>1 DEF Revision
      <3> QED
        BY <1>3, <1>7, <2>3, <3>1, <3>2, SyncShapes
           DEF Stays, Restatus, Revival, ApplyStatus
    <2> QED
      BY <2>2, <2>3
  <1>8. ASSUME NEW n \in Maps, Play(n)
        PROVE  UNCHANGED policies
    BY <1>8 DEF Play
  <1> QED
    BY <1>3, <1>4, <1>5, <1>7, <1>8, Shapes

\* No step but a decision of an operator makes a difficulty locally ranked.
THEOREM NeverRankedByItself == Spec => NoRankByItself
  <1>1. Inv /\ RanksPinned /\ (Inv /\ RanksPinned)' /\ [Next]_vars =>
          [\A m \in Maps : (~LocalRank(m) /\ LocalRank(m)') => admin' # admin]_vars
    BY RankChanges DEF Inv
  <1> QED
    BY <1>1, PinnedAlways, PTL DEF Spec, NoRankByItself

\* A local rank that is lost without a decision leaves an event.
THEOREM LossAlwaysReported == Spec => LostRanksAreReported
  <1>1. Inv /\ RanksPinned /\ (Inv /\ RanksPinned)' /\ [Next]_vars =>
          [\A m \in Maps : (LocalRank(m) /\ ~LocalRank(m)' /\ admin' = admin)
             => \E scope \in {"map", "set"} : <<scope, m>> \in events']_vars
    BY RankChanges DEF Inv
  <1> QED
    BY <1>1, PinnedAlways, PTL DEF Spec, LostRanksAreReported

\* The policy of the set decides about a difficulty when it has no active policy
\* of its own and the set's pin for it was not dropped.
SetHolds(m) ==
    /\ setPol.active /\ ~setPol.force /\ setPol.manifest[m] # 0
    /\ ~mapPol[m].active

SetPins(m) == Effective(m).source = "set" /\ ~setPol.force

SetPinsHeld == \A m \in Maps : SetPins(m) <=> SetHolds(m)

LEMMA SetPinIsHeld == TypeInv /\ PinInv => SetPinsHeld
  <1> SUFFICES ASSUME TypeInv, PinInv, NEW m \in Maps
               PROVE  SetPins(m) <=> SetHolds(m)
    BY DEF SetPinsHeld
  <1>1. mapPol[m] \in MapPols /\ MapPinned(mapPol[m], m) /\ SetPinned(setPol)
        /\ (<<"set", m>> \in events => setPol.manifest[m] = 0)
    BY DEF TypeInv, PolicyInv, PinInv
  <1>2. CASE ~Alive(m)
    BY <1>1, <1>2 DEF SetPins, SetHolds, Effective, EffectiveIn, Alive, Policy, SetPinned
  <1>3. CASE Alive(m) /\ mapPol[m].active
    <2>1. MapPolicyApplies(mapPol[m], db[m].md5)
      BY <1>1, <1>3 DEF MapPolicyApplies, MapPinned
    <2> QED
      BY <1>3, <2>1 DEF SetPins, SetHolds, Effective, EffectiveIn, Alive, Policy
  <1>4. CASE Alive(m) /\ ~mapPol[m].active
    <2>1. db[m].md5 # 0
      BY <1>4, AliveIsStored
    <2>2. Effective(m) = IF SetPolicyApplies(setPol, m, db[m].md5, events)
                         THEN Policy(setPol.status, "set")
                         ELSE Policy(db[m].status, "upstream")
      BY <1>4 DEF Effective, EffectiveIn, Alive, MapPolicyApplies
    <2>3. SetPolicyApplies(setPol, m, db[m].md5, events) /\ ~setPol.force <=> SetHolds(m)
      BY <1>1, <1>4, <2>1 DEF SetPolicyApplies, SetPinned, SetHolds
    <2> QED
      BY <2>2, <2>3 DEF SetPins, SetHolds, SetPolicyApplies, Policy
  <1> QED
    BY <1>2, <1>3, <1>4

LEMMA SetHoldChanges ==
    ASSUME TypeInv, TodoInv, PinInv, [Next]_vars, NEW m \in Maps, ~SetHolds(m), SetHolds(m)'
    PROVE  admin' # admin
  <1>1. CASE UNCHANGED <<setPol, mapPol>>
    BY <1>1 DEF SetHolds
  <1>2. CASE Decision
    <2>1. admin' = admin + 1 /\ admin \in Nat
      BY <1>2, DecisionShapes DEF TypeInv, PolicyInv
    <2> QED
      BY <2>1
  <1>3. ASSUME NEW sum, Invalidate(m, sum), UNCHANGED admin
        PROVE  FALSE
    <2>1. PolicyInv /\ MapPinned(mapPol[m], m) /\ SetPinned(setPol)
      BY DEF TypeInv, PinInv
    <2>2. MapLosesPin(m, sum) /\ SetLosesPin(m, sum)
      BY <1>3, <2>1, Invalidated
    <2> QED
      BY <2>1, <2>2 DEF SetHolds, MapPinned, SetPinned, MapLosesPin, SetLosesPin
  <1>4. CASE SyncMap
    <2> PICK h \in Maps : h = Head.map
      BY <1>4, SyncShapes
    <2>0. UNCHANGED admin
      BY <1>4 DEF SyncMap
    <2>1. CASE h # m
      BY <1>4, <2>1, SyncFrame DEF SetHolds, Untouched
    <2>2. CASE h = m
      <3>1. CASE Removal(m)
        BY <1>3, <2>0, <3>1 DEF Removal, ApplyDelete
      <3>2. CASE Revision(m)
        <4>1. PICK sum : sum = Row.md5
          OBVIOUS
        <4> QED
          BY <1>3, <2>0, <3>2, <4>1 DEF Revision
      <3> QED
        BY <1>1, <1>4, <2>2, <3>1, <3>2, SyncShapes
           DEF Stays, Restatus, Revival, ApplyStatus, policies
    <2> QED
      BY <2>1, <2>2
  <1>5. ASSUME NEW e \in events, ResolveEvent(e)
        PROVE  UNCHANGED <<setPol, mapPol>>
    BY <1>5 DEF ResolveEvent
  <1>6. ASSUME NEW n \in Maps, Play(n)
        PROVE  UNCHANGED <<setPol, mapPol>>
    BY <1>6 DEF Play, policies
  <1> QED
    BY <1>1, <1>2, <1>4, <1>5, <1>6, Shapes DEF policies

\* As long as every change of a row goes through the synchroniser, the policy of
\* a set never comes to rank an edited difficulty without a decision: what the
\* run on WarehouseSpec shows is due to the rows the SOMSAI warehouse saves.
THEOREM NothingInheritedWithoutWarehouse == Spec => EditsAreNotInherited
  <1> DEFINE NotInherited ==
        \A m \in Maps : ~SetPins(m) /\ SetPins(m)' => admin' # admin
  <1>1. Inv /\ SetPinsHeld /\ SetPinsHeld' /\ [Next]_vars => [NotInherited]_vars
    BY SetHoldChanges DEF Inv, SetPinsHeld
  <1>2. Inv => SetPinsHeld
    BY SetPinIsHeld DEF Inv
  <1> HIDE DEF NotInherited
  <1>3. Spec => [][NotInherited]_vars
    BY <1>1, <1>2, InvAlways, PTL DEF Spec
  <1> QED
    BY <1>3 DEF NotInherited, SetPins, EditsAreNotInherited

=============================================================================
