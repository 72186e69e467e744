---------------------------- MODULE BeatmapPolicy ----------------------------
(***************************************************************************)
(* Local ranking policies of one beatmapset and its synchronisation with   *)
(* the official server.  Operators rank, unrank and clear the set or one   *)
(* difficulty; the synchroniser fetches snapshots and applies them one     *)
(* difficulty at a time before it advances its comparison manifest; both   *)
(* serialise on the Beatmapset row, so one database transaction is one     *)
(* action.  The synchroniser's own lock lives in memory and is `sync`.     *)
(***************************************************************************)
EXTENDS Integers, FiniteSets, FiniteSetsExt

CONSTANTS Maps,        \* difficulty ids, a finite set of naturals
          Revisions,   \* checksums upstream may give a difficulty
          UpStatuses,  \* statuses upstream may give the set
          FirstStatus, \* the status upstream starts with
          MaxUp,       \* bound: upstream changes
          MaxAdmin,    \* bound: ranking decisions, after which one may clear
          MaxCrashes   \* bound: restarts and failed transactions of a sync

ASSUME PolicyAssumption ==
    /\ Maps \subseteq Nat /\ IsFiniteSet(Maps) /\ Revisions \subseteq Nat \ {0}
    /\ Revisions # {}
    /\ UpStatuses \subseteq {"Pending", "Qualified", "Ranked"} /\ FirstStatus \in UpStatuses
    /\ MaxUp \in Nat /\ MaxAdmin \in Nat /\ MaxCrashes \in Nat

VARIABLES
    up,       \* the official server: [time, status, maps, gone]
    dbSet,    \* Beatmapset row: [time, status], or NoSet
    db,       \* Beatmap rows: [md5, status, deleted], or Absent
    setPol,   \* BeatmapsetRankingPolicy: [exists, active, force, status, manifest]
    mapPol,   \* BeatmapRankingPolicy rows: [active, force, blocks, sum, status]
    events,   \* unresolved BeatmapRankingEvents: <<scope, map>>
    tracker,  \* BeatmapSync record: [maps, status], or NoTracker
    sync,     \* the sync holding the in-memory lock: [pc, snap, todo, changed, import]
    inbox,    \* a snapshot fetched before the lock, or NoSnap
    derived,  \* revision the leaderboard rows of a map belong to, 0 for none
    ups, admin, crashes

vars == <<up, dbSet, db, setPol, mapPol, events, tracker, sync, inbox, derived,
          ups, admin, crashes>>

upstream == <<up, ups>>
policies == <<setPol, mapPol, events>>

Absent    == [md5 |-> 0, status |-> "none", deleted |-> FALSE]
NoSet     == [time |-> -1, status |-> "none"]
NoTracker == [maps |-> <<>>, status |-> "none"]
NoSnap    == [time |-> -1]
NoPolicy  == [active |-> FALSE, force |-> FALSE, blocks |-> FALSE, sum |-> 0,
              status |-> "none"]
Idle      == [pc |-> "idle", snap |-> NoSnap, todo |-> {}, changed |-> FALSE,
              import |-> FALSE]

HasLeaderboard(st) == st \in {"Ranked", "Qualified", "Loved"}
IsRanked(st)       == st \in {"Ranked", "Loved"}

\* A full upstream response; every difficulty carries the status of its set.
Snap(u) == [time |-> u.time, status |-> u.status, maps |-> u.maps]

Present(snap, m) == snap.maps[m] # 0
Alive(m)         == db[m] # Absent /\ ~db[m].deleted

-----------------------------------------------------------------------------
(* Effective policy.                                                        *)

\* A pinned decision counts for its checksum only; a forced unrank and a
\* tombstone survive revisions.
MapPolicyApplies(p, sum) == p.active /\ (p.force \/ p.blocks \/ p.sum = sum)

SetPolicyApplies(p, m, sum, ev) ==
    p.active /\ (p.force \/ (p.manifest[m] = sum /\ <<"set", m>> \notin ev))

Policy(status, source) == [status |-> status, source |-> source]

\* Difficulty policy, then set policy, then upstream.
EffectiveIn(d, mp, sp, ev, m) ==
    IF d.deleted \/ d = Absent THEN Policy("Graveyard", "upstream")
    ELSE IF MapPolicyApplies(mp, d.md5)
         THEN IF mp.blocks /\ ~mp.force THEN Policy(d.status, "upstream")
              ELSE Policy(mp.status, "map")
    ELSE IF SetPolicyApplies(sp, m, d.md5, ev) THEN Policy(sp.status, "set")
    ELSE Policy(d.status, "upstream")

Effective(m) == EffectiveIn(db[m], mapPol[m], setPol, events, m)

LocalRank(m) == Effective(m).source # "upstream" /\ HasLeaderboard(Effective(m).status)

\* An active policy other than a tombstone.
HasActiveLocalRank == setPol.active \/ \E m \in Maps : mapPol[m].active /\ ~mapPol[m].blocks

\* The saved comparison record of the rows the database holds.
ManifestOfDb == [maps |-> db, status |-> dbSet.status]

\* _schedule_local_rank_sync: a decision makes sure the set is tracked.
Schedule == tracker' = IF tracker = NoTracker THEN ManifestOfDb ELSE tracker

-----------------------------------------------------------------------------
Init ==
    /\ up = [time |-> 0, status |-> FirstStatus, gone |-> FALSE,
             maps |-> [m \in Maps |-> Min(Revisions)]]
    /\ dbSet = NoSet /\ db = [m \in Maps |-> Absent]
    /\ setPol = [exists |-> FALSE, active |-> FALSE, force |-> FALSE,
                 status |-> "none", manifest |-> [m \in Maps |-> 0]]
    /\ mapPol = [m \in Maps |-> NoPolicy] /\ events = {}
    /\ tracker = NoTracker /\ sync = Idle /\ inbox = NoSnap
    /\ derived = [m \in Maps |-> 0] /\ ups = 0 /\ admin = 0 /\ crashes = 0

-----------------------------------------------------------------------------
(* The official server (external).                                          *)

\* A difficulty is edited (or reverted), added or removed; 0 is absent.
UpRevise(m, r) ==
    /\ ups < MaxUp /\ ups' = ups + 1 /\ ~up.gone /\ r # up.maps[m]
    /\ up' = [up EXCEPT !.maps[m] = r, !.time = @ + 1]
    /\ UNCHANGED <<dbSet, db, policies, tracker, sync, inbox, derived, admin, crashes>>

\* A status change keeps last_updated.
UpStatus(s) ==
    /\ ups < MaxUp /\ ups' = ups + 1 /\ ~up.gone /\ s # up.status
    /\ up' = [up EXCEPT !.status = s]
    /\ UNCHANGED <<dbSet, db, policies, tracker, sync, inbox, derived, admin, crashes>>

\* The set disappears (404) or comes back.
UpGone ==
    /\ ups < MaxUp /\ ups' = ups + 1
    /\ up' = [up EXCEPT !.gone = ~@]
    /\ UNCHANGED <<dbSet, db, policies, tracker, sync, inbox, derived, admin, crashes>>

-----------------------------------------------------------------------------
(* Scores.                                                                  *)

\* A score on the current revision reaches the leaderboard.
Play(m) ==
    /\ Alive(m) /\ HasLeaderboard(Effective(m).status)
    /\ derived' = [derived EXCEPT ![m] = db[m].md5]
    /\ UNCHANGED <<upstream, dbSet, db, policies, tracker, sync, inbox, admin, crashes>>

\* Leaderboard rows a change of effective policy retires, for the given maps.
Retired(changed, sp, mp, ev) ==
    [m \in Maps |->
       IF /\ m \in changed /\ HasLeaderboard(Effective(m).status)
          /\ ~HasLeaderboard(EffectiveIn(db[m], mp[m], sp, ev, m).status)
       THEN 0 ELSE derived[m]]

-----------------------------------------------------------------------------
(* Ranking decisions, each one transaction under the set lock.  The request *)
(* refreshes the set before it (RefreshBegin), in transactions of its own,  *)
(* so anything may happen between the two.                                  *)

AliveMaps == {m \in Maps : Alive(m)}

Decide(sp, mp, ev, affected) ==
    /\ setPol' = sp /\ mapPol' = mp /\ events' = ev
    /\ derived' = Retired(affected, sp, mp, ev)

\* apply_local_rank on one difficulty pins the checksum in the database.
ApplyMap(m, st, force) ==
    /\ Schedule
    /\ Decide(setPol,
              [mapPol EXCEPT ![m] = [active |-> TRUE, force |-> force, blocks |-> FALSE,
                                     sum |-> db[m].md5, status |-> st]],
              {e \in events : e[2] # m}, {m})

\* apply_local_rank on the set pins every difficulty that is not deleted;
\* `replace` also deactivates the difficulty policies.
ApplySet(st, force, replace) ==
    /\ Schedule
    /\ Decide([exists |-> TRUE, active |-> TRUE, force |-> force, status |-> st,
               manifest |-> [m \in Maps |-> IF Alive(m) THEN db[m].md5 ELSE 0]],
              [m \in Maps |-> IF replace THEN [mapPol[m] EXCEPT !.active = FALSE]
                              ELSE mapPol[m]],
              {}, AliveMaps)

Rank(m, st) ==
    /\ admin < MaxAdmin /\ admin' = admin + 1
    /\ Alive(m) /\ ApplyMap(m, st, FALSE)
    /\ UNCHANGED <<upstream, dbSet, db, sync, inbox, crashes>>

RankSet(st, replace) ==
    /\ admin < MaxAdmin /\ admin' = admin + 1
    /\ AliveMaps # {} /\ ApplySet(st, FALSE, replace)
    /\ UNCHANGED <<upstream, dbSet, db, sync, inbox, crashes>>

\* A locally ranked difficulty gets a tombstone; another a forced Graveyard.
Unrank(m) ==
    /\ admin < MaxAdmin /\ admin' = admin + 1 /\ Alive(m)
    /\ IF ~LocalRank(m) THEN ApplyMap(m, "Graveyard", TRUE)
       ELSE /\ Decide(setPol,
                      [mapPol EXCEPT ![m] = [active |-> TRUE, force |-> FALSE,
                          blocks |-> TRUE, sum |-> db[m].md5, status |-> db[m].status]],
                      {e \in events : e[2] # m}, {m})
            /\ UNCHANGED tracker
    /\ UNCHANGED <<upstream, dbSet, db, sync, inbox, crashes>>

UnrankSet(replace) ==
    LET local == {m \in AliveMaps : LocalRank(m)} IN
    /\ admin < MaxAdmin /\ admin' = admin + 1 /\ AliveMaps # {}
    /\ IF local = {} THEN ApplySet("Graveyard", TRUE, replace)
       ELSE /\ Decide([setPol EXCEPT !.active = @ /\ setPol.force],
                      [m \in Maps |-> IF replace \/ m \in local
                                      THEN [mapPol[m] EXCEPT !.active = FALSE]
                                      ELSE mapPol[m]],
                      {}, AliveMaps)
            /\ UNCHANGED tracker
    /\ UNCHANGED <<upstream, dbSet, db, sync, inbox, crashes>>

ClearMap(m) ==
    /\ admin <= MaxAdmin /\ admin' = admin + 1 /\ Alive(m) /\ mapPol[m] # NoPolicy
    /\ Decide(setPol, [mapPol EXCEPT ![m].active = FALSE],
              {e \in events : e[2] # m}, {m})
    /\ UNCHANGED <<upstream, dbSet, db, tracker, sync, inbox, crashes>>

ClearSet ==
    /\ admin <= MaxAdmin /\ admin' = admin + 1 /\ setPol.exists
    /\ Decide([setPol EXCEPT !.active = FALSE], mapPol, {}, AliveMaps)
    /\ UNCHANGED <<upstream, dbSet, db, tracker, sync, inbox, crashes>>

\* Acknowledges an event; it restores nothing.
ResolveEvent(e) ==
    /\ e \in events /\ events' = events \ {e}
    /\ UNCHANGED <<upstream, dbSet, db, setPol, mapPol, tracker, sync, inbox,
                   derived, admin, crashes>>

-----------------------------------------------------------------------------
(* Synchronisation.                                                         *)

Change(m, type) == [map |-> m, type |-> type]

\* The difference between saved rows and a snapshot.
Diff(saved, snap) ==
    {c \in {Change(m, t) : m \in Maps, t \in {"added", "updated", "status", "deleted"}} :
       LET s == saved[c.map]
           known == s # Absent /\ ~s.deleted
       IN  c.type =
           IF Present(snap, c.map)
           THEN IF ~known THEN "added"
                ELSE IF s.md5 # snap.maps[c.map] THEN "updated"
                ELSE IF s.status # snap.status THEN "status" ELSE "none"
           ELSE IF known THEN "deleted" ELSE "none"}


\* The manifest's changes, overridden by those the database itself shows.
Changes(t, snap) ==
    LET mine   == Diff(db, snap)
        theirs == Diff(t.maps, snap)
    IN  mine \cup {c \in theirs : \A d \in mine : d.map # c.map}

BeginWith(t, snap) ==
    sync' = [pc |-> "set", snap |-> snap, todo |-> Changes(t, snap),
             changed |-> Changes(t, snap) # {} \/ t.status # snap.status, import |-> FALSE]

\* The scheduler fetches under the lock.
SyncBegin ==
    /\ sync = Idle /\ tracker # NoTracker /\ ~up.gone
    /\ BeginWith(tracker, Snap(up))
    /\ UNCHANGED <<upstream, dbSet, db, policies, tracker, inbox, derived, admin, crashes>>

\* A ranking request refreshes its target first; an unknown set is imported,
\* an untracked one gets a record of the rows the database holds.
RefreshBegin ==
    /\ sync = Idle /\ ~up.gone
    /\ IF dbSet = NoSet
       THEN /\ sync' = [pc |-> "set", snap |-> Snap(up), changed |-> TRUE, import |-> TRUE,
                        todo |-> {Change(m, "added") : m \in {n \in Maps : up.maps[n] # 0}}]
            /\ UNCHANGED tracker
       ELSE LET t == IF tracker = NoTracker THEN ManifestOfDb ELSE tracker
            IN  tracker' = t /\ BeginWith(t, Snap(up))
    /\ UNCHANGED <<upstream, dbSet, db, policies, inbox, derived, admin, crashes>>

\* add_missing_beatmapset and get_or_fetch fetch before they take the lock.
Prefetch ==
    /\ inbox = NoSnap /\ ~up.gone /\ dbSet # NoSet
    /\ inbox' = Snap(up)
    /\ UNCHANGED <<upstream, dbSet, db, policies, tracker, sync, derived, admin, crashes>>

\* add: an untracked set gets its record; only a ranked one is synced at once.
AddTracker ==
    /\ inbox # NoSnap /\ tracker = NoTracker /\ dbSet # NoSet
    /\ tracker' = [maps |-> [m \in Maps |-> [db[m] EXCEPT !.deleted = FALSE]],
                   status |-> dbSet.status]
    /\ inbox' = IF IsRanked(inbox.status) THEN inbox ELSE NoSnap
    /\ UNCHANGED <<upstream, dbSet, db, policies, sync, derived, admin, crashes>>

AddSync ==
    /\ inbox # NoSnap /\ tracker # NoTracker /\ sync = Idle
    /\ BeginWith(tracker, inbox) /\ inbox' = NoSnap
    /\ UNCHANGED <<upstream, dbSet, db, policies, tracker, derived, admin, crashes>>

\* _process_changed_beatmapset: an older snapshot is refused, and so is one
\* whose unchanged difficulties changed meanwhile.
SyncSet ==
    LET snap == sync.snap
        same == {m \in Maps : Present(snap, m) /\ \A c \in sync.todo : c.map # m}
        ok   == /\ dbSet.time <= snap.time
                /\ \A m \in same : Alive(m) /\ db[m].md5 = snap.maps[m]
                                   /\ db[m].status = snap.status
    IN  /\ sync.pc = "set"
        /\ IF ok THEN /\ dbSet' = [time |-> snap.time, status |-> snap.status]
                      /\ sync' = [sync EXCEPT !.pc = "maps"]
           ELSE sync' = Idle /\ UNCHANGED dbSet
        /\ UNCHANGED <<upstream, db, policies, tracker, inbox, derived, admin, crashes>>

\* Mutation: an event is raised but the set keeps its pin.
InvalidateKeepsPin(m, sum) ==
    LET mine == LET p == mapPol[m] IN p.active /\ ~p.force /\ ~p.blocks /\ p.sum # sum
        sets == setPol.active /\ ~setPol.force /\ setPol.manifest[m] # sum
    IN  /\ mapPol' = [mapPol EXCEPT ![m].active = @ /\ ~mine]
        /\ UNCHANGED setPol
        /\ events' = events \cup {e \in {"map", "set"} \X {m} :
                                    IF e[1] = "map" THEN mine ELSE sets}

\* Mutation: only the difficulty's own policy raises an event.
InvalidateQuietly(m, sum) ==
    LET mine == LET p == mapPol[m] IN p.active /\ ~p.force /\ ~p.blocks /\ p.sum # sum
        sets == setPol.active /\ ~setPol.force /\ setPol.manifest[m] # sum
    IN  /\ mapPol' = [mapPol EXCEPT ![m].active = @ /\ ~mine]
        /\ setPol' = IF sets THEN [setPol EXCEPT !.manifest[m] = 0] ELSE setPol
        /\ events' = events \cup {e \in {<<"map", m>>} : mine}

\* invalidate_for_upstream_change; sum is 0 for a deleted difficulty.
Invalidate(m, sum) ==
    LET mine == LET p == mapPol[m] IN p.active /\ ~p.force /\ ~p.blocks /\ p.sum # sum
        sets == setPol.active /\ ~setPol.force /\ setPol.manifest[m] # sum
    IN  /\ mapPol' = [mapPol EXCEPT ![m].active = @ /\ ~mine]
        /\ setPol' = IF sets THEN [setPol EXCEPT !.manifest[m] = 0] ELSE setPol
        /\ events' = events \cup {e \in {"map", "set"} \X {m} :
                                    IF e[1] = "map" THEN mine ELSE sets}

\* Mutation: a revision keeps the leaderboard of the old chart.
ApplyUpdateKeepsRows(m, row, revised) ==
    /\ db' = [db EXCEPT ![m] = row]
    /\ IF revised THEN Invalidate(m, row.md5) ELSE UNCHANGED policies
    /\ UNCHANGED derived

\* An added or updated difficulty; the rows of another chart are retired.  A
\* difficulty that comes back unchanged keeps its last_updated.
ApplyUpdate(m, row, revised) ==
    /\ db' = [db EXCEPT ![m] = row]
    /\ IF revised /\ db[m].md5 # row.md5 THEN Invalidate(m, row.md5) ELSE UNCHANGED policies
    /\ derived' = IF revised /\ Alive(m) THEN [derived EXCEPT ![m] = 0] ELSE derived

\* An updated status reconciles the transition of the effective policy.
ApplyStatus(m, row) ==
    /\ db' = [db EXCEPT ![m] = row] /\ UNCHANGED policies
    /\ LET after == EffectiveIn(row, mapPol[m], setPol, events, m)
       IN  derived' = IF /\ HasLeaderboard(Effective(m).status)
                         /\ ~HasLeaderboard(after.status)
                      THEN [derived EXCEPT ![m] = 0] ELSE derived

\* Mutation: a deleted difficulty loses its checksum.
ApplyDeleteBlanks(m) ==
    IF ~Alive(m) THEN UNCHANGED <<db, policies, derived>>
    ELSE /\ Invalidate(m, 0) /\ db' = [db EXCEPT ![m].deleted = TRUE, ![m].md5 = 0]
         /\ derived' = [derived EXCEPT ![m] = 0]

\* A deleted difficulty keeps its row and its checksum.
ApplyDelete(m) ==
    IF ~Alive(m) THEN UNCHANGED <<db, policies, derived>>
    ELSE /\ Invalidate(m, 0) /\ db' = [db EXCEPT ![m].deleted = TRUE]
         /\ derived' = [derived EXCEPT ![m] = 0]

\* One difficulty, in id order, in a transaction of its own.
SyncMap ==
    LET c   == CHOOSE d \in sync.todo : \A e \in sync.todo : d.map <= e.map
        m   == c.map
        row == [md5 |-> sync.snap.maps[m], status |-> sync.snap.status, deleted |-> FALSE]
        revised == ~Alive(m) \/ db[m].md5 # row.md5
    IN  /\ sync.pc \in {"maps", "gone"} /\ sync.todo # {}
        /\ \/ c.type \in {"added", "updated"} /\ ApplyUpdate(m, row, revised)
           \/ c.type = "status" /\ ApplyStatus(m, row)
           \/ c.type = "deleted" /\ ApplyDelete(m)
        /\ sync' = [sync EXCEPT !.todo = @ \ {c}]
        /\ UNCHANGED <<upstream, dbSet, tracker, inbox, admin, crashes>>

\* The comparison record of a snapshot.
ManifestOf(snap) ==
    [status |-> snap.status,
     maps |-> [m \in Maps |-> IF ~Present(snap, m) THEN Absent
                 ELSE [md5 |-> snap.maps[m], status |-> snap.status, deleted |-> FALSE]]]

\* Mutation: a ranked set always leaves the sync list.
SyncFinishForgets ==
    /\ sync.pc = "maps" /\ sync.todo = {} /\ ~sync.import /\ sync' = Idle
    /\ tracker' = IF IsRanked(sync.snap.status) THEN NoTracker
                  ELSE IF sync.changed THEN ManifestOf(sync.snap) ELSE tracker
    /\ UNCHANGED <<upstream, dbSet, db, policies, inbox, derived, admin, crashes>>

\* The manifest advances only now; a ranked set leaves the sync list unless a
\* local rank is active at this moment.
SyncFinish ==
    /\ sync.pc = "maps" /\ sync.todo = {} /\ ~sync.import /\ sync' = Idle
    /\ tracker' = IF IsRanked(sync.snap.status) /\ ~HasActiveLocalRank THEN NoTracker
                  ELSE IF sync.changed THEN ManifestOf(sync.snap) ELSE tracker
    /\ UNCHANGED <<upstream, dbSet, db, policies, inbox, derived, admin, crashes>>

\* An imported set gets its record unless a decision made one meanwhile.
ImportFinish ==
    /\ sync.pc = "maps" /\ sync.todo = {} /\ sync.import /\ sync' = Idle
    /\ tracker' = IF tracker = NoTracker THEN ManifestOf(sync.snap) ELSE tracker
    /\ UNCHANGED <<upstream, dbSet, db, policies, inbox, derived, admin, crashes>>

\* A 404 marks every difficulty as deleted.
GoneBegin ==
    /\ sync = Idle /\ tracker # NoTracker /\ up.gone
    /\ sync' = [Idle EXCEPT !.pc = "gone", !.todo = {Change(m, "deleted") : m \in AliveMaps},
                            !.snap = Snap(up)]
    /\ UNCHANGED <<upstream, dbSet, db, policies, tracker, inbox, derived, admin, crashes>>

\* The record stays while a local rank is active or awaits a review.
GoneFinish ==
    /\ sync.pc = "gone" /\ sync.todo = {} /\ sync' = Idle
    /\ dbSet' = [dbSet EXCEPT !.status = "Graveyard"]
    /\ tracker' = IF HasActiveLocalRank \/ events # {}
                  THEN [maps |-> [m \in Maps |-> [tracker.maps[m] EXCEPT !.deleted = TRUE]],
                        status |-> "Graveyard"]
                  ELSE NoTracker
    /\ UNCHANGED <<upstream, db, policies, inbox, derived, admin, crashes>>

\* A restart, or an exception in a transaction: what was committed stays.
SyncAborts ==
    /\ crashes < MaxCrashes /\ crashes' = crashes + 1 /\ sync # Idle
    /\ sync' = Idle /\ inbox' = NoSnap
    /\ UNCHANGED <<upstream, dbSet, db, policies, tracker, derived, admin>>

\* canonical_map: the SOMSAI warehouse merges the set and one difficulty
\* straight into the tables.
WarehouseSave(m) ==
    /\ ~up.gone /\ up.maps[m] # 0
    /\ dbSet' = [time |-> up.time, status |-> up.status]
    /\ db' = [db EXCEPT ![m] = [md5 |-> up.maps[m], status |-> up.status, deleted |-> FALSE]]
    /\ UNCHANGED <<upstream, policies, tracker, sync, inbox, derived, admin, crashes>>

-----------------------------------------------------------------------------
SyncStep == SyncBegin \/ GoneBegin \/ SyncSet \/ SyncMap \/ SyncFinish \/ ImportFinish
            \/ GoneFinish

Decision ==
    \/ \E m \in Maps, st \in {"Ranked", "Loved"} : Rank(m, st)
    \/ \E st \in {"Ranked", "Loved"}, r \in BOOLEAN : RankSet(st, r)
    \/ \E m \in Maps : Unrank(m) \/ ClearMap(m)
    \/ \E r \in BOOLEAN : UnrankSet(r)
    \/ ClearSet

Next ==
    \/ \E m \in Maps, r \in Revisions \cup {0} : UpRevise(m, r)
    \/ \E s \in UpStatuses : UpStatus(s)
    \/ UpGone
    \/ \E m \in Maps : Play(m)
    \/ Decision
    \/ \E e \in events : ResolveEvent(e)
    \/ RefreshBegin \/ Prefetch \/ AddTracker \/ AddSync \/ SyncStep \/ SyncAborts

Spec == Init /\ [][Next]_vars

\* The same where the SOMSAI warehouse saves maps of this set.
WarehouseSpec == Init /\ [][Next \/ \E m \in Maps : WarehouseSave(m)]_vars

\* A sync that holds the lock runs to its end or aborts, and the scheduler
\* starts one for every tracked set again and again.
FairSpec == Spec /\ WF_vars(SyncStep)

-----------------------------------------------------------------------------
(* Properties.                                                              *)

\* Rows, policies and records hold values of their types.
TypeOK ==
    /\ dbSet = NoSet \/ dbSet.time \in 0 .. MaxUp
    /\ \A m \in Maps : /\ db[m] = Absent \/ db[m].md5 \in Revisions
                       /\ mapPol[m].sum \in Revisions \cup {0}
                       /\ setPol.manifest[m] \in Revisions \cup {0}
                       /\ derived[m] \in Revisions \cup {0}
    /\ events \subseteq {"map", "set"} \X Maps
    /\ sync.pc \in {"idle", "set", "maps", "gone"} /\ sync.todo \subseteq
          {Change(m, t) : m \in Maps, t \in {"added", "updated", "status", "deleted"}}
    /\ dbSet = NoSet => tracker = NoTracker

\* A set with an active local rank stays on the sync list, although a sync
\* that saw no rank when it started may finish after the decision.
LocalRanksAreTracked == HasActiveLocalRank => tracker # NoTracker

\* Leaderboard rows exist only for the revision in the database, and only while
\* the effective policy has a leaderboard, whichever of sync and operators
\* changed the map last.
RowsMatchPolicy ==
    \A m \in Maps : derived[m] # 0 =>
        /\ Alive(m) /\ derived[m] = db[m].md5
        /\ HasLeaderboard(Effective(m).status)

\* "New or subsequently edited difficulties do not inherit the policy until an
\* operator ranks the set again": no step but a ranking decision makes a
\* difficulty locally ranked, not even when an edit is reverted or the event
\* of the edit is acknowledged.
NoRankByItself ==
    [][\A m \in Maps : (~LocalRank(m) /\ LocalRank(m)') => admin' # admin]_vars

\* The same for the set policy alone, where the warehouse may save maps.
EditsAreNotInherited ==
    [][\A m \in Maps : LET now == Effective(m).source = "set" /\ ~setPol.force IN
          (~now /\ now') => admin' # admin]_vars

\* A difficulty that loses its local rank without a decision leaves an event
\* in the operators' inbox.
LostRanksAreReported ==
    [][\A m \in Maps : (LocalRank(m) /\ ~LocalRank(m)' /\ admin' = admin)
           => \E scope \in {"map", "set"} : <<scope, m>> \in events']_vars

\* The database agrees with the official server.
Mirrors ==
    \A m \in Maps :
        IF up.gone \/ up.maps[m] = 0 THEN ~Alive(m)
        ELSE Alive(m) /\ db[m].md5 = up.maps[m] /\ db[m].status = up.status

=============================================================================
