----------------------------- MODULE ScoreLedger -----------------------------
(***************************************************************************)
(* The score ledger of one user in one game mode: raw scores, the derived  *)
(* leaderboard and PP rows, the aggregate statistics, and everything that  *)
(* writes them (submission, the background finaliser, the five-minute      *)
(* retry job, official imports, policy and revision changes, deletions).   *)
(*                                                                         *)
(* A database transaction that opens with a row lock reads committed data  *)
(* and is one action.  A transaction that opens with a plain read works on *)
(* that read view to its end (MySQL REPEATABLE READ) and is two actions:   *)
(* one takes the view, the other commits.                                  *)
(***************************************************************************)
EXTENDS Integers, FiniteSets, FiniteSetsExt, Functions

CONSTANTS Maps,        \* beatmaps, each in a set of its own
          Plays,       \* [total, pp, mods, passed, valid]: what can be played
          Statuses,    \* the rank statuses a policy can give a map
          FirstStatus, \* the status every map starts with
          MaxScores,   \* bound: score tokens ever created
          MaxChanges,  \* bound: policy and revision changes
          MaxCrashes,  \* bound: restarts of the server
          MaxAdmin,    \* bound: imports, deletions and profile clearings
          StaleViews   \* whether other transactions may commit inside a view

ASSUME LedgerAssumption ==
    /\ MaxScores \in Nat /\ MaxChanges \in Nat /\ MaxCrashes \in Nat /\ MaxAdmin \in Nat
    /\ Statuses \subseteq {"Graveyard", "Qualified", "Loved", "Ranked"}
    /\ FirstStatus \in Statuses /\ StaleViews \in BOOLEAN
    /\ IsFiniteSet(Maps)
    /\ \A p \in Plays : /\ p.total \in Nat /\ p.pp \in Nat \ {0}
                        /\ p.passed \in BOOLEAN /\ p.valid \in BOOLEAN

VARIABLES
    status,     \* effective status of every map (its ranking policy)
    md5,        \* current revision of every map
    tokens,     \* token id -> [map, md5], NoToken or Deleted
    scores,     \* score id (its token's id) -> score record or NoScore
    rows,       \* TotalScoreBestScore: [map, mods, score, total]
    bestPp,     \* BestScore: map -> score id, 0 when there is no row
    stats,      \* UserStatistics: [ranked, total, plays, pp]
    pending,    \* imported scores whose provenance says pp_pending
    queue,      \* redis list score:need_recalculate
    processing, \* redis list score:need_recalculate:processing
    tasks,      \* scores with a background finalisation task in memory
    requests,   \* import requests that have committed but not yet queued PP
    job,        \* the retry job: [pc, claim, retry]
    view,       \* the open read view of an import or a deletion
    retired,    \* history: <<score, feature>> withdrawn by a policy change
    gone,       \* scores whose PP retry was dropped for want of a beatmap
    changes, crashes, admin

vars == <<status, md5, tokens, scores, rows, bestPp, stats, pending,
          queue, processing, tasks, requests, job, view, retired, gone, changes, crashes, admin>>

tables == <<rows, bestPp, stats>>
work   == <<queue, processing, tasks, requests, job, gone>>
policy == <<status, md5, retired, changes>>
bounds == <<crashes, admin>>

Ids     == 1 .. MaxScores
NoToken == [map |-> "none"]
NoScore == [play |-> "none"]
Idle    == [pc |-> "off", claim |-> 0, retry |-> FALSE]
NoView  == [kind |-> "none"]
Deleted == [map |-> "deleted"]
Open    == {i \in Ids : tokens[i] \notin {NoToken, Deleted} /\ scores[i] = NoScore}
Fresh == {i \in Ids : /\ tokens[i] = NoToken
                        /\ \A j \in Ids : j < i => tokens[j] # NoToken}
Live    == {i \in Ids : scores[i] # NoScore}

-----------------------------------------------------------------------------
(* What a status enables.                                                   *)

HasLeaderboard(st) == st \in {"Ranked", "Qualified", "Loved"}
HasPp(st)          == st = "Ranked"
CountsRanked(st)   == st \in {"Ranked", "Loved"}

-----------------------------------------------------------------------------
(* The tables one finalisation writes, as functions of the tables it read.  *)

RowsOf(rs, m) == {r \in rs : r.map = m}

\* The best row of a map; the older score of two equal ones.
GlobalBest(rs, m) ==
    CHOOSE r \in RowsOf(rs, m) : \A o \in RowsOf(rs, m) :
        r.total > o.total \/ (r.total = o.total /\ r.score <= o.score)

BestTotal(rs, m) == IF RowsOf(rs, m) = {} THEN 0 ELSE GlobalBest(rs, m).total

UserPp(best, sc) == [m \in Maps |-> IF best[m] = 0 THEN 0 ELSE sc[best[m]].pp]

\* Whether a score may still show on the leaderboard and count as ranked.
OnLeaderboard(c, st) == c.lb /\ HasLeaderboard(st)
CountsNow(c, st)     == c.rse /\ CountsRanked(st) /\ OnLeaderboard(c, st)

\* What the score adds to ranked_score, given the rows the transaction sees.
RankedDelta(rs, s, c, st) ==
    LET difference == c.play.total - BestTotal(rs, c.map)
    IN  IF difference > 0 /\ c.play.passed /\ CountsNow(c, st)
        THEN difference ELSE 0

\* The leaderboard rows after the score, given the rows the transaction sees.
RowsAfter(rs, s, c, st) ==
    LET new  == [map |-> c.map, mods |-> c.play.mods, score |-> s,
                 total |-> c.play.total]
        same == {r \in RowsOf(rs, c.map) : r.mods = c.play.mods}
        best == GlobalBest(rs, c.map)
        beats(r) == c.play.total > r.total
    IN  IF ~(c.play.passed /\ OnLeaderboard(c, st)) THEN rs
        ELSE IF same = {} THEN rs \cup {new}
        ELSE IF best \in same
             THEN IF beats(best) THEN (rs \ {best}) \cup {new} ELSE rs
             ELSE ((rs \ {r \in {best} : beats(r)}) \ {r \in same : beats(r)})
                  \cup (IF \E r \in same : beats(r) THEN {new} ELSE {})

\* The statistics after the score: rs are the rows it saw, pp the PP rows.
StatsAfter(sts, rs, s, c, st, pp) ==
    [ranked |-> sts.ranked + RankedDelta(rs, s, c, st),
     total  |-> sts.total + c.play.total,
     plays  |-> sts.plays + (IF c.play.valid THEN 1 ELSE 0),
     pp     |-> IF c.play.passed /\ c.ranked /\ HasPp(st) THEN pp ELSE sts.pp]

\* A score may be paid PP: the submission snapshot and the policy both say so.
MayEarn(c, st) == c.play.passed /\ c.ranked /\ HasPp(st)

\* The PP rows once the score's PP is known; equal PP keeps the older row.
PpRowsAfter(best, sc, s) ==
    LET m == sc[s].map
    IN  IF best[m] = 0 \/ sc[s].pp > sc[best[m]].pp
        THEN [best EXCEPT ![m] = s] ELSE best

-----------------------------------------------------------------------------
Init ==
    /\ status = [m \in Maps |-> FirstStatus] /\ md5 = [m \in Maps |-> 0]
    /\ tokens = [i \in Ids |-> NoToken] /\ scores = [i \in Ids |-> NoScore]
    /\ rows = {} /\ bestPp = [m \in Maps |-> 0]
    /\ stats = [ranked |-> 0, total |-> 0, plays |-> 0,
                pp |-> [m \in Maps |-> 0]]
    /\ pending = {} /\ queue = {} /\ processing = {} /\ tasks = {} /\ requests = {}
    /\ job = Idle /\ view = NoView /\ gone = {} /\ retired = {}
    /\ changes = 0 /\ crashes = 0 /\ admin = 0

-----------------------------------------------------------------------------
(* Submission.                                                              *)

\* The client asks for a token for the revision it is about to play.
CreateToken(m) ==
    /\ \E i \in Fresh :
           tokens' = [tokens EXCEPT ![i] = [map |-> m, md5 |-> md5[m]]]
    /\ UNCHANGED <<policy, scores, tables, pending, work, view, bounds>>

\* The raw score with its eligibility snapshot, taken under the set lock.
Snapshot(i, m, p, sum) ==
    LET ok == sum = md5[m]
        lb == ok /\ HasLeaderboard(status[m])
    IN  [map |-> m, play |-> p, md5 |-> sum, pp |-> 0, processed |-> FALSE,
         lb |-> lb, ranked |-> ok /\ HasPp(status[m]),
         rse |-> lb /\ CountsRanked(status[m])]

\* PUT with an unused token: score and token link commit together, then the
\* finaliser is scheduled in memory.
Submit(i, p) ==
    /\ i \in Open
    /\ scores' = [scores EXCEPT ![i] = Snapshot(i, tokens[i].map, p, tokens[i].md5)]
    /\ tasks' = tasks \cup {i}
    /\ UNCHANGED <<policy, tokens, tables, pending, queue, processing,
                   requests, job, gone, view, bounds>>

\* A duplicate PUT only reschedules a finalisation that has not committed.
Resubmit(i) ==
    /\ i \in Live /\ ~scores[i].processed
    /\ tasks' = tasks \cup {i}
    /\ UNCHANGED <<policy, tokens, scores, tables, pending, queue,
                   processing, requests, job, gone, view, bounds>>

-----------------------------------------------------------------------------
(* Finalisation, under set -> statistics -> score locks.                    *)

\* A played revision that is no longer current clears the score's eligibility.
Current(c) ==
    IF c.md5 = md5[c.map] THEN c
    ELSE [c EXCEPT !.lb = FALSE, !.ranked = FALSE, !.rse = FALSE]

\* process_user: PP first (ok says whether the calculation succeeded), then
\* leaderboard rows and statistics, then the completion marker.
ProcessUser(i, ok) ==
    LET c    == Current(scores[i])
        st   == status[c.map]
        paid == MayEarn(c, st) /\ ok
        done == [c EXCEPT !.processed = TRUE,
                          !.pp = IF paid THEN c.play.pp ELSE c.pp]
        sc   == [scores EXCEPT ![i] = done]
        best == IF paid THEN PpRowsAfter(bestPp, sc, i) ELSE bestPp
    IN  /\ scores' = sc /\ bestPp' = best
        /\ rows' = RowsAfter(rows, i, c, st)
        /\ stats' = StatsAfter(stats, rows, i, c, st, UserPp(best, sc))

PpFails(i) == LET c == Current(scores[i]) IN MayEarn(c, status[c.map])

\* Mutation: the completion marker of a concurrent worker is not re-checked.
FinaliseAgain(i, ok) ==
    /\ i \in tasks /\ i \in Live
    /\ tasks' = tasks \ {i}
    /\ ProcessUser(i, ok)
    /\ queue' = IF ~ok /\ PpFails(i) THEN queue \cup {i} ELSE queue
    /\ UNCHANGED <<policy, tokens, pending, processing, requests, job, gone,
                   view, bounds>>

\* Mutation: a failed PP calculation is not queued.
FinaliseForgets(i, ok) ==
    /\ i \in tasks
    /\ tasks' = tasks \ {i}
    /\ IF i \in Live /\ ~scores[i].processed
       THEN ProcessUser(i, ok)
       ELSE UNCHANGED <<scores, tables>>
    /\ UNCHANGED <<policy, tokens, pending, queue, processing, requests,
                   job, gone, view, bounds>>

\* The background task; a score that is gone or already processed is skipped.
Finalise(i, ok) ==
    /\ i \in tasks
    /\ tasks' = tasks \ {i}
    /\ IF i \in Live /\ ~scores[i].processed
       THEN /\ ProcessUser(i, ok)
            /\ queue' = IF ~ok /\ PpFails(i) THEN queue \cup {i} ELSE queue
       ELSE UNCHANGED <<scores, tables, queue>>
    /\ UNCHANGED <<policy, tokens, pending, processing, requests, job, gone,
                   view, bounds>>

-----------------------------------------------------------------------------
(* The retry job, one run at a time.                                        *)


\* Old claims go back to the queue; committed scores without a completion
\* marker and imports with pending PP join it.
JobStart ==
    /\ job.pc = "off"
    /\ job' = [job EXCEPT !.pc = "claim"]
    /\ queue' = queue \cup processing \cup pending
                      \cup {i \in Live : ~scores[i].processed}
    /\ processing' = {}
    /\ UNCHANGED <<policy, tokens, scores, tables, pending, tasks, requests, gone,
                   view, bounds>>

\* RPOPLPUSH: the claim moves atomically to the processing list.
JobClaim(i) ==
    /\ job.pc = "claim" /\ i \in queue
    /\ queue' = queue \ {i} /\ processing' = processing \cup {i}
    /\ job' = [pc |-> "work", claim |-> i, retry |-> FALSE]
    /\ UNCHANGED <<policy, tokens, scores, tables, pending, tasks, requests, gone,
                   view, bounds>>

\* Revision, submission snapshot and policy must all allow PP.
RetryAllowed(i) ==
    LET c == Current(scores[i]) IN c.ranked /\ HasPp(status[c.map])

\* Only a pass without a PP value needs the beatmap file again.
PpUnknown(i) == scores[i].play.passed /\ scores[i].pp = 0

\* The PP retry of a score that is already finalised.
JobRetryPp(i, outcome) ==
    LET c  == Current(scores[i])
        pp == IF c.play.passed THEN c.play.pp ELSE 0
        sc == [scores EXCEPT ![i] = [c EXCEPT !.pp = pp]]
        bp == IF c.play.passed THEN PpRowsAfter(bestPp, sc, i) ELSE bestPp
    IN  /\ \/ ~RetryAllowed(i) /\ scores' = [scores EXCEPT ![i] = c]
              /\ UNCHANGED <<bestPp, stats, gone>> /\ pending' = pending \ {i}
              /\ job' = [job EXCEPT !.pc = "ack"]
           \/ RetryAllowed(i) /\ outcome = "ok" /\ scores' = sc /\ bestPp' = bp
              /\ stats' = [stats EXCEPT !.pp = UserPp(bp, sc)]
              /\ pending' = pending \ {i} /\ gone' = gone \ {i}
              /\ job' = [job EXCEPT !.pc = "ack"]
           \/ RetryAllowed(i) /\ outcome = "fails" /\ PpUnknown(i)
              /\ UNCHANGED <<scores, bestPp, stats, pending, gone>>
              /\ job' = [job EXCEPT !.pc = "ack", !.retry = TRUE]
           \/ RetryAllowed(i) /\ outcome = "no map" /\ PpUnknown(i)
              /\ UNCHANGED <<scores, bestPp, stats, pending>>
              /\ gone' = gone \cup {i} /\ job' = [job EXCEPT !.pc = "ack"]
        /\ UNCHANGED rows

JobWork(outcome) ==
    LET i == job.claim IN
    /\ job.pc = "work"
    /\ \/ /\ i \notin Live /\ outcome = "ok"
          /\ job' = [job EXCEPT !.pc = "ack"]
          /\ UNCHANGED <<scores, tables, pending, gone>>
       \/ /\ i \in Live /\ ~scores[i].processed /\ outcome # "no map"
          /\ ProcessUser(i, outcome = "ok")
          /\ job' = [job EXCEPT !.pc = "ack",
                                !.retry = outcome = "fails" /\ PpFails(i)]
          /\ UNCHANGED <<pending, gone>>
       \/ i \in Live /\ scores[i].processed /\ JobRetryPp(i, outcome)
    /\ UNCHANGED <<policy, tokens, queue, processing, tasks, requests, view, bounds>>

\* A claim that needs no retry is acknowledged; the others stay claimed.
JobAck ==
    /\ job.pc = "ack"
    /\ processing' = IF job.retry THEN processing ELSE processing \ {job.claim}
    /\ job' = [pc |-> "claim", claim |-> 0, retry |-> FALSE]
    /\ UNCHANGED <<policy, tokens, scores, tables, pending, queue,
                   tasks, requests, gone, view, bounds>>

\* The queue is drained: claims that failed go back to it for the next run.
JobEnd ==
    /\ job.pc = "claim" /\ queue = {}
    /\ queue' = processing /\ processing' = {} /\ job' = Idle
    /\ UNCHANGED <<policy, tokens, scores, tables, pending, tasks, requests, gone,
                   view, bounds>>

-----------------------------------------------------------------------------
(* Policy and revision changes, under the set lock.                         *)

\* Mutation: a map that starts to count keeps its leaderboard-only rows.
PlanKeepsRows(old, new) ==
    [lb |-> HasLeaderboard(old) /\ ~HasLeaderboard(new),
     pp |-> HasPp(old) /\ ~HasPp(new),
     ranked |-> CountsRanked(old) /\ ~CountsRanked(new), reset |-> FALSE]

\* Which derived features a change of effective status retires.
Plan(old, new) ==
    [lb |-> HasLeaderboard(old) /\ ~HasLeaderboard(new),
     pp |-> HasPp(old) /\ ~HasPp(new),
     ranked |-> CountsRanked(old) /\ ~CountsRanked(new),
     reset |-> ~CountsRanked(old) /\ CountsRanked(new)]

\* Mutation: queued scores keep the eligibility of the retired epoch.
RetireProcessed(c, m, t) ==
    IF c = NoScore \/ c.map # m THEN c ELSE
    [c EXCEPT !.lb = c.lb /\ (~c.processed \/ ~(t.lb \/ t.reset)),
              !.rse = c.rse /\ (~c.processed \/ ~(t.lb \/ t.reset \/ t.ranked)),
              !.ranked = c.ranked /\ (~c.processed \/ ~t.pp),
              !.pp = IF t.pp THEN 0 ELSE c.pp]

\* Every score of the map, finalised or not, loses the retired eligibility.
Retire(c, m, t) ==
    IF c = NoScore \/ c.map # m THEN c ELSE
    [c EXCEPT !.lb = c.lb /\ ~(t.lb \/ t.reset),
              !.rse = c.rse /\ ~(t.lb \/ t.reset \/ t.ranked),
              !.ranked = c.ranked /\ ~t.pp, !.pp = IF t.pp THEN 0 ELSE c.pp]

\* reconcile_disabled_score_features for one map.
Reconcile(m, t) ==
    LET sc   == [i \in Ids |-> Retire(scores[i], m, t)]
        best == IF t.pp THEN [bestPp EXCEPT ![m] = 0] ELSE bestPp
        left == stats.ranked - (IF t.ranked THEN BestTotal(rows, m) ELSE 0)
        hit  == {i \in Live : scores[i].map = m}
    IN  /\ scores' = sc /\ bestPp' = best
        /\ retired' = retired \cup (hit \X {f \in {"lb", "pp"} :
                                  IF f = "pp" THEN t.pp ELSE t.lb \/ t.reset})
        /\ rows' = IF t.lb \/ t.reset THEN rows \ RowsOf(rows, m) ELSE rows
        /\ stats' = [stats EXCEPT
                       !.ranked = IF left < 0 THEN 0 ELSE left,
                       !.pp = IF t.pp /\ bestPp[m] # 0 THEN UserPp(best, sc) ELSE @]

\* A local rank, unrank or clear, or an upstream status change.
ChangeStatus(m, st) ==
    /\ changes < MaxChanges /\ st # status[m]
    /\ changes' = changes + 1 /\ status' = [status EXCEPT ![m] = st]
    /\ Reconcile(m, Plan(status[m], st))
    /\ UNCHANGED <<md5, tokens, pending, work, view, bounds>>

\* An upstream revision retires everything of the old one.
Revise(m, st) ==
    /\ changes < MaxChanges
    /\ changes' = changes + 1 /\ status' = [status EXCEPT ![m] = st]
    /\ md5' = [md5 EXCEPT ![m] = @ + 1]
    /\ Reconcile(m, [lb |-> TRUE, pp |-> TRUE, ranked |-> CountsRanked(status[m]),
                     reset |-> FALSE])
    /\ UNCHANGED <<tokens, pending, work, view, bounds>>

-----------------------------------------------------------------------------
(* Administration: transactions that open with a plain read.                *)

\* The import reads the owner's account, which fixes its read view, before it
\* takes any lock; the evidence fixes whether the score may rank normally.
ImportRead(m, p, verified) ==
    /\ admin < MaxAdmin /\ admin' = admin + 1
    /\ view = NoView /\ Fresh # {}
    /\ view' = [kind |-> "import", map |-> m, play |-> p, verified |-> verified,
                sum |-> md5[m], rows |-> rows, bestPp |-> bestPp, scores |-> scores,
                status |-> status]
    /\ UNCHANGED <<policy, tokens, scores, tables, pending, work, crashes>>

\* Set, map and statistics are locked and current; the best rows are read from
\* the view.  An import changed under the owner's feet is refused.
ImportCommit(ok) ==
    LET m    == view.map
        st   == status[m]
        raw  == Snapshot(0, m, view.play, md5[m])
        c    == IF view.verified THEN raw
                ELSE [raw EXCEPT !.lb = FALSE, !.ranked = FALSE, !.rse = FALSE]
        paid == MayEarn(c, st) /\ ok
        done == [c EXCEPT !.processed = TRUE, !.pp = IF paid THEN c.play.pp ELSE 0]
    IN
    /\ view.kind = "import" /\ view' = NoView
    /\ IF view.sum # md5[m]
       THEN ok /\ UNCHANGED <<tokens, scores, tables, pending, requests>>
       ELSE \E i \in Fresh :
            LET sc   == [scores EXCEPT ![i] = done]
                seen == PpRowsAfter(view.bestPp, [view.scores EXCEPT ![i] = done], i)
                best == IF paid /\ seen[m] = i THEN [bestPp EXCEPT ![m] = i] ELSE bestPp
                left == RowsAfter(view.rows, i, c, st)
            IN  /\ tokens' = [tokens EXCEPT ![i] = [map |-> m, md5 |-> md5[m]]]
                /\ scores' = sc /\ bestPp' = best
                /\ rows' = (rows \ (view.rows \ left)) \cup (left \ view.rows)
                /\ stats' = StatsAfter(stats, view.rows, i, c, st, UserPp(best, sc))
                /\ LET owed == {j \in {i} : MayEarn(c, st) /\ ~ok}
                   IN  pending' = pending \cup owed /\ requests' = requests \cup owed
    /\ UNCHANGED <<policy, queue, processing, tasks, job, gone, bounds>>

\* After the commit the request queues the pending PP, unless it is in a list.
ImportEnqueue(i) ==
    /\ i \in requests /\ requests' = requests \ {i}
    /\ queue' = IF i \in processing THEN queue ELSE queue \cup {i}
    /\ UNCHANGED <<policy, tokens, scores, tables, pending, processing, tasks,
                   job, gone, view, bounds>>

\* A deletion reads the target before it locks the score.
DeleteRead(i) ==
    /\ admin < MaxAdmin /\ admin' = admin + 1
    /\ view = NoView /\ i \in Live
    /\ view' = [kind |-> "delete", id |-> i, rows |-> rows, bestPp |-> bestPp,
                scores |-> scores, status |-> status]
    /\ UNCHANGED <<policy, tokens, scores, tables, pending, work, crashes>>

\* The finalised scores of a view, replayed in order through the same code as
\* a submission, and the PP rows chosen among them.
RebuiltPp(sc, st, keep) ==
    [m \in Maps |->
       LET earn == {i \in keep : /\ sc[i].map = m /\ MayEarn(sc[i], st[m])
                                 /\ sc[i].rse /\ sc[i].pp > 0}
       IN  IF earn = {} THEN 0
           ELSE CHOOSE i \in earn : \A j \in earn :
                  sc[i].pp > sc[j].pp \/ (sc[i].pp = sc[j].pp /\ i <= j)]

Rebuilt(sc, st, keep) ==
    LET best == RebuiltPp(sc, st, keep)
        zero == [rows |-> {}, stats |-> [ranked |-> 0, total |-> 0, plays |-> 0,
                                         pp |-> [m \in Maps |-> 0]]]
        replay[n \in 0 .. MaxScores] ==
            IF n = 0 THEN zero
            ELSE LET b == replay[n - 1] IN
                 IF n \notin keep THEN b
                 ELSE [rows |-> RowsAfter(b.rows, n, sc[n], st[sc[n].map]),
                       stats |-> StatsAfter(b.stats, b.rows, n, sc[n],
                                            st[sc[n].map], UserPp(best, sc))]
    IN  [book |-> replay[MaxScores], best |-> best]

\* The scores the rebuild replays: the finalised ones of its view.
ReplayedIn(sc) == {i \in Ids : sc[i] # NoScore /\ sc[i].processed}

\* The score and its token go; every aggregate is rebuilt from the view.
DeleteCommit ==
    LET i   == view.id
        all == Rebuilt(view.scores, view.status, ReplayedIn(view.scores) \ {i})
    IN
    /\ view.kind = "delete" /\ view' = NoView
    /\ IF i \notin Live
       THEN UNCHANGED <<tokens, scores, tables, pending>>
       ELSE /\ tokens' = [tokens EXCEPT ![i] = Deleted]
            /\ scores' = [scores EXCEPT ![i] = NoScore]
            /\ rows' = all.book.rows /\ stats' = all.book.stats
            /\ bestPp' = all.best /\ pending' = pending \ {i}
    /\ UNCHANGED <<policy, work, bounds>>

\* Mutation: the PP rows of the cleared scores stay.
ClearKeepsPp ==
    /\ admin < MaxAdmin /\ admin' = admin + 1
    /\ view = NoView /\ Live # {}
    /\ tokens' = [i \in Ids |-> IF tokens[i] = NoToken THEN NoToken ELSE Deleted]
    /\ scores' = [i \in Ids |-> NoScore] /\ rows' = {} /\ pending' = {}
    /\ stats' = [ranked |-> 0, total |-> 0, plays |-> 0, pp |-> [m \in Maps |-> 0]]
    /\ UNCHANGED <<policy, bestPp, work, view, crashes>>

\* The owner clears the profile: scores, tokens and aggregates all go.
ClearProfile ==
    /\ admin < MaxAdmin /\ admin' = admin + 1
    /\ view = NoView /\ Live # {}
    /\ tokens' = [i \in Ids |-> IF tokens[i] = NoToken THEN NoToken ELSE Deleted]
    /\ scores' = [i \in Ids |-> NoScore]
    /\ rows' = {} /\ bestPp' = [m \in Maps |-> 0]
    /\ stats' = [ranked |-> 0, total |-> 0, plays |-> 0, pp |-> [m \in Maps |-> 0]]
    /\ pending' = {}
    /\ UNCHANGED <<policy, work, view, crashes>>

\* A restart loses the tasks held in memory and the open transactions.
Crash ==
    /\ crashes < MaxCrashes /\ crashes' = crashes + 1
    /\ tasks' = {} /\ requests' = {} /\ job' = Idle /\ view' = NoView
    /\ UNCHANGED <<policy, tokens, scores, tables, pending, queue,
                   processing, gone, admin>>

-----------------------------------------------------------------------------
Outcomes == {"ok", "fails", "no map"}

JobStep == \/ JobStart \/ (\E i \in Ids : JobClaim(i))
           \/ (\E o \in Outcomes : JobWork(o)) \/ JobAck \/ JobEnd

Server ==
    \/ \E m \in Maps : CreateToken(m)
    \/ \E i \in Ids, p \in Plays : Submit(i, p)
    \/ \E i \in Ids : Resubmit(i)
    \/ \E i \in Ids, ok \in BOOLEAN : Finalise(i, ok)
    \/ JobStep
    \/ \E m \in Maps, st \in Statuses : ChangeStatus(m, st) \/ Revise(m, st)
    \/ \E i \in Ids : ImportEnqueue(i)
    \/ ClearProfile

Administration ==
    \/ \E m \in Maps, p \in Plays, v \in BOOLEAN : ImportRead(m, p, v)
    \/ \E ok \in BOOLEAN : ImportCommit(ok)
    \/ \E i \in Ids : DeleteRead(i)
    \/ DeleteCommit

\* Unless StaleViews, nothing else commits between the two halves of an
\* import or a deletion.
Next ==
    \/ (StaleViews \/ view = NoView) /\ Server
    \/ Administration
    \/ Crash

Spec == Init /\ [][Next]_vars

\* The scheduler runs the job every five minutes and a claimed score is worked
\* on to its end, so the job's own steps are weakly fair; nothing else is.
FairSpec == Spec /\ WF_vars(JobStep)

-----------------------------------------------------------------------------
(* Properties.                                                              *)

\* Tables refer to scores and maps that exist, and hold values of their types.
TypeOK ==
    /\ status \in [Maps -> Statuses] /\ md5 \in [Maps -> 0 .. MaxChanges]
    /\ \A r \in rows : r.map \in Maps /\ r.score \in Live
    /\ bestPp \in [Maps -> {0} \cup Live]
    /\ queue \subseteq Ids /\ processing \subseteq Ids /\ pending \subseteq Live
    /\ stats.ranked \in Nat /\ stats.total \in Nat /\ stats.plays \in Nat
    /\ tasks \subseteq Ids

\* ranked_score is the sum of the best totals of the maps that count now,
\* whatever was finalised, retried, re-ranked, revised or deleted before.
RankedScoreIsSum ==
    stats.ranked = MapThenSumSet(
        LAMBDA m : IF CountsRanked(status[m]) THEN BestTotal(rows, m) ELSE 0, Maps)

\* A leaderboard row shows a score of the current revision of a map with a
\* leaderboard, and never one whose eligibility a policy change withdrew, even
\* if the map was ranked again before the score was finalised.
RowsAreCurrent ==
    \A r \in rows : /\ scores[r.score].md5 = md5[r.map]
                    /\ HasLeaderboard(status[r.map])
                    /\ <<r.score, "lb">> \notin retired

\* The user's PP is computed from the PP rows as they are, and each of them is
\* a score of the current revision that the policy still pays and never stopped
\* paying.
PpIsCurrent ==
    /\ stats.pp = UserPp(bestPp, scores)
    /\ \A m \in Maps : bestPp[m] # 0 =>
          /\ scores[bestPp[m]].md5 = md5[m] /\ HasPp(status[m])
          /\ <<bestPp[m], "pp">> \notin retired

\* The PP row of a map is its best paid score: no finalised score the policy
\* pays has more PP than the row.
PpRowIsBest ==
    \A i \in Live : LET c == scores[i] IN
        (c.processed /\ c.pp > 0) => /\ bestPp[c.map] # 0
                                     /\ scores[bestPp[c.map]].pp >= c.pp

\* The standings a player sees are those of the current charts and policy, and
\* the best of them (process_user, reconcile_disabled_score_features).
StandingsAreCurrent == RowsAreCurrent /\ PpIsCurrent /\ PpRowIsBest

\* Every finalised play is in the lifetime totals exactly once, although the
\* task, a duplicate request and the retry job may all finalise it.
PlaysCountedOnce ==
    LET done == {i \in Live : scores[i].processed} IN
    /\ stats.plays = Cardinality({i \in done : scores[i].play.valid})
    /\ stats.total = MapThenSumSet(LAMBDA i : scores[i].play.total, done)

\* A finalised score that is owed PP is never forgotten: a redis list, a
\* pending import or a dropped beatmap accounts for it, across restarts.
OwedPpIsRecorded ==
    \A i \in Live : LET c == scores[i] IN
        (c.processed /\ MayEarn(Current(c), status[c.map]) /\ c.pp = 0)
            => i \in queue \cup processing \cup pending \cup gone


\* "Every statistics mutation takes this lock, preventing lost ranked-score/PP
\* updates": the same sum, where imports and deletions may hold older views.
NoLostUpdates == RankedScoreIsSum
=============================================================================
