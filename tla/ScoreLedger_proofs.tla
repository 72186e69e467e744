------------------------- MODULE ScoreLedger_proofs -------------------------
(***************************************************************************)
(* Theorems about the score ledger, for every set of maps and plays and    *)
(* every bound: owed PP is recorded whatever views are open, and when no   *)
(* other transaction commits inside a read view the standings are current, *)
(* every play counts once and ranked_score is the sum of the best totals.  *)
(***************************************************************************)
EXTENDS ScoreLedger, FiniteSums

(***************************************************************************)
(* The inductive invariant.                                                *)
(***************************************************************************)
Score == [map : Maps, play : Plays, md5 : Nat, pp : Nat, processed : BOOLEAN,
          lb : BOOLEAN, ranked : BOOLEAN, rse : BOOLEAN]
Token == [map : Maps, md5 : Nat]
Job   == [pc : {"off", "claim", "work", "ack"}, claim : {0} \cup Ids, retry : BOOLEAN]

\* The eligibility of a score agrees with the policy and the revision of now.
Fits(c, st, rev) ==
    /\ c.lb => HasLeaderboard(st[c.map]) /\ c.md5 = rev[c.map]
    /\ c.rse <=> c.lb /\ CountsRanked(st[c.map])
    /\ c.ranked => c.rse /\ HasPp(st[c.map])
    /\ c.pp # 0 => c.processed /\ c.ranked /\ c.play.passed /\ c.pp = c.play.pp

\* Finalised, allowed PP, and without it.
Owed(c, st) ==
    c.processed /\ c.play.passed /\ c.ranked /\ HasPp(st[c.map]) /\ c.pp = 0

\* Ids whose token was issued and used up: they never become scores again.
Spent == {i \in Ids : i \in Live \/ tokens[i] = Deleted}

PlainTypes ==
    /\ status \in [Maps -> Statuses] /\ md5 \in [Maps -> Nat]
    /\ tokens \in [Ids -> Token \cup {NoToken, Deleted}]
    /\ scores \in [Ids -> Score \cup {NoScore}]
    /\ view.kind = "import" => view.map \in Maps /\ view.play \in Plays
    /\ view.kind = "delete" => view.id \in Ids
    /\ job \in Job

\* Scores have tokens, lists hold spent ids, pending imports exist.
Lists ==
    /\ \A i \in Live : tokens[i] \notin {NoToken, Deleted}
    /\ queue \subseteq Spent /\ processing \subseteq Spent
    /\ tasks \subseteq Spent /\ requests \subseteq Spent /\ pending \subseteq Live
    /\ job.pc \in {"work", "ack"} => job.claim \in processing

\* A score never regains what a policy change withdrew.
Withdrawn ==
    /\ retired \subseteq Spent \X {"lb", "pp"}
    /\ \A i \in Live : /\ <<i, "lb">> \in retired => ~scores[i].lb
                       /\ <<i, "pp">> \in retired => ~scores[i].ranked

Eligible == \A i \in Live : Fits(scores[i], status, md5)

\* Owed PP is in a list, pending or dropped; an acknowledged claim that needs
\* no retry is finalised, and owed only if something else records it.
Recorded ==
    /\ \A i \in Live : Owed(scores[i], status)
                          => i \in queue \cup processing \cup pending \cup gone
    /\ (job.pc = "ack" /\ ~job.retry /\ job.claim \in Live) =>
          /\ scores[job.claim].processed
          /\ Owed(scores[job.claim], status) => job.claim \in queue \cup pending \cup gone

ScoresInv == PlainTypes /\ Lists /\ Withdrawn /\ Eligible /\ Recorded

(***************************************************************************)
(* Records: what a submission, a finalisation and a policy change make of  *)
(* one score.                                                              *)
(***************************************************************************)
USE LedgerAssumption DEF HasLeaderboard, HasPp, CountsRanked

LEMMA NoScoreIsNone == NoScore \notin Score
  BY DEF NoScore, Score

LEMMA NoTokenIsNone == NoToken \notin Token /\ Deleted \notin Token /\ NoToken # Deleted
  BY DEF NoToken, Token, Deleted

LEMMA ScoreFields ==
    ASSUME NEW c \in Score
    PROVE  /\ c.map \in Maps /\ c.play \in Plays /\ c.md5 \in Nat /\ c.pp \in Nat
           /\ c.processed \in BOOLEAN /\ c.lb \in BOOLEAN /\ c.ranked \in BOOLEAN
           /\ c.rse \in BOOLEAN /\ c # NoScore
  BY NoScoreIsNone DEF Score

LEMMA PlayFields ==
    ASSUME NEW p \in Plays
    PROVE  p.total \in Nat /\ p.pp \in Nat /\ p.pp # 0 /\ p.passed \in BOOLEAN /\ p.valid \in BOOLEAN
  OBVIOUS

\* A new raw score.
LEMMA SnapshotFits ==
    ASSUME status \in [Maps -> Statuses], md5 \in [Maps -> Nat],
           NEW i, NEW m \in Maps, NEW p \in Plays, NEW sum \in Nat
    PROVE  /\ Snapshot(i, m, p, sum) \in Score /\ Fits(Snapshot(i, m, p, sum), status, md5)
           /\ ~Snapshot(i, m, p, sum).processed /\ Snapshot(i, m, p, sum).map = m
           /\ Snapshot(i, m, p, sum).play = p /\ Snapshot(i, m, p, sum).pp = 0
  BY DEF Snapshot, Score, Fits

\* A score with everything withdrawn.
LEMMA ClearedFits ==
    ASSUME NEW c \in Score, c.pp = 0, NEW st, NEW rev, NEW d,
           d = [c EXCEPT !.lb = FALSE, !.ranked = FALSE, !.rse = FALSE]
    PROVE  /\ d \in Score /\ Fits(d, st, rev) /\ d.processed = c.processed /\ d.map = c.map
           /\ d.play = c.play /\ d.pp = 0 /\ ~d.ranked
  BY DEF Score, Fits

\* A finalised score.
Settles(c, pp) ==
    c \in Score /\ pp \in Nat /\ (pp = 0 \/ (c.play.passed /\ c.ranked /\ pp = c.play.pp))

Settled(d, c, pp) ==
    /\ d \in Score /\ d.processed /\ d.pp = pp /\ d.map = c.map
    /\ d.play = c.play /\ d.lb = c.lb /\ d.ranked = c.ranked /\ d.rse = c.rse

LEMMA SettledFits ==
    ASSUME NEW st, NEW rev, NEW c, Fits(c, st, rev), NEW pp, Settles(c, pp), NEW d,
           d = [c EXCEPT !.processed = TRUE, !.pp = pp]
    PROVE  Fits(d, st, rev) /\ Settled(d, c, pp)
  <1> USE DEF Settles, Settled
  <1>1. d \in Score
    BY DEF Score
  <1>2. /\ d.processed /\ d.pp = pp /\ d.map = c.map /\ d.md5 = c.md5
        /\ d.play = c.play /\ d.lb = c.lb /\ d.ranked = c.ranked /\ d.rse = c.rse
    BY DEF Score
  <1>3. Fits(d, st, rev)
    BY <1>2 DEF Fits
  <1> QED
    BY <1>1, <1>2, <1>3

\* While its eligibility fits, a score is what it was when it was read.
LEMMA FitsIsCurrent ==
    ASSUME NEW c \in Score, Fits(c, status, md5)
    PROVE  Current(c) = c
  <1>1. CASE c.md5 = md5[c.map]
    BY <1>1 DEF Current
  <1>2. CASE c.md5 # md5[c.map]
    <2>1. c.lb = FALSE /\ c.rse = FALSE /\ c.ranked = FALSE
      BY <1>2, ScoreFields DEF Fits
    <2>2. [c EXCEPT !.lb = FALSE, !.ranked = FALSE, !.rse = FALSE] = c
      BY <2>1 DEF Score
    <2> QED
      BY <1>2, <2>2 DEF Current
  <1> QED
    BY <1>1, <1>2

Features == [lb : BOOLEAN, pp : BOOLEAN, ranked : BOOLEAN, reset : BOOLEAN]

\* A score after a policy change of its map.
LEMMA RetireFields ==
    ASSUME NEW c \in Score, NEW t \in Features, NEW d, d = Retire(c, c.map, t)
    PROVE  /\ d \in Score /\ d.map = c.map /\ d.play = c.play /\ d.md5 = c.md5
           /\ d.processed = c.processed
           /\ d.lb <=> c.lb /\ ~(t.lb \/ t.reset)
           /\ d.rse <=> c.rse /\ ~(t.lb \/ t.reset \/ t.ranked)
           /\ d.ranked <=> c.ranked /\ ~t.pp
           /\ d.pp = IF t.pp THEN 0 ELSE c.pp
  <1>1. c # NoScore
    BY ScoreFields
  <1>2. PICK lb, rse, rk, pp : /\ lb = (c.lb /\ ~(t.lb \/ t.reset))
                               /\ rse = (c.rse /\ ~(t.lb \/ t.reset \/ t.ranked))
                               /\ rk = (c.ranked /\ ~t.pp)
                               /\ pp = IF t.pp THEN 0 ELSE c.pp
    OBVIOUS
  <1>3. lb \in BOOLEAN /\ rse \in BOOLEAN /\ rk \in BOOLEAN /\ pp \in Nat
    BY <1>2 DEF Score, Features
  <1>4. d = [c EXCEPT !.lb = lb, !.rse = rse, !.ranked = rk, !.pp = pp]
    BY <1>1, <1>2 DEF Retire
  <1>5. /\ d \in Score /\ d.map = c.map /\ d.play = c.play /\ d.md5 = c.md5
        /\ d.processed = c.processed /\ d.lb = lb /\ d.rse = rse /\ d.ranked = rk /\ d.pp = pp
    BY <1>3, <1>4 DEF Score
  <1> QED
    BY <1>2, <1>5

LEMMA PlanFeatures ==
    ASSUME NEW old, NEW new
    PROVE  /\ Plan(old, new) \in Features
           /\ Plan(old, new).lb <=> HasLeaderboard(old) /\ ~HasLeaderboard(new)
           /\ Plan(old, new).pp <=> HasPp(old) /\ ~HasPp(new)
           /\ Plan(old, new).ranked <=> CountsRanked(old) /\ ~CountsRanked(new)
           /\ Plan(old, new).reset <=> ~CountsRanked(old) /\ CountsRanked(new)
  BY DEF Plan, Features

\* After a change of status its scores fit the new policy.
LEMMA RetireFits ==
    ASSUME NEW c \in Score, NEW st, NEW new, NEW old, NEW rev,
           Fits(c, old, rev), new[c.map] = st, NEW d,
           d = Retire(c, c.map, Plan(old[c.map], st))
    PROVE  d \in Score /\ Fits(d, new, rev)
  <1>1. PICK t : t = Plan(old[c.map], st)
    OBVIOUS
  <1>2. t \in Features /\ d = Retire(c, c.map, t)
    BY <1>1, PlanFeatures
  <1>3. /\ t.lb <=> HasLeaderboard(old[c.map]) /\ ~HasLeaderboard(st)
        /\ t.pp <=> HasPp(old[c.map]) /\ ~HasPp(st)
        /\ t.ranked <=> CountsRanked(old[c.map]) /\ ~CountsRanked(st)
        /\ t.reset <=> ~CountsRanked(old[c.map]) /\ CountsRanked(st)
    BY <1>1, PlanFeatures
  <1>4. /\ d \in Score /\ d.map = c.map /\ d.play = c.play /\ d.md5 = c.md5
        /\ d.processed = c.processed
        /\ d.lb <=> c.lb /\ ~(t.lb \/ t.reset)
        /\ d.rse <=> c.rse /\ ~(t.lb \/ t.reset \/ t.ranked)
        /\ d.ranked <=> c.ranked /\ ~t.pp
        /\ d.pp = IF t.pp THEN 0 ELSE c.pp
    BY <1>2, RetireFields
  <1>5. c.pp # 0 => c.ranked
    BY DEF Fits
  <1>6. d.lb => HasLeaderboard(new[d.map]) /\ d.md5 = rev[d.map]
    BY <1>3, <1>4 DEF Fits
  <1>7. d.rse <=> d.lb /\ CountsRanked(new[d.map])
    BY <1>3, <1>4 DEF Fits
  <1>8. d.ranked => d.rse /\ HasPp(new[d.map])
    BY <1>3, <1>4 DEF Fits
  <1>9. d.pp # 0 => d.processed /\ d.ranked /\ d.play.passed /\ d.pp = d.play.pp
    BY <1>4 DEF Fits
  <1> QED
    BY <1>4, <1>6, <1>7, <1>8, <1>9 DEF Fits

\* A new revision withdraws everything.
Everything(ranked) == [lb |-> TRUE, pp |-> TRUE, ranked |-> ranked, reset |-> FALSE]

LEMMA ReviseFits ==
    ASSUME NEW c \in Score, NEW ranked \in BOOLEAN, NEW new, NEW rev, NEW d,
           d = Retire(c, c.map, Everything(ranked))
    PROVE  d \in Score /\ Fits(d, new, rev)
  <1>1. PICK t : t = Everything(ranked)
    OBVIOUS
  <1>2. t \in Features /\ t.lb /\ t.pp
    BY <1>1 DEF Everything, Features
  <1>3. d \in Score /\ ~d.lb /\ ~d.rse /\ ~d.ranked /\ d.pp = 0
    BY <1>1, <1>2, RetireFields
  <1> QED
    BY <1>3 DEF Fits

(***************************************************************************)
(* ScoresInv is inductive, one action at a time.                           *)
(***************************************************************************)
LiveHasTokens == \A j \in Live : tokens[j] \notin {NoToken, Deleted}

\* One score is written: a new one, or one that keeps its withdrawals.
Put(i, d) ==
    /\ i \in Ids /\ d \in Score /\ Fits(d, status, md5)
    /\ scores' = [scores EXCEPT ![i] = d]
    /\ tokens' \in [Ids -> Token \cup {NoToken, Deleted}]
    /\ \A j \in Ids \ {i} : tokens'[j] = tokens[j]
    /\ tokens'[i] \notin {NoToken, Deleted}
    /\ i \in Spent => i \in Live /\ (d.lb => scores[i].lb) /\ (d.ranked => scores[i].ranked)
    /\ UNCHANGED policy

\* What follows for the scores and for the ids that are used up.
AfterPut(i, d) ==
    /\ scores' \in [Ids -> Score \cup {NoScore}] /\ scores'[i] = d
    /\ \A j \in Ids \ {i} : scores'[j] = scores[j]
    /\ Live' = Live \cup {i} /\ Spent' = Spent \cup {i}
    /\ status' = status /\ md5' = md5
    /\ Eligible' /\ Withdrawn' /\ LiveHasTokens'

LEMMA PutKeeps ==
    ASSUME ScoresInv, NEW i, NEW d, Put(i, d)
    PROVE  AfterPut(i, d)
  <1> USE DEF ScoresInv, PlainTypes, Put
  <1>1. scores' \in [Ids -> Score \cup {NoScore}] /\ scores'[i] = d
    OBVIOUS
  <1>2. \A j \in Ids \ {i} : scores'[j] = scores[j]
    OBVIOUS
  <1>3. d # NoScore
    BY ScoreFields
  <1>4. Live' = Live \cup {i}
    BY <1>1, <1>2, <1>3 DEF Live
  <1>5. Spent' = Spent \cup {i}
    BY <1>4 DEF Spent
  <1>6. status' = status /\ md5' = md5 /\ retired' = retired
    BY DEF policy
  <1>7. Eligible'
    BY <1>1, <1>2, <1>4, <1>6 DEF Eligible
  <1>8. Withdrawn'
    <2>1. retired' \subseteq Spent' \X {"lb", "pp"}
      BY <1>5, <1>6 DEF Withdrawn
    <2>2. ASSUME NEW j \in Live'
          PROVE  /\ <<j, "lb">> \in retired' => ~scores'[j].lb
                 /\ <<j, "pp">> \in retired' => ~scores'[j].ranked
      <3>1. CASE j # i
        BY <1>2, <1>4, <1>6, <2>2, <3>1 DEF Withdrawn, Live
      <3>2. CASE j = i /\ i \in Live
        BY <1>1, <1>6, <3>2 DEF Withdrawn, Spent, Live
      <3>3. CASE j = i /\ i \notin Live
        <4>1. i \notin Spent
          BY <3>3
        <4>2. <<i, "lb">> \notin retired /\ <<i, "pp">> \notin retired
          BY <4>1 DEF Withdrawn
        <4> QED
          BY <1>6, <3>3, <4>2
      <3> QED
        BY <3>1, <3>2, <3>3
    <2> QED
      BY <2>1, <2>2 DEF Withdrawn
  <1>9. LiveHasTokens'
    BY <1>4 DEF LiveHasTokens, Lists, Live
  <1> QED
    BY <1>1, <1>2, <1>4, <1>5, <1>6, <1>7, <1>8, <1>9 DEF AfterPut

\* No score changes: what remains are the lists.
LEMMA ScoresStay ==
    ASSUME ScoresInv, UNCHANGED <<policy, tokens, scores>>
    PROVE  /\ Live' = Live /\ Spent' = Spent /\ status' = status /\ md5' = md5
           /\ Eligible' /\ Withdrawn' /\ LiveHasTokens'
           /\ scores' \in [Ids -> Score \cup {NoScore}] /\ status' \in [Maps -> Statuses]
           /\ md5' \in [Maps -> Nat] /\ tokens' \in [Ids -> Token \cup {NoToken, Deleted}]
  <1>1. /\ status' = status /\ md5' = md5 /\ retired' = retired
        /\ scores' = scores /\ tokens' = tokens
    BY DEF policy
  <1>2. Live' = Live
    BY <1>1 DEF Live
  <1>3. Spent' = Spent
    BY <1>1, <1>2 DEF Spent
  <1>4. Eligible' /\ Withdrawn' /\ LiveHasTokens'
    BY <1>1, <1>2, <1>3 DEF ScoresInv, Eligible, Withdrawn, Lists, LiveHasTokens
  <1> QED
    BY <1>1, <1>2, <1>3, <1>4 DEF ScoresInv, PlainTypes

LEMMA ScoresInvInit == Init => ScoresInv
  <1> SUFFICES ASSUME Init
               PROVE  ScoresInv
    OBVIOUS
  <1>1. Live = {}
    BY DEF Init, Live
  <1>2. PlainTypes
    BY DEF Init, PlainTypes, NoView, Idle, Job
  <1>3. Lists /\ Withdrawn /\ Eligible /\ Recorded
    BY <1>1 DEF Init, Lists, Withdrawn, Eligible, Recorded, Idle
  <1> QED
    BY <1>2, <1>3 DEF ScoresInv

LEMMA CreateTokenKeepsScores ==
    ASSUME ScoresInv, NEW m \in Maps, CreateToken(m)
    PROVE  ScoresInv'
  <1>1. PICK i \in Fresh : tokens' = [tokens EXCEPT ![i] = [map |-> m, md5 |-> md5[m]]]
    BY DEF CreateToken
  <1>2. /\ UNCHANGED <<status, md5, retired, scores, pending, queue, processing, tasks,
                       requests, job, gone, view>>
    BY DEF CreateToken, policy, work
  <1>3. i \in Ids /\ tokens[i] = NoToken
    BY <1>1 DEF Fresh
  <1>4. [map |-> m, md5 |-> md5[m]] \in Token
    BY DEF ScoresInv, PlainTypes, Token
  <1>5. tokens' \in [Ids -> Token \cup {NoToken, Deleted}] /\ \A j \in Ids \ {i} : tokens'[j] = tokens[j]
    BY <1>1, <1>3, <1>4 DEF ScoresInv, PlainTypes
  <1>6. tokens'[i] \notin {NoToken, Deleted}
    BY <1>1, <1>3, <1>4, NoTokenIsNone DEF ScoresInv, PlainTypes
  <1>7. Live' = Live
    BY <1>2 DEF Live
  <1>8. Spent' = Spent
    BY <1>3, <1>5, <1>6, <1>7, NoTokenIsNone DEF Spent
  <1>9. PlainTypes'
    BY <1>2, <1>5 DEF ScoresInv, PlainTypes
  <1>10. Lists'
    BY <1>2, <1>5, <1>6, <1>7, <1>8 DEF ScoresInv, Lists, Live
  <1>11. Withdrawn' /\ Eligible' /\ Recorded'
    BY <1>2, <1>7, <1>8 DEF ScoresInv, Withdrawn, Eligible, Recorded
  <1> QED
    BY <1>9, <1>10, <1>11 DEF ScoresInv

LEMMA SubmitKeepsScores ==
    ASSUME ScoresInv, NEW i \in Ids, NEW p \in Plays, Submit(i, p)
    PROVE  ScoresInv'
  <1>1. PICK m, sum : m = tokens[i].map /\ sum = tokens[i].md5
    OBVIOUS
  <1>2. i \in Ids /\ tokens[i] \in Token /\ scores[i] = NoScore
    BY DEF Submit, Open, ScoresInv, PlainTypes
  <1>3. m \in Maps /\ sum \in Nat
    BY <1>1, <1>2 DEF Token
  <1>4. PICK d : d = Snapshot(i, m, p, sum)
    OBVIOUS
  <1>5. d \in Score /\ Fits(d, status, md5) /\ ~d.processed
    BY <1>3, <1>4, SnapshotFits DEF ScoresInv, PlainTypes
  <1>6. /\ scores' = [scores EXCEPT ![i] = d] /\ tasks' = tasks \cup {i}
        /\ UNCHANGED <<status, md5, retired, changes, tokens, pending, queue, processing,
                       requests, job, gone, view>>
    BY <1>1, <1>4 DEF Submit, policy
  <1>7. i \notin Live /\ i \notin Spent /\ tokens[i] \notin {NoToken, Deleted}
    BY <1>2, NoTokenIsNone DEF Live, Spent
  <1>8. Put(i, d)
    BY <1>5, <1>6, <1>7 DEF Put, ScoresInv, PlainTypes, policy
  <1>9. AfterPut(i, d)
    BY <1>8, PutKeeps
  <1>10. PlainTypes'
    BY <1>6, <1>9 DEF AfterPut, ScoresInv, PlainTypes
  <1>11. Lists'
    BY <1>6, <1>9 DEF AfterPut, ScoresInv, Lists, LiveHasTokens
  <1>12. ~Owed(d, status)
    BY <1>5 DEF Owed
  <1>13. job.pc = "ack" => job.claim # i
    BY <1>7 DEF ScoresInv, Lists
  <1>14. Recorded'
    BY <1>6, <1>7, <1>9, <1>12, <1>13 DEF AfterPut, ScoresInv, Recorded, Live
  <1> QED
    BY <1>9, <1>10, <1>11, <1>14 DEF AfterPut, ScoresInv

LEMMA ResubmitKeepsScores ==
    ASSUME ScoresInv, NEW i \in Ids, Resubmit(i)
    PROVE  ScoresInv'
  <1>1. /\ UNCHANGED <<policy, tokens, scores>> /\ i \in Live /\ tasks' = tasks \cup {i}
        /\ UNCHANGED <<pending, queue, processing, requests, job, gone, view>>
    BY DEF Resubmit
  <1>2. PlainTypes'
    BY <1>1, ScoresStay DEF ScoresInv, PlainTypes
  <1>3. Lists'
    BY <1>1, ScoresStay DEF ScoresInv, Lists, LiveHasTokens, Spent
  <1>4. Recorded'
    BY <1>1, ScoresStay DEF ScoresInv, Recorded
  <1> QED
    BY <1>1, <1>2, <1>3, <1>4, ScoresStay DEF ScoresInv

\* What process_user makes of an unfinalised score and of the other tables.
Paid(i, ok) == MayEarn(scores[i], status[scores[i].map]) /\ ok

Processed(i, ok, d) ==
    /\ d \in Score /\ Fits(d, status, md5) /\ d.processed /\ scores' = [scores EXCEPT ![i] = d]
    /\ d.map = scores[i].map /\ d.play = scores[i].play
    /\ d.lb = scores[i].lb /\ d.ranked = scores[i].ranked
    /\ d.pp = IF Paid(i, ok) THEN d.play.pp ELSE 0
    /\ bestPp' = IF Paid(i, ok) THEN PpRowsAfter(bestPp, scores', i) ELSE bestPp
    /\ rows' = RowsAfter(rows, i, scores[i], status[scores[i].map])
    /\ stats' = StatsAfter(stats, rows, i, scores[i], status[scores[i].map],
                           UserPp(bestPp', scores'))
    /\ PpFails(i) <=> MayEarn(scores[i], status[scores[i].map])

LEMMA ProcessUserIs ==
    ASSUME ScoresInv, NEW i \in Live, ~scores[i].processed, NEW ok \in BOOLEAN,
           ProcessUser(i, ok)
    PROVE  \E d : Processed(i, ok, d)
  <1>1. PICK c : c = scores[i]
    OBVIOUS
  <1>2. c \in Score /\ Fits(c, status, md5)
    BY <1>1 DEF ScoresInv, PlainTypes, Eligible, Live
  <1>3. Current(c) = c
    BY <1>2, FitsIsCurrent
  <1>4. c.pp = 0
    BY <1>1, <1>2 DEF Fits
  <1>5. PICK pp : pp = IF Paid(i, ok) THEN c.play.pp ELSE c.pp
    OBVIOUS
  <1>6. Paid(i, ok) => c.play.passed /\ c.ranked
    BY <1>1 DEF Paid, MayEarn
  <1>7. Settles(c, pp)
    BY <1>2, <1>4, <1>5, <1>6, ScoreFields, PlayFields DEF Settles
  <1>8. PICK d : d = [c EXCEPT !.processed = TRUE, !.pp = pp]
    OBVIOUS
  <1>9. Fits(d, status, md5) /\ Settled(d, c, pp)
    BY <1>2, <1>7, <1>8, SettledFits
  <1>10. /\ scores' = [scores EXCEPT ![i] = d]
         /\ bestPp' = IF Paid(i, ok) THEN PpRowsAfter(bestPp, scores', i) ELSE bestPp
         /\ rows' = RowsAfter(rows, i, c, status[c.map])
         /\ stats' = StatsAfter(stats, rows, i, c, status[c.map], UserPp(bestPp', scores'))
    BY <1>1, <1>3, <1>5, <1>8 DEF ProcessUser, Paid
  <1>11. PpFails(i) <=> MayEarn(c, status[c.map])
    BY <1>1, <1>3 DEF PpFails
  <1> QED
    BY <1>1, <1>4, <1>5, <1>9, <1>10, <1>11 DEF Processed, Settled

\* The score it writes is owed PP exactly when the calculation failed.
LEMMA ProcessedKeeps ==
    ASSUME ScoresInv, NEW i \in Live, ~scores[i].processed, NEW ok \in BOOLEAN,
           NEW d, Processed(i, ok, d), UNCHANGED <<policy, tokens>>
    PROVE  AfterPut(i, d) /\ Live' = Live /\ Spent' = Spent
           /\ d.processed /\ (Owed(d, status) => ~ok /\ PpFails(i))
  <1>1. tokens[i] \notin {NoToken, Deleted} /\ i \in Ids /\ i \in Spent
    BY DEF ScoresInv, Lists, Live, Spent
  <1>2. tokens' = tokens
    OBVIOUS
  <1>3. Put(i, d)
    BY <1>1, <1>2 DEF Put, Processed, ScoresInv, PlainTypes
  <1>4. AfterPut(i, d)
    BY <1>3, PutKeeps
  <1>5. Live' = Live /\ Spent' = Spent
    BY <1>1, <1>4 DEF AfterPut
  <1>6. Owed(d, status) => ~ok /\ PpFails(i)
    <2>1. d.play.pp # 0
      BY ScoreFields, PlayFields DEF Processed
    <2> QED
      BY <2>1 DEF Owed, Processed, Paid, MayEarn
  <1> QED
    BY <1>4, <1>5, <1>6 DEF Processed

LEMMA FinaliseKeepsScores ==
    ASSUME ScoresInv, NEW i \in Ids, NEW ok \in BOOLEAN, Finalise(i, ok)
    PROVE  ScoresInv'
  <1>1. /\ UNCHANGED <<policy, tokens, pending, processing, requests, job, gone, view>>
        /\ i \in tasks /\ tasks' = tasks \ {i}
    BY DEF Finalise
  <1>2. CASE ~(i \in Live /\ ~scores[i].processed)
    <2>1. UNCHANGED <<scores, queue>>
      BY <1>2 DEF Finalise
    <2>2. PlainTypes'
      BY <1>1, <2>1, ScoresStay DEF ScoresInv, PlainTypes
    <2>3. Lists'
      BY <1>1, <2>1, ScoresStay DEF ScoresInv, Lists, LiveHasTokens
    <2>4. Recorded'
      BY <1>1, <2>1, ScoresStay DEF ScoresInv, Recorded
    <2> QED
      BY <1>1, <2>1, <2>2, <2>3, <2>4, ScoresStay DEF ScoresInv
  <1>3. CASE i \in Live /\ ~scores[i].processed
    <2>1. /\ ProcessUser(i, ok)
          /\ queue' = IF ~ok /\ PpFails(i) THEN queue \cup {i} ELSE queue
      BY <1>3 DEF Finalise
    <2>2. PICK d : Processed(i, ok, d)
      BY <1>3, <2>1, ProcessUserIs
    <2>3. /\ AfterPut(i, d) /\ Live' = Live /\ Spent' = Spent
          /\ d.processed /\ (Owed(d, status) => ~ok /\ PpFails(i))
      BY <1>1, <1>3, <2>2, ProcessedKeeps
    <2>4. PlainTypes'
      BY <1>1, <2>3 DEF AfterPut, ScoresInv, PlainTypes
    <2>5. Lists'
      BY <1>1, <2>1, <2>3 DEF AfterPut, ScoresInv, Lists, LiveHasTokens
    <2>6. Recorded'
      BY <1>1, <1>3, <2>1, <2>3 DEF AfterPut, ScoresInv, Recorded, Live
    <2> QED
      BY <2>3, <2>4, <2>5, <2>6 DEF AfterPut, ScoresInv
  <1> QED
    BY <1>2, <1>3

LEMMA JobStartKeepsScores ==
    ASSUME ScoresInv, JobStart
    PROVE  ScoresInv'
  <1>1. /\ UNCHANGED <<policy, tokens, scores>> /\ processing' = {}
        /\ queue' = queue \cup processing \cup pending \cup {i \in Live : ~scores[i].processed}
        /\ job' = [job EXCEPT !.pc = "claim"] /\ job.pc = "off"
        /\ UNCHANGED <<pending, tasks, requests, gone, view>>
    BY DEF JobStart
  <1>2. job'.pc # "work" /\ job'.pc # "ack" /\ job' \in Job
    BY <1>1 DEF ScoresInv, PlainTypes, Job
  <1>3. PlainTypes'
    BY <1>1, <1>2, ScoresStay DEF ScoresInv, PlainTypes
  <1>4. Lists'
    <2>1. Live \subseteq Spent
      BY DEF Live, Spent
    <2>2. queue' \subseteq Spent
      BY <1>1, <2>1 DEF ScoresInv, Lists
    <2> QED
      BY <1>1, <1>2, <2>2, ScoresStay DEF ScoresInv, Lists, LiveHasTokens
  <1>5. Recorded'
    BY <1>1, <1>2, ScoresStay DEF ScoresInv, Recorded
  <1> QED
    BY <1>1, <1>3, <1>4, <1>5, ScoresStay DEF ScoresInv

LEMMA JobClaimKeepsScores ==
    ASSUME ScoresInv, NEW i \in Ids, JobClaim(i)
    PROVE  ScoresInv'
  <1>1. /\ UNCHANGED <<policy, tokens, scores>> /\ i \in queue
        /\ queue' = queue \ {i} /\ processing' = processing \cup {i}
        /\ job'.pc = "work" /\ job'.claim = i /\ job' \in Job
        /\ UNCHANGED <<pending, tasks, requests, gone, view>>
    BY DEF JobClaim, Job
  <1>2. PlainTypes'
    BY <1>1, ScoresStay DEF ScoresInv, PlainTypes
  <1>3. Lists'
    BY <1>1, ScoresStay DEF ScoresInv, Lists, LiveHasTokens
  <1>4. Recorded'
    BY <1>1, ScoresStay DEF ScoresInv, Recorded
  <1> QED
    BY <1>1, <1>2, <1>3, <1>4, ScoresStay DEF ScoresInv

LEMMA JobAckKeepsScores ==
    ASSUME ScoresInv, JobAck
    PROVE  ScoresInv'
  <1>1. /\ UNCHANGED <<policy, tokens, scores>> /\ job.pc = "ack"
        /\ processing' = IF job.retry THEN processing ELSE processing \ {job.claim}
        /\ job'.pc = "claim" /\ job' \in Job
        /\ UNCHANGED <<pending, queue, tasks, requests, gone, view>>
    BY DEF JobAck, Job
  <1>2. PlainTypes'
    BY <1>1, ScoresStay DEF ScoresInv, PlainTypes
  <1>3. Lists'
    BY <1>1, ScoresStay DEF ScoresInv, Lists, LiveHasTokens
  <1>4. Recorded'
    BY <1>1, ScoresStay DEF ScoresInv, Recorded
  <1> QED
    BY <1>1, <1>2, <1>3, <1>4, ScoresStay DEF ScoresInv

LEMMA JobEndKeepsScores ==
    ASSUME ScoresInv, JobEnd
    PROVE  ScoresInv'
  <1>1. /\ UNCHANGED <<policy, tokens, scores>> /\ queue = {}
        /\ queue' = processing /\ processing' = {}
        /\ job'.pc = "off" /\ job' \in Job
        /\ UNCHANGED <<pending, tasks, requests, gone, view>>
    BY DEF JobEnd, Idle, Job
  <1>2. PlainTypes'
    BY <1>1, ScoresStay DEF ScoresInv, PlainTypes
  <1>3. Lists'
    BY <1>1, ScoresStay DEF ScoresInv, Lists, LiveHasTokens
  <1>4. Recorded'
    BY <1>1, ScoresStay DEF ScoresInv, Recorded
  <1> QED
    BY <1>1, <1>2, <1>3, <1>4, ScoresStay DEF ScoresInv

LEMMA ImportEnqueueKeepsScores ==
    ASSUME ScoresInv, NEW i \in Ids, ImportEnqueue(i)
    PROVE  ScoresInv'
  <1>1. /\ UNCHANGED <<policy, tokens, scores>> /\ i \in requests
        /\ requests' = requests \ {i}
        /\ queue' = IF i \in processing THEN queue ELSE queue \cup {i}
        /\ UNCHANGED <<pending, processing, tasks, job, gone, view>>
    BY DEF ImportEnqueue
  <1>2. PlainTypes'
    BY <1>1, ScoresStay DEF ScoresInv, PlainTypes
  <1>3. Lists'
    BY <1>1, ScoresStay DEF ScoresInv, Lists, LiveHasTokens
  <1>4. Recorded'
    BY <1>1, ScoresStay DEF ScoresInv, Recorded
  <1> QED
    BY <1>1, <1>2, <1>3, <1>4, ScoresStay DEF ScoresInv

LEMMA ReadsKeepScores ==
    ASSUME ScoresInv,
           \/ \E m \in Maps, p \in Plays, v \in BOOLEAN : ImportRead(m, p, v)
           \/ \E i \in Ids : DeleteRead(i)
    PROVE  ScoresInv'
  <1>1. UNCHANGED <<policy, tokens, scores, pending, work>>
    BY DEF ImportRead, DeleteRead
  <1>2. UNCHANGED <<pending, queue, processing, tasks, requests, job, gone>>
    BY <1>1 DEF work
  <1>3. /\ view'.kind = "import" => view'.map \in Maps /\ view'.play \in Plays
        /\ view'.kind = "delete" => view'.id \in Ids
    BY DEF ImportRead, DeleteRead
  <1>4. PlainTypes'
    BY <1>1, <1>2, <1>3, ScoresStay DEF ScoresInv, PlainTypes
  <1>5. Lists'
    BY <1>1, <1>2, ScoresStay DEF ScoresInv, Lists, LiveHasTokens
  <1>6. Recorded'
    BY <1>1, <1>2, ScoresStay DEF ScoresInv, Recorded
  <1> QED
    BY <1>1, <1>4, <1>5, <1>6, ScoresStay DEF ScoresInv

LEMMA CrashKeepsScores ==
    ASSUME ScoresInv, Crash
    PROVE  ScoresInv'
  <1>1. /\ UNCHANGED <<policy, tokens, scores>> /\ tasks' = {} /\ requests' = {}
        /\ job' = Idle /\ view' = NoView
        /\ UNCHANGED <<pending, queue, processing, gone>>
    BY DEF Crash
  <1>2. job'.pc = "off" /\ job' \in Job /\ view'.kind = "none"
    BY <1>1 DEF Idle, NoView, Job
  <1>3. PlainTypes'
    BY <1>1, <1>2, ScoresStay DEF ScoresInv, PlainTypes
  <1>4. Lists'
    BY <1>1, <1>2, ScoresStay DEF ScoresInv, Lists, LiveHasTokens
  <1>5. Recorded'
    BY <1>1, <1>2, ScoresStay DEF ScoresInv, Recorded
  <1> QED
    BY <1>1, <1>3, <1>4, <1>5, ScoresStay DEF ScoresInv

\* What a PP retry that goes through makes of a finalised score.
Retried(i, d) ==
    /\ d \in Score /\ Fits(d, status, md5) /\ d.processed /\ scores' = [scores EXCEPT ![i] = d]
    /\ d.map = scores[i].map /\ d.play = scores[i].play
    /\ d.lb = scores[i].lb /\ d.ranked = scores[i].ranked
    /\ d.pp = IF d.play.passed THEN d.play.pp ELSE 0
    /\ bestPp' = IF d.play.passed THEN PpRowsAfter(bestPp, scores', i) ELSE bestPp
    /\ stats' = [stats EXCEPT !.pp = UserPp(bestPp', scores')]

\* How it ends: not allowed, paid, failed, or dropped for want of the map.
RetryEnds(i) ==
    \/ /\ ~(scores[i].ranked /\ HasPp(status[scores[i].map]))
       /\ UNCHANGED <<scores, bestPp, stats, gone>> /\ pending' = pending \ {i}
       /\ job'.retry = job.retry
    \/ /\ scores[i].ranked /\ \E d : Retried(i, d)
       /\ pending' = pending \ {i} /\ gone' = gone \ {i} /\ job'.retry = job.retry
    \/ UNCHANGED <<scores, bestPp, stats, pending, gone>> /\ job'.retry = TRUE
    \/ /\ UNCHANGED <<scores, bestPp, stats, pending>> /\ gone' = gone \cup {i}
       /\ job'.retry = job.retry

LEMMA JobRetryPpIs ==
    ASSUME ScoresInv, NEW i \in Live, scores[i].processed, NEW outcome, JobRetryPp(i, outcome)
    PROVE  /\ rows' = rows /\ job'.pc = "ack" /\ job'.claim = job.claim /\ job' \in Job
           /\ RetryEnds(i)
  <1>1. PICK c : c = scores[i]
    OBVIOUS
  <1>2. c \in Score /\ Fits(c, status, md5) /\ i \in Ids /\ c.processed
    BY <1>1 DEF ScoresInv, PlainTypes, Eligible, Live
  <1>3. Current(c) = c
    BY <1>2, FitsIsCurrent
  <1>4. RetryAllowed(i) <=> c.ranked /\ HasPp(status[c.map])
    BY <1>1, <1>3 DEF RetryAllowed
  <1>5. scores' = [scores EXCEPT ![i] = c] => scores' = scores
    BY <1>1, <1>2 DEF ScoresInv, PlainTypes
  <1>6. PICK pp : pp = IF c.play.passed THEN c.play.pp ELSE 0
    OBVIOUS
  <1>7. PICK d : d = [c EXCEPT !.pp = pp]
    OBVIOUS
  <1>8. ASSUME c.ranked
        PROVE  Fits(d, status, md5) /\ Settled(d, c, pp)
    <2>1. Settles(c, pp)
      BY <1>2, <1>6, <1>8, ScoreFields, PlayFields DEF Settles
    <2>2. d = [c EXCEPT !.processed = TRUE, !.pp = pp]
      BY <1>2, <1>7 DEF Score
    <2> QED
      BY <1>2, <2>1, <2>2, SettledFits
  <1>9. job \in Job
    BY DEF ScoresInv, PlainTypes
  <1>10. rows' = rows
    BY DEF JobRetryPp
  <1>11. CASE /\ ~RetryAllowed(i) /\ scores' = [scores EXCEPT ![i] = Current(scores[i])]
              /\ UNCHANGED <<bestPp, stats, gone>> /\ pending' = pending \ {i}
              /\ job' = [job EXCEPT !.pc = "ack"]
    BY <1>1, <1>3, <1>4, <1>5, <1>9, <1>10, <1>11 DEF RetryEnds, Job
  <1>12. CASE /\ RetryAllowed(i) /\ scores' = [scores EXCEPT ![i] = d]
              /\ bestPp' = IF c.play.passed THEN PpRowsAfter(bestPp, scores', i) ELSE bestPp
              /\ stats' = [stats EXCEPT !.pp = UserPp(bestPp', scores')]
              /\ pending' = pending \ {i} /\ gone' = gone \ {i}
              /\ job' = [job EXCEPT !.pc = "ack"]
    <2>1. c.ranked
      BY <1>4, <1>12
    <2>2. Retried(i, d)
      BY <1>1, <1>6, <1>8, <1>12, <2>1 DEF Retried, Settled
    <2> QED
      BY <1>1, <1>9, <1>10, <1>12, <2>1, <2>2 DEF RetryEnds, Job
  <1>13. CASE /\ UNCHANGED <<scores, bestPp, stats, pending, gone>>
              /\ job' = [job EXCEPT !.pc = "ack", !.retry = TRUE]
    BY <1>9, <1>10, <1>13 DEF RetryEnds, Job
  <1>14. CASE /\ UNCHANGED <<scores, bestPp, stats, pending>>
              /\ gone' = gone \cup {i} /\ job' = [job EXCEPT !.pc = "ack"]
    BY <1>9, <1>10, <1>14 DEF RetryEnds, Job
  <1> QED
    BY <1>1, <1>3, <1>6, <1>7, <1>11, <1>12, <1>13, <1>14 DEF JobRetryPp

LEMMA RetriedKeeps ==
    ASSUME ScoresInv, NEW i \in Live, scores[i].processed, NEW d, Retried(i, d),
           UNCHANGED <<policy, tokens>>
    PROVE  AfterPut(i, d) /\ Live' = Live /\ Spent' = Spent /\ ~Owed(d, status)
  <1>1. tokens[i] \notin {NoToken, Deleted} /\ i \in Ids /\ i \in Spent
    BY DEF ScoresInv, Lists, Live, Spent
  <1>2. tokens' = tokens
    OBVIOUS
  <1>3. Put(i, d)
    BY <1>1, <1>2 DEF Put, Retried, ScoresInv, PlainTypes
  <1>4. AfterPut(i, d)
    BY <1>3, PutKeeps
  <1>5. Live' = Live /\ Spent' = Spent
    BY <1>1, <1>4 DEF AfterPut
  <1>6. ~Owed(d, status)
    <2>1. d.play.pp # 0
      BY ScoreFields, PlayFields DEF Retried
    <2> QED
      BY <2>1 DEF Owed, Retried
  <1> QED
    BY <1>4, <1>5, <1>6

LEMMA JobWorkKeepsScores ==
    ASSUME ScoresInv, NEW o \in Outcomes, JobWork(o)
    PROVE  ScoresInv'
  <1>1. PICK i : i = job.claim
    OBVIOUS
  <1>2. /\ job.pc = "work" /\ job \in Job /\ i \in processing /\ i \in Spent /\ i \in Ids
        /\ UNCHANGED <<policy, tokens, queue, processing, tasks, requests, view>>
    BY <1>1 DEF JobWork, ScoresInv, PlainTypes, Lists, Spent
  <1>3. CASE i \notin Live
    <2>1. UNCHANGED <<scores, pending, gone>> /\ job' = [job EXCEPT !.pc = "ack"]
      BY <1>1, <1>3 DEF JobWork
    <2>2. job' \in Job /\ job'.claim = i
      BY <1>1, <1>2, <2>1 DEF Job
    <2>3. PlainTypes'
      BY <1>2, <2>1, <2>2, ScoresStay DEF ScoresInv, PlainTypes
    <2>4. Lists'
      BY <1>2, <2>1, <2>2, ScoresStay DEF ScoresInv, Lists, LiveHasTokens
    <2>5. Recorded'
      BY <1>2, <1>3, <2>1, <2>2, ScoresStay DEF ScoresInv, Recorded
    <2> QED
      BY <1>2, <2>1, <2>3, <2>4, <2>5, ScoresStay DEF ScoresInv
  <1>4. CASE i \in Live /\ ~scores[i].processed
    <2>1. PICK ok \in BOOLEAN : ok = (o = "ok")
      OBVIOUS
    <2>2. /\ ProcessUser(i, ok) /\ UNCHANGED <<pending, gone>> /\ o # "no map"
          /\ job' = [job EXCEPT !.pc = "ack", !.retry = o = "fails" /\ PpFails(i)]
      BY <1>1, <1>4, <2>1 DEF JobWork
    <2>3. /\ job' \in Job /\ job'.claim = i /\ job'.pc = "ack"
          /\ job'.retry <=> o = "fails" /\ PpFails(i)
      BY <1>1, <1>2, <2>2 DEF Job
    <2>4. PICK d : Processed(i, ok, d)
      BY <1>4, <2>2, ProcessUserIs
    <2>5. /\ AfterPut(i, d) /\ Live' = Live /\ Spent' = Spent
          /\ d.processed /\ (Owed(d, status) => ~ok /\ PpFails(i))
      BY <1>2, <1>4, <2>4, ProcessedKeeps
    <2>6. Owed(d, status) => job'.retry
      BY <2>1, <2>2, <2>3, <2>5 DEF Outcomes
    <2>7. PlainTypes'
      BY <1>2, <2>3, <2>5 DEF AfterPut, ScoresInv, PlainTypes
    <2>8. Lists'
      <3>1. LiveHasTokens' /\ Live' = Live /\ Spent' = Spent
        BY <2>5 DEF AfterPut
      <3>2. UNCHANGED <<queue, processing, tasks, requests, pending>> /\ job'.claim \in processing
        BY <1>2, <2>2, <2>3
      <3> QED
        BY <3>1, <3>2 DEF ScoresInv, Lists, LiveHasTokens
    <2>9. Recorded'
      BY <1>2, <1>4, <2>2, <2>3, <2>5, <2>6 DEF AfterPut, ScoresInv, Recorded, Live
    <2> QED
      BY <2>5, <2>7, <2>8, <2>9 DEF AfterPut, ScoresInv
  <1>5. CASE i \in Live /\ scores[i].processed
    <2>1. JobRetryPp(i, o)
      BY <1>1, <1>5 DEF JobWork
    <2>2. job'.pc = "ack" /\ job'.claim = i /\ job' \in Job /\ RetryEnds(i)
      BY <1>1, <1>5, <2>1, JobRetryPpIs
    <2>3. CASE /\ ~(scores[i].ranked /\ HasPp(status[scores[i].map]))
               /\ UNCHANGED <<scores, gone>> /\ pending' = pending \ {i}
      <3>1. ~Owed(scores[i], status)
        BY <2>3 DEF Owed
      <3>2. PlainTypes'
        BY <1>2, <2>2, <2>3, ScoresStay DEF ScoresInv, PlainTypes
      <3>3. Lists'
        BY <1>2, <2>2, <2>3, ScoresStay DEF ScoresInv, Lists, LiveHasTokens
      <3>4. Recorded'
        BY <1>2, <1>5, <2>2, <2>3, <3>1, ScoresStay DEF ScoresInv, Recorded
      <3> QED
        BY <1>2, <2>3, <3>2, <3>3, <3>4, ScoresStay DEF ScoresInv
    <2>4. ASSUME NEW d, Retried(i, d), pending' = pending \ {i}, gone' = gone \ {i}
          PROVE  ScoresInv'
      <3>1. AfterPut(i, d) /\ Live' = Live /\ Spent' = Spent /\ ~Owed(d, status) /\ d.processed
        BY <1>2, <1>5, <2>4, RetriedKeeps DEF Retried
      <3>2. PlainTypes'
        BY <1>2, <2>2, <3>1 DEF AfterPut, ScoresInv, PlainTypes
      <3>3. Lists'
        BY <1>2, <2>2, <2>4, <3>1 DEF AfterPut, ScoresInv, Lists, LiveHasTokens
      <3>4. Recorded'
        BY <1>2, <1>5, <2>2, <2>4, <3>1 DEF AfterPut, ScoresInv, Recorded, Live
      <3> QED
        BY <3>1, <3>2, <3>3, <3>4 DEF AfterPut, ScoresInv
    <2>5. CASE UNCHANGED <<scores, pending, gone>> /\ job'.retry = TRUE
      <3>1. PlainTypes'
        BY <1>2, <2>2, <2>5, ScoresStay DEF ScoresInv, PlainTypes
      <3>2. Lists'
        BY <1>2, <2>2, <2>5, ScoresStay DEF ScoresInv, Lists, LiveHasTokens
      <3>3. Recorded'
        BY <1>2, <1>5, <2>2, <2>5, ScoresStay DEF ScoresInv, Recorded
      <3> QED
        BY <1>2, <2>5, <3>1, <3>2, <3>3, ScoresStay DEF ScoresInv
    <2>6. CASE UNCHANGED <<scores, pending>> /\ gone' = gone \cup {i}
      <3>1. PlainTypes'
        BY <1>2, <2>2, <2>6, ScoresStay DEF ScoresInv, PlainTypes
      <3>2. Lists'
        BY <1>2, <2>2, <2>6, ScoresStay DEF ScoresInv, Lists, LiveHasTokens
      <3>3. Recorded'
        BY <1>2, <1>5, <2>2, <2>6, ScoresStay DEF ScoresInv, Recorded
      <3> QED
        BY <1>2, <2>6, <3>1, <3>2, <3>3, ScoresStay DEF ScoresInv
    <2> QED
      BY <2>2, <2>3, <2>4, <2>5, <2>6 DEF RetryEnds
  <1> QED
    BY <1>3, <1>4, <1>5

\* Scores go, and nothing else about the scores changes.
LEMMA DropKeeps ==
    ASSUME ScoresInv, NEW D, D \subseteq Live, UNCHANGED policy,
           scores' = [i \in Ids |-> IF i \in D THEN NoScore ELSE scores[i]],
           tokens' \in [Ids -> Token \cup {NoToken, Deleted}],
           \A i \in Ids : tokens'[i] = tokens[i] \/ tokens'[i] = Deleted,
           \A i \in D : tokens'[i] = Deleted,
           \A i \in Live \ D : tokens'[i] = tokens[i],
           \A i \in Ids : tokens[i] = NoToken => tokens'[i] = NoToken,
           UNCHANGED work, pending' = pending \ D,
           view'.kind = "none"
    PROVE  ScoresInv'
  <1>1. /\ status' = status /\ md5' = md5 /\ retired' = retired
        /\ UNCHANGED <<queue, processing, tasks, requests, job, gone>>
    BY DEF policy, work
  <1>2. Live' = Live \ D
    BY DEF Live
  <1>3. \A i \in Live' : scores'[i] = scores[i] /\ tokens'[i] = tokens[i] /\ i \in Live
    BY <1>2 DEF Live
  <1>4. Spent \subseteq Spent'
    BY <1>2 DEF Spent, Live
  <1>5. PlainTypes'
    BY <1>1 DEF ScoresInv, PlainTypes
  <1>6. Lists'
    <2>1. \A i \in Live' : tokens'[i] \notin {NoToken, Deleted}
      BY <1>3 DEF ScoresInv, Lists
    <2>2. pending' \subseteq Live'
      BY <1>2 DEF ScoresInv, Lists
    <2> QED
      BY <1>1, <1>4, <2>1, <2>2 DEF ScoresInv, Lists
  <1>7. Withdrawn'
    BY <1>1, <1>3, <1>4 DEF ScoresInv, Withdrawn
  <1>8. Eligible'
    BY <1>1, <1>3 DEF ScoresInv, Eligible
  <1>9. Recorded'
    BY <1>1, <1>2, <1>3 DEF ScoresInv, Recorded
  <1> QED
    BY <1>5, <1>6, <1>7, <1>8, <1>9 DEF ScoresInv

LEMMA ClearProfileKeepsScores ==
    ASSUME ScoresInv, ClearProfile
    PROVE  ScoresInv'
  <1>1. /\ tokens' = [i \in Ids |-> IF tokens[i] = NoToken THEN NoToken ELSE Deleted]
        /\ scores' = [i \in Ids |-> NoScore] /\ pending' = {} /\ UNCHANGED <<policy, work, view>>
        /\ view = NoView
    BY DEF ClearProfile
  <1>2. PICK D : D = Live
    OBVIOUS
  <1>3. scores' = [i \in Ids |-> IF i \in D THEN NoScore ELSE scores[i]]
    BY <1>1, <1>2 DEF Live
  <1>4. tokens' \in [Ids -> Token \cup {NoToken, Deleted}]
    BY <1>1
  <1>5. /\ \A i \in Ids : tokens'[i] = tokens[i] \/ tokens'[i] = Deleted
        /\ \A i \in D : tokens'[i] = Deleted
        /\ \A i \in Live \ D : tokens'[i] = tokens[i]
        /\ \A i \in Ids : tokens[i] = NoToken => tokens'[i] = NoToken
    BY <1>1, <1>2 DEF ScoresInv, Lists, Live
  <1>6. pending' = pending \ D
    BY <1>1, <1>2 DEF ScoresInv, Lists
  <1>7. view'.kind = "none"
    BY <1>1 DEF NoView
  <1> QED
    BY <1>1, <1>2, <1>3, <1>4, <1>5, <1>6, <1>7, DropKeeps

LEMMA DeleteCommitKeepsScores ==
    ASSUME ScoresInv, DeleteCommit
    PROVE  ScoresInv'
  <1>1. PICK i : i = view.id
    OBVIOUS
  <1>2. /\ view.kind = "delete" /\ view' = NoView /\ UNCHANGED <<policy, work>> /\ i \in Ids
    BY <1>1 DEF DeleteCommit, ScoresInv, PlainTypes
  <1>3. PICK D : D = Live \cap {i}
    OBVIOUS
  <1>4. /\ tokens' = [j \in Ids |-> IF j \in D THEN Deleted ELSE tokens[j]]
        /\ scores' = [j \in Ids |-> IF j \in D THEN NoScore ELSE scores[j]]
        /\ pending' = pending \ D
    <2>1. CASE i \notin Live
      <3>1. D = {} /\ UNCHANGED <<tokens, scores, pending>>
        BY <1>1, <1>3, <2>1 DEF DeleteCommit
      <3> QED
        BY <3>1 DEF ScoresInv, PlainTypes
    <2>2. CASE i \in Live
      <3>1. /\ D = {i} /\ tokens' = [tokens EXCEPT ![i] = Deleted]
            /\ scores' = [scores EXCEPT ![i] = NoScore] /\ pending' = pending \ {i}
        BY <1>1, <1>3, <2>2 DEF DeleteCommit
      <3> QED
        BY <3>1 DEF ScoresInv, PlainTypes
    <2> QED
      BY <2>1, <2>2
  <1>5. tokens' \in [Ids -> Token \cup {NoToken, Deleted}]
    BY <1>4 DEF ScoresInv, PlainTypes
  <1>6. /\ \A j \in Ids : tokens'[j] = tokens[j] \/ tokens'[j] = Deleted
        /\ \A j \in D : tokens'[j] = Deleted
        /\ \A j \in Live \ D : tokens'[j] = tokens[j]
        /\ \A j \in Ids : tokens[j] = NoToken => tokens'[j] = NoToken
    BY <1>3, <1>4 DEF ScoresInv, Lists, Live
  <1>7. view'.kind = "none" /\ D \subseteq Live
    BY <1>2, <1>3 DEF NoView
  <1> QED
    BY <1>2, <1>4, <1>5, <1>6, <1>7, DropKeeps

\* What an import writes: a new finalised score of the map of its view.
Imported(i, c, d, ok) ==
    /\ i \in Fresh /\ c \in Score /\ d \in Score /\ Fits(c, status, md5) /\ Fits(d, status, md5)
    /\ Settled(d, c, IF MayEarn(c, status[view.map]) /\ ok THEN c.play.pp ELSE 0)
    /\ c.map = view.map /\ c.play = view.play
    /\ tokens' = [tokens EXCEPT ![i] = [map |-> view.map, md5 |-> md5[view.map]]]
    /\ scores' = [scores EXCEPT ![i] = d]
    /\ LET paid == MayEarn(c, status[view.map]) /\ ok
           seen == PpRowsAfter(view.bestPp, [view.scores EXCEPT ![i] = d], i)
           left == RowsAfter(view.rows, i, c, status[view.map])
       IN  /\ bestPp' = IF paid /\ seen[view.map] = i
                        THEN [bestPp EXCEPT ![view.map] = i] ELSE bestPp
           /\ rows' = (rows \ (view.rows \ left)) \cup (left \ view.rows)
           /\ stats' = StatsAfter(stats, view.rows, i, c, status[view.map],
                                  UserPp(bestPp', scores'))
    /\ \E owed : /\ owed = {j \in {i} : MayEarn(c, status[view.map]) /\ ~ok}
                 /\ pending' = pending \cup owed /\ requests' = requests \cup owed

\* The score an import writes, before and after it is settled.
ImportRaw ==
    LET raw == Snapshot(0, view.map, view.play, md5[view.map])
    IN  IF view.verified THEN raw
        ELSE [raw EXCEPT !.lb = FALSE, !.ranked = FALSE, !.rse = FALSE]

ImportDone(ok) ==
    [ImportRaw EXCEPT !.processed = TRUE,
                      !.pp = IF MayEarn(ImportRaw, status[view.map]) /\ ok
                             THEN ImportRaw.play.pp ELSE 0]

ImportWrites(i, m, c, d, ok) ==
    LET paid == MayEarn(c, status[m]) /\ ok
        sc   == [scores EXCEPT ![i] = d]
        seen == PpRowsAfter(view.bestPp, [view.scores EXCEPT ![i] = d], i)
        best == IF paid /\ seen[m] = i THEN [bestPp EXCEPT ![m] = i] ELSE bestPp
        left == RowsAfter(view.rows, i, c, status[m])
    IN  /\ tokens' = [tokens EXCEPT ![i] = [map |-> m, md5 |-> md5[m]]]
        /\ scores' = sc /\ bestPp' = best
        /\ rows' = (rows \ (view.rows \ left)) \cup (left \ view.rows)
        /\ stats' = StatsAfter(stats, view.rows, i, c, status[m], UserPp(best, sc))
        /\ LET owed == {j \in {i} : MayEarn(c, status[m]) /\ ~ok}
           IN  pending' = pending \cup owed /\ requests' = requests \cup owed

LEMMA ImportCommitIs ==
    ASSUME ScoresInv, NEW ok \in BOOLEAN, ImportCommit(ok)
    PROVE  \/ UNCHANGED <<tokens, scores, tables, pending, requests>>
           \/ \E i, c, d : Imported(i, c, d, ok)
  <1> SUFFICES ASSUME ~UNCHANGED <<tokens, scores, tables, pending, requests>>
               PROVE  \E i, c, d : Imported(i, c, d, ok)
    OBVIOUS
  <1>1. PICK m : m = view.map
    OBVIOUS
  <1>2. PICK raw : raw = Snapshot(0, m, view.play, md5[m])
    OBVIOUS
  <1>3. PICK c : c = IF view.verified THEN raw
                     ELSE [raw EXCEPT !.lb = FALSE, !.ranked = FALSE, !.rse = FALSE]
    OBVIOUS
  <1>4. PICK pp : pp = IF MayEarn(c, status[m]) /\ ok THEN c.play.pp ELSE 0
    OBVIOUS
  <1>5. PICK d : d = [c EXCEPT !.processed = TRUE, !.pp = pp]
    OBVIOUS
  <1>6. m \in Maps /\ view.play \in Plays /\ md5[m] \in Nat
    BY <1>1 DEF ImportCommit, ScoresInv, PlainTypes
  <1>7. /\ raw \in Score /\ Fits(raw, status, md5) /\ raw.map = m /\ raw.play = view.play
        /\ raw.pp = 0
    BY <1>2, <1>6, SnapshotFits DEF ScoresInv, PlainTypes
  <1>8. c \in Score /\ Fits(c, status, md5) /\ c.map = m /\ c.play = view.play
    <2>1. CASE view.verified
      BY <1>3, <1>7, <2>1
    <2>2. CASE ~view.verified
      <3>1. c = [raw EXCEPT !.lb = FALSE, !.ranked = FALSE, !.rse = FALSE]
        BY <1>3, <2>2
      <3> QED
        BY <1>7, <3>1, ClearedFits
    <2> QED
      BY <2>1, <2>2
  <1>9. Settles(c, pp)
    BY <1>4, <1>8, ScoreFields, PlayFields DEF Settles, MayEarn
  <1>10. Fits(d, status, md5) /\ Settled(d, c, pp)
    BY <1>5, <1>8, <1>9, SettledFits
  <1>11. d \in Score
    BY <1>10 DEF Settled
  <1>12. view.sum = md5[m]
    BY <1>1 DEF ImportCommit
  <1>13. \E i \in Fresh : ImportWrites(i, view.map, ImportRaw, ImportDone(ok), ok)
    BY <1>1, <1>12, Zenon DEF ImportCommit, ImportWrites, ImportRaw, ImportDone
  <1>14. PICK i \in Fresh : ImportWrites(i, m, c, d, ok)
    <2>1. c = ImportRaw
      BY <1>1, <1>2, <1>3 DEF ImportRaw
    <2>2. d = ImportDone(ok)
      BY <1>1, <1>4, <1>5, <2>1 DEF ImportDone
    <2> QED
      BY <1>1, <1>13, <2>1, <2>2
  <1>15. Imported(i, c, d, ok)
    BY <1>1, <1>4, <1>8, <1>10, <1>11, <1>14 DEF Imported, ImportWrites
  <1> QED
    BY <1>15

LEMMA ImportedKeeps ==
    ASSUME ScoresInv, NEW ok \in BOOLEAN, NEW i, NEW c, NEW d, Imported(i, c, d, ok),
           view.kind = "import", UNCHANGED policy
    PROVE  /\ AfterPut(i, d) /\ i \notin Spent /\ d.processed
           /\ tokens' \in [Ids -> Token \cup {NoToken, Deleted}]
           /\ Owed(d, status) => MayEarn(c, status[view.map]) /\ ~ok
  <1>1. PICK tok : tok = [map |-> view.map, md5 |-> md5[view.map]]
    OBVIOUS
  <1>2. tok \in Token
    BY <1>1 DEF ScoresInv, PlainTypes, Token
  <1>3. tokens' = [tokens EXCEPT ![i] = tok]
    BY <1>1 DEF Imported
  <1>4. i \in Ids /\ tokens[i] = NoToken
    BY DEF Imported, Fresh
  <1>5. i \notin Spent
    BY <1>4, NoTokenIsNone DEF Spent, ScoresInv, Lists
  <1>6. Put(i, d)
    BY <1>2, <1>3, <1>4, <1>5, NoTokenIsNone DEF Put, Imported, ScoresInv, PlainTypes
  <1>7. AfterPut(i, d)
    BY <1>6, PutKeeps
  <1>8. tokens' \in [Ids -> Token \cup {NoToken, Deleted}]
    BY <1>6 DEF Put
  <1>9. Owed(d, status) => MayEarn(c, status[view.map]) /\ ~ok
    <2>1. c.play.pp # 0
      BY ScoreFields, PlayFields DEF Imported
    <2> QED
      BY <2>1 DEF Owed, Imported, Settled, MayEarn
  <1> QED
    BY <1>5, <1>7, <1>8, <1>9 DEF Imported, Settled

LEMMA ImportCommitKeepsScores ==
    ASSUME ScoresInv, NEW ok \in BOOLEAN, ImportCommit(ok)
    PROVE  ScoresInv'
  <1>1. /\ view.kind = "import" /\ view' = NoView
        /\ UNCHANGED <<policy, queue, processing, tasks, job, gone>>
    BY DEF ImportCommit
  <1>2. view'.kind = "none"
    BY <1>1 DEF NoView
  <1>3. CASE UNCHANGED <<tokens, scores, tables, pending, requests>>
    <2>1. UNCHANGED <<policy, tokens, scores>> /\ UNCHANGED <<pending, requests>>
      BY <1>1, <1>3
    <2>2. PlainTypes'
      BY <1>1, <1>2, <2>1, ScoresStay DEF ScoresInv, PlainTypes
    <2>3. Lists'
      BY <1>1, <2>1, ScoresStay DEF ScoresInv, Lists, LiveHasTokens
    <2>4. Recorded'
      BY <1>1, <2>1, ScoresStay DEF ScoresInv, Recorded
    <2> QED
      BY <2>1, <2>2, <2>3, <2>4, ScoresStay DEF ScoresInv
  <1>4. ASSUME NEW i, NEW c, NEW d, Imported(i, c, d, ok)
        PROVE  ScoresInv'
    <2>1. /\ AfterPut(i, d) /\ i \notin Spent /\ d.processed
          /\ tokens' \in [Ids -> Token \cup {NoToken, Deleted}]
          /\ Owed(d, status) => MayEarn(c, status[view.map]) /\ ~ok
      BY <1>1, <1>4, ImportedKeeps
    <2>2. PICK owed : /\ owed = {j \in {i} : MayEarn(c, status[view.map]) /\ ~ok}
                      /\ pending' = pending \cup owed /\ requests' = requests \cup owed
      BY <1>4 DEF Imported
    <2>3. owed \subseteq {i} /\ (Owed(d, status) => i \in owed)
      BY <2>1, <2>2
    <2>4. PlainTypes'
      BY <1>1, <1>2, <2>1 DEF AfterPut, ScoresInv, PlainTypes
    <2>5. Lists'
      <3>1. LiveHasTokens' /\ Live' = Live \cup {i} /\ Spent' = Spent \cup {i}
        BY <2>1 DEF AfterPut
      <3> QED
        BY <1>1, <2>2, <2>3, <3>1 DEF ScoresInv, Lists, LiveHasTokens
    <2>6. job.pc = "ack" => job.claim # i
      BY <2>1 DEF ScoresInv, Lists
    <2>7. i \notin Live
      BY <2>1 DEF Spent, Live
    <2>8. Recorded'
      BY <1>1, <2>1, <2>2, <2>3, <2>6, <2>7 DEF AfterPut, ScoresInv, Recorded, Live
    <2> QED
      BY <2>1, <2>4, <2>5, <2>8 DEF AfterPut, ScoresInv
  <1> QED
    BY <1>3, <1>4, ImportCommitIs

\* What reconciling one map does to the scores.
Reconciled(m, t) ==
    /\ scores' = [i \in Ids |-> Retire(scores[i], m, t)]
    /\ retired' = retired \cup ({i \in Live : scores[i].map = m} \X {f \in {"lb", "pp"} :
                                  IF f = "pp" THEN t.pp ELSE t.lb \/ t.reset})

LEMMA ReconcileScores ==
    ASSUME NEW m, NEW t, Reconcile(m, t)
    PROVE  Reconciled(m, t)
  BY DEF Reconcile, Reconciled

AfterRetire(m, t) ==
    /\ Live' = Live /\ scores' \in [Ids -> Score \cup {NoScore}]
    /\ \A i \in Live :
          /\ scores[i] \in Score /\ scores'[i] \in Score /\ i \in Ids
          /\ scores'[i] = Retire(scores[i], m, t)
          /\ scores'[i].map = scores[i].map /\ scores'[i].play = scores[i].play
          /\ scores'[i].processed = scores[i].processed
          /\ scores[i].map # m => scores'[i] = scores[i]
          /\ scores[i].map = m => /\ scores'[i].lb <=> scores[i].lb /\ ~(t.lb \/ t.reset)
                                  /\ scores'[i].ranked <=> scores[i].ranked /\ ~t.pp
                                  /\ scores'[i].pp = IF t.pp THEN 0 ELSE scores[i].pp

LEMMA ReconciledIs ==
    ASSUME ScoresInv, NEW m \in Maps, NEW t \in Features, Reconciled(m, t)
    PROVE  AfterRetire(m, t)
  <1>1. \A i \in Ids : scores'[i] = Retire(scores[i], m, t)
    BY DEF Reconciled
  <1>2. \A i \in Live : scores[i] \in Score /\ i \in Ids /\ scores[i] # NoScore
    BY DEF ScoresInv, PlainTypes, Live
  <1>3. \A i \in Ids : i \notin Live => scores'[i] = NoScore
    BY <1>1 DEF Retire, Live
  <1>4. \A i \in Live : scores[i].map # m => scores'[i] = scores[i]
    BY <1>1, <1>2 DEF Retire
  <1>5. ASSUME NEW i \in Live, scores[i].map = m
        PROVE  /\ scores'[i] \in Score /\ scores'[i].map = m /\ scores'[i].play = scores[i].play
               /\ scores'[i].processed = scores[i].processed
               /\ scores'[i].lb <=> scores[i].lb /\ ~(t.lb \/ t.reset)
               /\ scores'[i].ranked <=> scores[i].ranked /\ ~t.pp
               /\ scores'[i].pp = IF t.pp THEN 0 ELSE scores[i].pp
    <2>1. PICK c, d : c = scores[i] /\ d = Retire(c, c.map, t)
      OBVIOUS
    <2>2. c \in Score
      BY <1>2, <2>1
    <2>3. /\ d \in Score /\ d.map = c.map /\ d.play = c.play
          /\ d.processed = c.processed
          /\ d.lb <=> c.lb /\ ~(t.lb \/ t.reset)
          /\ d.ranked <=> c.ranked /\ ~t.pp
          /\ d.pp = IF t.pp THEN 0 ELSE c.pp
      BY <2>1, <2>2, RetireFields
    <2>4. d = scores'[i]
      BY <1>1, <1>2, <1>5, <2>1
    <2> QED
      BY <1>5, <2>1, <2>3, <2>4
  <1>6. scores' \in [Ids -> Score \cup {NoScore}]
    <2>1. \A i \in Ids : scores'[i] \in Score \cup {NoScore}
      BY <1>2, <1>3, <1>4, <1>5
    <2> QED
      BY <2>1 DEF Reconciled
  <1>7. Live' = Live
    BY <1>2, <1>3, <1>4, <1>5, NoScoreIsNone DEF Live
  <1>8. \A i \in Live : /\ scores'[i].map = scores[i].map /\ scores'[i].play = scores[i].play
                       /\ scores'[i].processed = scores[i].processed /\ scores'[i] \in Score
    BY <1>2, <1>4, <1>5
  <1> QED
    BY <1>1, <1>2, <1>4, <1>5, <1>6, <1>7, <1>8 DEF AfterRetire

LEMMA ReconciledKeeps ==
    ASSUME ScoresInv, NEW m \in Maps, NEW t \in Features, Reconciled(m, t),
           status' \in [Maps -> Statuses], md5' \in [Maps -> Nat],
           \A n \in Maps \ {m} : status'[n] = status[n] /\ md5'[n] = md5[n],
           \A c \in Score : c.map = m /\ Fits(c, status, md5) => Fits(Retire(c, m, t), status', md5'),
           UNCHANGED <<tokens, pending, work, view>>
    PROVE  ScoresInv'
  <1>1. AfterRetire(m, t)
    BY ReconciledIs
  <1>2. \A i \in Live : scores[i] \in Score /\ i \in Ids
    BY <1>1 DEF AfterRetire
  <1>4. \A i \in Live : scores[i].map # m => scores'[i] = scores[i]
    BY <1>1 DEF AfterRetire
  <1>5. ASSUME NEW i \in Live, scores[i].map = m
        PROVE  /\ scores'[i].map = m /\ scores'[i].play = scores[i].play
               /\ scores'[i].processed = scores[i].processed
               /\ scores'[i].lb <=> scores[i].lb /\ ~(t.lb \/ t.reset)
               /\ scores'[i].ranked <=> scores[i].ranked /\ ~t.pp
               /\ scores'[i].pp = IF t.pp THEN 0 ELSE scores[i].pp
    BY <1>1, <1>5 DEF AfterRetire
  <1>6. scores' \in [Ids -> Score \cup {NoScore}]
    BY <1>1 DEF AfterRetire
  <1>7. Live' = Live
    BY <1>1 DEF AfterRetire
  <1>8. Spent' = Spent
    BY <1>7 DEF Spent
  <1>9. UNCHANGED <<queue, processing, tasks, requests, job, gone, view, tokens, pending>>
    BY DEF work
  <1>10. PlainTypes'
    BY <1>6, <1>9 DEF ScoresInv, PlainTypes
  <1>11. Lists'
    BY <1>7, <1>8, <1>9 DEF ScoresInv, Lists
  <1>12. Eligible'
    <2> SUFFICES ASSUME NEW i \in Live
                 PROVE  Fits(scores'[i], status', md5')
      BY <1>7 DEF Eligible
    <2>1. Fits(scores[i], status, md5)
      BY DEF ScoresInv, Eligible
    <2>2. CASE scores[i].map = m
      <3>1. scores'[i] = Retire(scores[i], m, t)
        BY <1>1 DEF AfterRetire
      <3> QED
        BY <1>2, <2>1, <2>2, <3>1
    <2>3. CASE scores[i].map # m
      <3>1. scores'[i] = scores[i] /\ scores[i].map \in Maps \ {m}
        BY <1>2, <1>4, <2>3, ScoreFields
      <3> QED
        BY <2>1, <3>1 DEF Fits
    <2> QED
      BY <2>2, <2>3
  <1>13. \A i \in Live : Owed(scores'[i], status') => Owed(scores[i], status)
    <2> SUFFICES ASSUME NEW i \in Live, Owed(scores'[i], status')
                 PROVE  Owed(scores[i], status)
      OBVIOUS
    <2>1. CASE scores[i].map = m
      <3>1. scores[i].ranked /\ ~t.pp
        BY <1>5, <2>1 DEF Owed
      <3>2. HasPp(status[scores[i].map])
        BY <3>1 DEF ScoresInv, Eligible, Fits
      <3> QED
        BY <1>5, <2>1, <3>1, <3>2 DEF Owed
    <2>2. CASE scores[i].map # m
      <3>1. scores'[i] = scores[i] /\ scores[i].map \in Maps \ {m}
        BY <1>2, <1>4, <2>2, ScoreFields
      <3> QED
        BY <3>1 DEF Owed
    <2> QED
      BY <2>1, <2>2
  <1>14. \A i \in Live : scores'[i].processed = scores[i].processed
    BY <1>4, <1>5
  <1>15. Recorded'
    BY <1>7, <1>9, <1>13, <1>14 DEF ScoresInv, Recorded
  <1>16. Withdrawn'
    <2>1. retired' \subseteq Spent \X {"lb", "pp"}
      BY DEF Reconciled, ScoresInv, Withdrawn, Spent, Live
    <2>2. ASSUME NEW i \in Live
          PROVE  /\ <<i, "lb">> \in retired' => ~scores'[i].lb
                 /\ <<i, "pp">> \in retired' => ~scores'[i].ranked
      <3>1. CASE scores[i].map = m
        <4>1. <<i, "lb">> \in retired' => <<i, "lb">> \in retired \/ t.lb \/ t.reset
          BY DEF Reconciled
        <4>2. <<i, "pp">> \in retired' => <<i, "pp">> \in retired \/ t.pp
          BY DEF Reconciled
        <4> QED
          BY <1>5, <3>1, <4>1, <4>2 DEF ScoresInv, Withdrawn
      <3>2. CASE scores[i].map # m
        <4>1. /\ <<i, "lb">> \in retired' => <<i, "lb">> \in retired
              /\ <<i, "pp">> \in retired' => <<i, "pp">> \in retired
          BY <3>2 DEF Reconciled
        <4> QED
          BY <1>4, <3>2, <4>1 DEF ScoresInv, Withdrawn
      <3> QED
        BY <3>1, <3>2
    <2> QED
      BY <1>7, <1>8, <2>1, <2>2 DEF Withdrawn
  <1> QED
    BY <1>10, <1>11, <1>12, <1>15, <1>16 DEF ScoresInv

LEMMA ChangeStatusKeepsScores ==
    ASSUME ScoresInv, NEW m \in Maps, NEW st \in Statuses, ChangeStatus(m, st)
    PROVE  ScoresInv'
  <1>1. PICK t : t = Plan(status[m], st)
    OBVIOUS
  <1>2. /\ status' = [status EXCEPT ![m] = st] /\ Reconcile(m, t) /\ md5' = md5
        /\ UNCHANGED <<tokens, pending, work, view>>
    BY <1>1 DEF ChangeStatus
  <1>3. t \in Features /\ Reconciled(m, t)
    BY <1>1, <1>2, PlanFeatures, ReconcileScores
  <1>4. status \in [Maps -> Statuses] /\ md5 \in [Maps -> Nat]
    BY DEF ScoresInv, PlainTypes
  <1>5. /\ status' \in [Maps -> Statuses] /\ md5' \in [Maps -> Nat] /\ status'[m] = st
        /\ \A n \in Maps \ {m} : status'[n] = status[n] /\ md5'[n] = md5[n]
    BY <1>2, <1>4
  <1>6. ASSUME NEW c \in Score, c.map = m /\ Fits(c, status, md5)
        PROVE  Fits(Retire(c, m, t), status', md5')
    <2>1. PICK d, old, new, rev : /\ d = Retire(c, m, t) /\ old = status /\ new = status'
                                  /\ rev = md5
      OBVIOUS
    <2>2. d = Retire(c, c.map, Plan(old[c.map], st)) /\ new[c.map] = st /\ Fits(c, old, rev)
      BY <1>1, <1>5, <1>6, <2>1
    <2>3. Fits(d, new, rev)
      BY <2>2, RetireFits
    <2> QED
      BY <1>2, <2>1, <2>3
  <1> QED
    BY <1>2, <1>3, <1>5, <1>6, ReconciledKeeps

LEMMA ReviseKeepsScores ==
    ASSUME ScoresInv, NEW m \in Maps, NEW st \in Statuses, Revise(m, st)
    PROVE  ScoresInv'
  <1>1. PICK ranked \in BOOLEAN : ranked = CountsRanked(status[m])
    <2>1. CountsRanked(status[m]) \in BOOLEAN
      OBVIOUS
    <2> QED
      BY <2>1, Zenon
  <1>2. PICK t : t = Everything(ranked)
    OBVIOUS
  <1>3. /\ status' = [status EXCEPT ![m] = st] /\ Reconcile(m, t) /\ md5' = [md5 EXCEPT ![m] = @ + 1]
        /\ UNCHANGED <<tokens, pending, work, view>>
    BY <1>1, <1>2 DEF Revise, Everything
  <1>4. t \in Features
    BY <1>2 DEF Everything, Features
  <1>5. Reconciled(m, t)
    BY <1>3, ReconcileScores
  <1>6. status \in [Maps -> Statuses] /\ md5 \in [Maps -> Nat]
    BY DEF ScoresInv, PlainTypes
  <1>7. /\ status' \in [Maps -> Statuses] /\ md5' \in [Maps -> Nat]
        /\ \A n \in Maps \ {m} : status'[n] = status[n] /\ md5'[n] = md5[n]
    BY <1>3, <1>6
  <1>8. ASSUME NEW c \in Score, c.map = m /\ Fits(c, status, md5)
        PROVE  Fits(Retire(c, m, t), status', md5')
    <2>1. PICK d, new, rev : d = Retire(c, m, t) /\ new = status' /\ rev = md5'
      OBVIOUS
    <2>2. d = Retire(c, c.map, Everything(ranked))
      BY <1>2, <1>8, <2>1
    <2>3. Fits(d, new, rev)
      BY <1>1, <2>2, ReviseFits
    <2> QED
      BY <2>1, <2>3
  <1> QED
    BY <1>3, <1>4, <1>5, <1>7, <1>8, ReconciledKeeps

LEMMA ScoresInvNext == ScoresInv /\ [Next]_vars => ScoresInv'
  <1> SUFFICES ASSUME ScoresInv, [Next]_vars
               PROVE  ScoresInv'
    OBVIOUS
  <1>1. CASE UNCHANGED vars
    <2>1. /\ UNCHANGED <<status, md5, retired, tokens, scores, queue, processing, tasks, requests>>
          /\ UNCHANGED <<job, gone, view, pending>>
      BY <1>1 DEF vars
    <2>2. Live' = Live
      BY <2>1 DEF Live
    <2>3. Spent' = Spent
      BY <2>1, <2>2 DEF Spent
    <2>4. PlainTypes' /\ Lists' /\ Withdrawn'
      BY <2>1, <2>2, <2>3 DEF ScoresInv, PlainTypes, Lists, Withdrawn
    <2>5. Eligible' /\ Recorded'
      BY <2>1, <2>2 DEF ScoresInv, Eligible, Recorded
    <2> QED
      BY <2>4, <2>5 DEF ScoresInv
  <1>2. ASSUME Server
        PROVE  ScoresInv'
    <2>1. CASE \E m \in Maps : CreateToken(m)
      BY <2>1, CreateTokenKeepsScores
    <2>2. CASE \E i \in Ids, p \in Plays : Submit(i, p)
      BY <2>2, SubmitKeepsScores
    <2>3. CASE \E i \in Ids : Resubmit(i)
      BY <2>3, ResubmitKeepsScores
    <2>4. CASE \E i \in Ids, ok \in BOOLEAN : Finalise(i, ok)
      BY <2>4, FinaliseKeepsScores
    <2>5. CASE JobStep
      BY <2>5, JobStartKeepsScores, JobClaimKeepsScores, JobWorkKeepsScores, JobAckKeepsScores,
         JobEndKeepsScores DEF JobStep
    <2>6. CASE \E m \in Maps, st \in Statuses : ChangeStatus(m, st) \/ Revise(m, st)
      BY <2>6, ChangeStatusKeepsScores, ReviseKeepsScores
    <2>7. CASE \E i \in Ids : ImportEnqueue(i)
      BY <2>7, ImportEnqueueKeepsScores
    <2>8. CASE ClearProfile
      BY <2>8, ClearProfileKeepsScores
    <2> QED
      BY <1>2, <2>1, <2>2, <2>3, <2>4, <2>5, <2>6, <2>7, <2>8 DEF Server
  <1>3. ASSUME Administration
        PROVE  ScoresInv'
    BY <1>3, ReadsKeepScores, ImportCommitKeepsScores, DeleteCommitKeepsScores DEF Administration
  <1>4. ASSUME Crash
        PROVE  ScoresInv'
    BY <1>4, CrashKeepsScores
  <1> QED
    BY <1>1, <1>2, <1>3, <1>4 DEF Next

LEMMA ScoresInvAlways == Spec => []ScoresInv
  BY ScoresInvInit, ScoresInvNext, PTL DEF Spec

\* A finalised score that is owed PP is in a redis list, pending or dropped,
\* whatever read views imports and deletions hold (score.py, the retry job).
THEOREM OwedPpTheorem == Spec => []OwedPpIsRecorded
  <1>1. ScoresInv => OwedPpIsRecorded
    <2> SUFFICES ASSUME ScoresInv, NEW i \in Live,
                        scores[i].processed /\ MayEarn(Current(scores[i]), status[scores[i].map])
                          /\ scores[i].pp = 0
                 PROVE  i \in queue \cup processing \cup pending \cup gone
      BY DEF OwedPpIsRecorded
    <2>1. Current(scores[i]) = scores[i]
      BY FitsIsCurrent DEF ScoresInv, PlainTypes, Eligible, Live
    <2>2. Owed(scores[i], status)
      BY <2>1 DEF Owed, MayEarn
    <2> QED
      BY <2>2 DEF ScoresInv, Recorded
  <1> QED
    BY <1>1, ScoresInvAlways, PTL

(***************************************************************************)
(* Leaderboard rows: the best total of a map, and what one score changes.  *)
(***************************************************************************)
Rows(rs) == IsFiniteSet(rs) /\ \A r \in rs : r.total \in Nat /\ r.score \in Nat

IsBest(b, rs, m) ==
    /\ b \in Nat /\ \A r \in RowsOf(rs, m) : r.total <= b
    /\ b # 0 => \E r \in RowsOf(rs, m) : r.total = b

LEMMA GlobalBestIs ==
    ASSUME NEW rs, Rows(rs), NEW m, RowsOf(rs, m) # {}
    PROVE  /\ GlobalBest(rs, m) \in RowsOf(rs, m)
           /\ \A o \in RowsOf(rs, m) : o.total <= GlobalBest(rs, m).total
  <1>1. PICK S : S = RowsOf(rs, m)
    OBVIOUS
  <1>2. S # {} /\ IsFiniteSet(S) /\ \A r \in S : r.total \in Nat /\ r.score \in Nat
    <2>1. S \subseteq rs
      BY <1>1 DEF RowsOf
    <2> QED
      BY <1>1, <2>1, FS_Subset DEF Rows
  <1>3. PICK f, g : f = [r \in S |-> r.total] /\ g = [r \in S |-> r.score]
    OBVIOUS
  <1>4. f \in [S -> Nat] /\ g \in [S -> Nat]
    BY <1>2, <1>3
  <1>5. PICK x \in S : Foremost(f, g, x, S)
    BY <1>2, <1>4, FiniteBest
  <1>6. \A o \in S : x.total > o.total \/ (x.total = o.total /\ x.score <= o.score)
    BY <1>3, <1>5 DEF Foremost
  <1>7. PICK best : best = GlobalBest(rs, m)
    OBVIOUS
  <1>8. /\ best \in S
        /\ \A o \in S : best.total > o.total \/ (best.total = o.total /\ best.score <= o.score)
    BY <1>1, <1>6, <1>7 DEF GlobalBest
  <1>9. \A o \in S : o.total <= best.total
    BY <1>2, <1>8
  <1> QED
    BY <1>1, <1>7, <1>8, <1>9

LEMMA BestTotalIs ==
    ASSUME NEW rs, Rows(rs), NEW m
    PROVE  IsBest(BestTotal(rs, m), rs, m)
  <1>1. CASE RowsOf(rs, m) = {}
    BY <1>1 DEF BestTotal, IsBest
  <1>2. CASE RowsOf(rs, m) # {}
    <2>1. PICK best : best = GlobalBest(rs, m)
      OBVIOUS
    <2>2. best \in RowsOf(rs, m) /\ \A o \in RowsOf(rs, m) : o.total <= best.total
      BY <1>2, <2>1, GlobalBestIs
    <2>3. best.total \in Nat
      BY <2>2 DEF Rows, RowsOf
    <2>4. BestTotal(rs, m) = best.total
      BY <1>2, <2>1 DEF BestTotal
    <2> QED
      BY <2>2, <2>3, <2>4 DEF IsBest
  <1> QED
    BY <1>1, <1>2

LEMMA BestIsUnique ==
    ASSUME NEW rs, NEW qs, Rows(rs), Rows(qs), NEW m, NEW b, NEW d,
           RowsOf(rs, m) = RowsOf(qs, m), IsBest(b, rs, m), IsBest(d, qs, m)
    PROVE  b = d
  <1>1. b <= d
    BY DEF IsBest
  <1>2. d <= b
    BY DEF IsBest
  <1> QED
    BY <1>1, <1>2 DEF IsBest

\* The row a score would have, and what putting it on the leaderboard does.
RowFor(s, c) == [map |-> c.map, mods |-> c.play.mods, score |-> s, total |-> c.play.total]

Placed(rs, new, qs) ==
    /\ qs \subseteq rs \cup {new}
    /\ \A r \in rs : r \in qs \/ (r.map = new.map /\ r.total < new.total /\ new \in qs)
    /\ (\A r \in RowsOf(rs, new.map) : r.total < new.total) => new \in qs

LEMMA RowsAfterPlaces ==
    ASSUME NEW rs, Rows(rs), NEW s, NEW c \in Score, NEW st,
           c.play.passed /\ OnLeaderboard(c, st)
    PROVE  Placed(rs, RowFor(s, c), RowsAfter(rs, s, c, st))
  <1>1. PICK new, same, best, qs : /\ new = RowFor(s, c)
                                   /\ same = {r \in RowsOf(rs, c.map) : r.mods = c.play.mods}
                                   /\ best = GlobalBest(rs, c.map)
                                   /\ qs = RowsAfter(rs, s, c, st)
    OBVIOUS
  <1>2. new.map = c.map /\ new.total = c.play.total
    BY <1>1 DEF RowFor
  <1>3. qs = IF same = {} THEN rs \cup {new}
             ELSE IF best \in same
             THEN IF c.play.total > best.total THEN (rs \ {best}) \cup {new} ELSE rs
             ELSE ((rs \ {r \in {best} : c.play.total > r.total})
                      \ {r \in same : c.play.total > r.total})
                  \cup (IF \E r \in same : c.play.total > r.total THEN {new} ELSE {})
    BY <1>1 DEF RowsAfter, RowFor
  <1>4. c.play.total \in Nat /\ \A r \in rs : r.total \in Nat
    BY ScoreFields, PlayFields DEF Rows
  <1>5. same \subseteq RowsOf(rs, c.map) /\ \A r \in RowsOf(rs, c.map) : r \in rs /\ r.map = c.map
    BY <1>1 DEF RowsOf
  <1>6. CASE same = {}
    BY <1>1, <1>3, <1>6 DEF Placed
  <1>7. CASE same # {}
    <2>1. best \in RowsOf(rs, c.map) /\ \A o \in RowsOf(rs, c.map) : o.total <= best.total
      BY <1>1, <1>5, <1>7, GlobalBestIs
    <2>2. best \in rs /\ best.map = c.map /\ best.total \in Nat
      BY <1>4, <1>5, <2>1
    <2>3. CASE best \in same
      <3>1. qs = IF c.play.total > best.total THEN (rs \ {best}) \cup {new} ELSE rs
        BY <1>3, <1>7, <2>3
      <3> QED
        BY <1>1, <1>2, <1>4, <2>1, <2>2, <3>1 DEF Placed
    <2>4. CASE best \notin same
      <3>1. qs = ((rs \ {r \in {best} : c.play.total > r.total})
                      \ {r \in same : c.play.total > r.total})
                  \cup (IF \E r \in same : c.play.total > r.total THEN {new} ELSE {})
        BY <1>3, <1>7, <2>4
      <3>2. PICK q \in same : TRUE
        BY <1>7
      <3>3. c.play.total > best.total => c.play.total > q.total
        BY <1>4, <1>5, <2>1, <2>2, <3>2
      <3>4. qs \subseteq rs \cup {new}
        BY <3>1
      <3>5. \A r \in rs : r \in qs \/ (r.map = new.map /\ r.total < new.total /\ new \in qs)
        BY <1>2, <1>4, <1>5, <2>2, <3>1, <3>2, <3>3
      <3>6. (\A r \in RowsOf(rs, new.map) : r.total < new.total) => new \in qs
        BY <1>2, <1>4, <1>5, <3>1, <3>2
      <3> QED
        BY <1>1, <3>4, <3>5, <3>6 DEF Placed
    <2> QED
      BY <2>3, <2>4
  <1> QED
    BY <1>6, <1>7

LEMMA PlacedBest ==
    ASSUME NEW rs, Rows(rs), NEW new, new.total \in Nat, new.score \in Nat,
           NEW qs, Placed(rs, new, qs)
    PROVE  /\ Rows(qs)
           /\ BestTotal(qs, new.map) = IF new.total > BestTotal(rs, new.map)
                                       THEN new.total ELSE BestTotal(rs, new.map)
           /\ \A m : m # new.map => BestTotal(qs, m) = BestTotal(rs, m)
  <1>1. Rows(qs)
    <2>1. IsFiniteSet(rs \cup {new})
      BY FS_AddElement DEF Rows
    <2>2. IsFiniteSet(qs)
      BY <2>1, FS_Subset DEF Placed
    <2> QED
      BY <2>2 DEF Rows, Placed
  <1>2. PICK m, b, d : m = new.map /\ b = BestTotal(rs, m) /\ d = BestTotal(qs, m)
    OBVIOUS
  <1>3. IsBest(b, rs, m) /\ IsBest(d, qs, m)
    BY <1>1, <1>2, BestTotalIs
  <1>4. PICK e : e = IF new.total > b THEN new.total ELSE b
    OBVIOUS
  <1>5. ASSUME NEW r \in RowsOf(qs, m)
        PROVE  r.total <= e
    <2>1. r \in RowsOf(rs, m) \/ r = new
      BY DEF RowsOf, Placed
    <2>2. b \in Nat /\ (r \in RowsOf(rs, m) => r.total \in Nat /\ r.total <= b)
      BY <1>3 DEF IsBest, Rows, RowsOf
    <2> QED
      BY <1>4, <2>1, <2>2
  <1>6. e # 0 => \E r \in RowsOf(qs, m) : r.total = e
    <2>1. CASE new.total > b
      <3>1. \A r \in RowsOf(rs, m) : r.total < new.total
        BY <1>3, <2>1 DEF IsBest, RowsOf, Rows
      <3>2. new \in RowsOf(qs, m)
        BY <1>2, <3>1 DEF RowsOf, Placed
      <3> QED
        BY <1>4, <2>1, <3>2
    <2>2. CASE ~(new.total > b) /\ b # 0
      <3>1. PICK r \in RowsOf(rs, m) : r.total = b
        BY <1>3, <2>2 DEF IsBest
      <3>2. ~(r.total < new.total)
        BY <1>3, <2>2, <3>1 DEF IsBest
      <3>3. r \in RowsOf(qs, m)
        BY <3>1, <3>2 DEF RowsOf, Placed
      <3> QED
        BY <1>4, <2>2, <3>1, <3>3
    <2> QED
      BY <1>4, <2>1, <2>2
  <1>7. IsBest(e, qs, m)
    <2>1. e \in Nat
      BY <1>3, <1>4 DEF IsBest
    <2> QED
      BY <1>5, <1>6, <2>1 DEF IsBest
  <1>8. d = e
    BY <1>1, <1>3, <1>7, BestIsUnique
  <1>9. ASSUME NEW n, n # new.map
        PROVE  BestTotal(qs, n) = BestTotal(rs, n)
    <2>1. RowsOf(rs, n) = RowsOf(qs, n)
      BY <1>9 DEF RowsOf, Placed
    <2>2. IsBest(BestTotal(qs, n), qs, n) /\ IsBest(BestTotal(rs, n), rs, n)
      BY <1>1, BestTotalIs
    <2> QED
      BY <1>1, <2>1, <2>2, BestIsUnique
  <1> QED
    BY <1>1, <1>2, <1>4, <1>8, <1>9

(***************************************************************************)
(* The book of one user: rows and statistics made of a set of finalised    *)
(* scores, and what one score more does to it.                             *)
(***************************************************************************)
Counted(rs, st) == [m \in Maps |-> IF CountsRanked(st[m]) THEN BestTotal(rs, m) ELSE 0]
Totals(sc, D)   == [i \in D |-> sc[i].play.total]
ValidIn(sc, D)  == {i \in D : sc[i].play.valid}

Shows(r, sc, D) ==
    /\ r.score \in D /\ r.map = sc[r.score].map
    /\ r.total = sc[r.score].play.total /\ sc[r.score].lb

Book(rs, sts, sc, st, D) ==
    /\ IsFiniteSet(rs) /\ D \subseteq Ids /\ \A i \in D : sc[i] \in Score
    /\ \A r \in rs : Shows(r, sc, D)
    /\ sts.ranked = SumOver(Counted(rs, st), Maps)
    /\ sts.total = SumOver(Totals(sc, D), D)
    /\ sts.plays = Cardinality(ValidIn(sc, D))

LEMMA IdsAreFinite == IsFiniteSet(Ids) /\ Ids \subseteq Nat
  BY FS_Interval DEF Ids

LEMMA CountedType ==
    ASSUME NEW rs, Rows(rs), NEW st
    PROVE  Counted(rs, st) \in [Maps -> Nat]
  BY BestTotalIs DEF Counted, IsBest

LEMMA BookIsRows ==
    ASSUME NEW rs, NEW sts, NEW sc, NEW st, NEW D, Book(rs, sts, sc, st, D)
    PROVE  /\ Rows(rs) /\ IsFiniteSet(D) /\ Totals(sc, D) \in [D -> Nat]
           /\ sts.ranked \in Nat /\ sts.total \in Nat /\ sts.plays \in Nat
  <1>1. \A i \in D : sc[i].play.total \in Nat /\ i \in Nat
    BY IdsAreFinite, ScoreFields, PlayFields DEF Book
  <1>2. Rows(rs)
    BY <1>1 DEF Rows, Book, Shows
  <1>3. IsFiniteSet(D)
    BY IdsAreFinite, FS_Subset DEF Book
  <1>4. Totals(sc, D) \in [D -> Nat]
    BY <1>1 DEF Totals
  <1>5. sts.total \in Nat
    BY <1>3, <1>4, SumOverNat DEF Book
  <1>6. sts.ranked \in Nat
    BY <1>2, CountedType, SumOverNat DEF Book
  <1>7. sts.plays \in Nat
    <2>1. IsFiniteSet(ValidIn(sc, D))
      BY <1>3, FS_Subset DEF ValidIn
    <2> QED
      BY <2>1, FS_CardinalityType DEF Book
  <1> QED
    BY <1>2, <1>3, <1>4, <1>5, <1>6, <1>7

\* What the score adds to ranked_score is what it adds to the best totals.
LEMMA RankedGain ==
    ASSUME NEW rs, Rows(rs), NEW s \in Nat, NEW c \in Score, NEW st, NEW rev, Fits(c, st, rev)
    PROVE  LET qs == RowsAfter(rs, s, c, st[c.map]) IN
           /\ Rows(qs) /\ qs \subseteq rs \cup {RowFor(s, c)}
           /\ ~(c.play.passed /\ OnLeaderboard(c, st[c.map])) => qs = rs
           /\ \A m \in Maps \ {c.map} : Counted(qs, st)[m] = Counted(rs, st)[m]
           /\ Counted(qs, st)[c.map] = Counted(rs, st)[c.map] + RankedDelta(rs, s, c, st[c.map])
  <1>1. PICK qs, new : qs = RowsAfter(rs, s, c, st[c.map]) /\ new = RowFor(s, c)
    OBVIOUS
  <1>2. PICK b : b = BestTotal(rs, c.map)
    OBVIOUS
  <1>3. b \in Nat /\ c.play.total \in Nat /\ c.map \in Maps
    BY <1>2, BestTotalIs, ScoreFields, PlayFields DEF IsBest
  <1>4. c.rse <=> c.lb /\ CountsRanked(st[c.map])
    BY DEF Fits
  <1>5. CASE ~(c.play.passed /\ OnLeaderboard(c, st[c.map]))
    <2>1. qs = rs
      BY <1>1, <1>5 DEF RowsAfter
    <2>2. RankedDelta(rs, s, c, st[c.map]) = 0
      BY <1>5 DEF RankedDelta, CountsNow
    <2>3. Counted(rs, st)[c.map] \in Nat
      BY <1>3, CountedType
    <2> QED
      BY <1>1, <2>1, <2>2, <2>3
  <1>6. CASE c.play.passed /\ OnLeaderboard(c, st[c.map])
    <2>1. Placed(rs, new, qs)
      BY <1>1, <1>6, RowsAfterPlaces
    <2>2. new.total = c.play.total /\ new.score = s /\ new.map = c.map
      BY <1>1 DEF RowFor
    <2>3. /\ Rows(qs)
          /\ BestTotal(qs, c.map) = IF c.play.total > b THEN c.play.total ELSE b
          /\ \A m : m # c.map => BestTotal(qs, m) = BestTotal(rs, m)
      BY <1>2, <1>3, <2>1, <2>2, PlacedBest
    <2>4. \A m \in Maps \ {c.map} : Counted(qs, st)[m] = Counted(rs, st)[m]
      BY <2>3 DEF Counted
    <2>5. RankedDelta(rs, s, c, st[c.map])
             = IF c.play.total - b > 0 /\ CountsRanked(st[c.map]) THEN c.play.total - b ELSE 0
      BY <1>2, <1>4, <1>6 DEF RankedDelta, CountsNow, OnLeaderboard
    <2>6. /\ Counted(qs, st)[c.map] = IF CountsRanked(st[c.map]) THEN BestTotal(qs, c.map) ELSE 0
          /\ Counted(rs, st)[c.map] = IF CountsRanked(st[c.map]) THEN b ELSE 0
      BY <1>2, <1>3 DEF Counted
    <2>7. Counted(qs, st)[c.map] = Counted(rs, st)[c.map] + RankedDelta(rs, s, c, st[c.map])
      BY <1>3, <2>3, <2>5, <2>6
    <2> QED
      BY <1>1, <1>6, <2>1, <2>3, <2>4, <2>7 DEF Placed
  <1> QED
    BY <1>5, <1>6

\* The book of one score more, which is finalised and agrees with the policy.
LEMMA OneMore ==
    ASSUME NEW rs, NEW sts, NEW sc, NEW st, NEW rev, NEW D, Book(rs, sts, sc, st, D),
           NEW n \in Ids \ D, NEW c \in Score, Fits(c, st, rev), NEW pp,
           NEW new, \A i \in D : new[i] = sc[i], new[n] \in Score,
           new[n].map = c.map, new[n].play = c.play, new[n].lb = c.lb
    PROVE  Book(RowsAfter(rs, n, c, st[c.map]), StatsAfter(sts, rs, n, c, st[c.map], pp),
                new, st, D \cup {n})
  <1>1. PICK qs, nst, E, delta : /\ qs = RowsAfter(rs, n, c, st[c.map])
                                 /\ nst = StatsAfter(sts, rs, n, c, st[c.map], pp)
                                 /\ E = D \cup {n} /\ delta = RankedDelta(rs, n, c, st[c.map])
    OBVIOUS
  <1>2. /\ Rows(rs) /\ IsFiniteSet(D) /\ Totals(sc, D) \in [D -> Nat]
        /\ sts.ranked \in Nat /\ sts.total \in Nat /\ sts.plays \in Nat
    BY BookIsRows
  <1>3. n \in Nat /\ c.map \in Maps /\ c.play.total \in Nat /\ c.play.valid \in BOOLEAN
    BY IdsAreFinite, ScoreFields, PlayFields
  <1>4. /\ Rows(qs) /\ qs \subseteq rs \cup {RowFor(n, c)}
        /\ ~(c.play.passed /\ OnLeaderboard(c, st[c.map])) => qs = rs
        /\ \A m \in Maps \ {c.map} : Counted(qs, st)[m] = Counted(rs, st)[m]
        /\ Counted(qs, st)[c.map] = Counted(rs, st)[c.map] + delta
    BY SMTT(40), <1>1, <1>2, <1>3, RankedGain
  <1>5. /\ nst.ranked = sts.ranked + delta /\ nst.total = sts.total + c.play.total
        /\ nst.plays = sts.plays + (IF c.play.valid THEN 1 ELSE 0)
    BY <1>1 DEF StatsAfter
  <1>6. \A i \in E : new[i] \in Score
    BY <1>1 DEF Book
  <1>7. ASSUME NEW r \in qs
        PROVE  Shows(r, new, E)
    <2>1. CASE r \in rs
      BY <1>1, <2>1 DEF Book, Shows
    <2>2. CASE r \notin rs
      <3>1. r = RowFor(n, c) /\ OnLeaderboard(c, st[c.map])
        BY <1>4, <1>7, <2>2
      <3> QED
        BY <1>1, <3>1 DEF Shows, RowFor, OnLeaderboard
    <2> QED
      BY <2>1, <2>2
  <1>8. nst.ranked = SumOver(Counted(qs, st), Maps)
    <2>1. PICK g, f : g = Counted(rs, st) /\ f = Counted(qs, st)
      OBVIOUS
    <2>2. g \in [Maps -> Nat] /\ f \in [Maps -> Nat]
      BY <1>2, <1>4, <2>1, CountedType
    <2>3. \A m \in Maps \ {c.map} : g[m] = f[m]
      BY <1>4, <2>1
    <2>4. SumOver(f, Maps) = (SumOver(g, Maps) - g[c.map]) + f[c.map]
      BY <1>3, <2>2, <2>3, SumOverUpdate
    <2>5. f[c.map] = g[c.map] + delta /\ g[c.map] \in Nat /\ f[c.map] \in Nat
      BY <1>3, <1>4, <2>1, <2>2
    <2>6. delta \in Int
      BY <1>1, <1>2, <1>3, BestTotalIs DEF RankedDelta, IsBest
    <2>7. SumOver(g, Maps) = sts.ranked
      BY <2>1 DEF Book
    <2> QED
      BY <1>2, <1>5, <2>1, <2>4, <2>5, <2>6, <2>7
  <1>9. nst.total = SumOver(Totals(new, E), E)
    <2>1. PICK g, f : g = Totals(sc, D) /\ f = Totals(new, E)
      OBVIOUS
    <2>2. f \in [D \cup {n} -> Nat]
      BY <1>1, <1>6, <2>1, ScoreFields, PlayFields DEF Totals
    <2>3. \A i \in D : g[i] = f[i]
      BY <1>1, <2>1 DEF Totals
    <2>4. SumOver(f, D \cup {n}) = SumOver(g, D) + f[n]
      BY <1>2, <2>1, <2>2, <2>3, SumOverAdd
    <2>5. f[n] = c.play.total
      BY <1>1, <2>1 DEF Totals
    <2> QED
      BY <1>1, <1>5, <2>1, <2>4, <2>5 DEF Book
  <1>10. nst.plays = Cardinality(ValidIn(new, E))
    <2>1. PICK V : V = ValidIn(sc, D)
      OBVIOUS
    <2>2. IsFiniteSet(V) /\ n \notin V /\ Cardinality(V) = sts.plays
      BY <1>2, <2>1, FS_Subset DEF ValidIn, Book
    <2>3. ValidIn(new, E) = IF c.play.valid THEN V \cup {n} ELSE V
      BY <1>1, <2>1 DEF ValidIn
    <2>4. Cardinality(V \cup {n}) = Cardinality(V) + 1
      BY <2>2, FS_AddElement
    <2> QED
      BY <1>2, <1>5, <2>2, <2>3, <2>4
  <1>11. IsFiniteSet(qs) /\ E \subseteq Ids
    BY <1>1, <1>4 DEF Rows, Book
  <1> QED
    BY <1>1, <1>6, <1>7, <1>8, <1>9, <1>10, <1>11 DEF Book

Standing(s) == s = [ranked |-> s.ranked, total |-> s.total, plays |-> s.plays, pp |-> s.pp]

NoPp      == [m \in Maps |-> 0]
ZeroStats == [ranked |-> 0, total |-> 0, plays |-> 0, pp |-> NoPp]

LEMMA NobodysBook ==
    ASSUME NEW sts, sts.ranked = 0, sts.total = 0, sts.plays = 0, NEW sc, NEW st
    PROVE  Book({}, sts, sc, st, {})
  <1>1. IsFiniteSet({}) /\ Rows({})
    BY FS_EmptySet DEF Rows
  <1>2. PICK g : g = Counted({}, st)
    OBVIOUS
  <1>3. \A m \in Maps : g[m] = 0
    BY <1>2 DEF Counted, BestTotal, RowsOf
  <1>4. SumOver(g, Maps) = 0
    <2>1. g \in [Maps -> Nat]
      BY <1>1, <1>2, CountedType
    <2>2. PICK h \in [SUBSET Maps -> Nat] : Sums(h, g, Maps) /\ SumOver(g, Maps) = h[Maps]
      BY <2>1, SumOverValue
    <2>3. PICK z : z = [s \in SUBSET Maps |-> 0]
      OBVIOUS
    <2>4. Sums(z, g, Maps)
      <3>1. \A s \in SUBSET Maps : s # {} => Some(s) \in s
        BY DEF Some
      <3> QED
        BY <1>3, <2>3, <3>1 DEF Sums
    <2>5. z[Maps] = SumOver(g, Maps)
      BY <2>1, <2>4, SumOverUnique
    <2> QED
      BY <2>3, <2>5
  <1>5. SumOver(Totals(sc, {}), {}) = 0
    BY SumOverNone
  <1>6. Cardinality(ValidIn(sc, {})) = 0
    <2>1. ValidIn(sc, {}) = {}
      BY DEF ValidIn
    <2> QED
      BY <2>1, FS_EmptySet
  <1> QED
    BY <1>1, <1>2, <1>4, <1>5, <1>6 DEF Book

\* A book does not look at the PP of its scores.
LEMMA SameBook ==
    ASSUME NEW rs, NEW sts, NEW sc, NEW st, NEW D, Book(rs, sts, sc, st, D),
           NEW new, \A i \in D : /\ new[i] \in Score /\ new[i].map = sc[i].map
                                 /\ new[i].play = sc[i].play /\ new[i].lb = sc[i].lb,
           NEW nst, nst.ranked = sts.ranked, nst.total = sts.total, nst.plays = sts.plays
    PROVE  Book(rs, nst, new, st, D)
  <1>1. Totals(new, D) = Totals(sc, D)
    BY DEF Totals
  <1>2. ValidIn(new, D) = ValidIn(sc, D)
    BY DEF ValidIn
  <1>3. \A r \in rs : Shows(r, new, D)
    BY DEF Book, Shows
  <1> QED
    BY <1>1, <1>2, <1>3 DEF Book

(***************************************************************************)
(* The rebuild of a deletion replays the finalised scores it keeps.        *)
(***************************************************************************)
ReplayBody(h, n, sc, st, keep, best) ==
    IF n = 0 THEN [rows |-> {}, stats |-> ZeroStats]
    ELSE IF n \notin keep THEN h[n - 1]
    ELSE [rows  |-> RowsAfter(h[n - 1].rows, n, sc[n], st[sc[n].map]),
          stats |-> StatsAfter(h[n - 1].stats, h[n - 1].rows, n, sc[n], st[sc[n].map],
                               UserPp(best, sc))]

Replays(h, sc, st, keep, best) ==
    h = [n \in 0 .. MaxScores |-> ReplayBody(h, n, sc, st, keep, best)]

LEMMA ReplayExists ==
    ASSUME NEW sc, NEW st, NEW keep, NEW best
    PROVE  \E h : Replays(h, sc, st, keep, best)
  <1> DEFINE Body(h, n) == ReplayBody(h, n, sc, st, keep, best)
             Upto(h, k) == \A n \in 0 .. MaxScores : n <= k => h[n] = Body(h, n)
             P == {k \in Nat : \E h : Upto(h, k)}
  <1>1. PICK Q : Q = P
    OBVIOUS
  <1>2. 0 \in P
    <2>1. PICK h : h = [n \in 0 .. MaxScores |-> [rows |-> {}, stats |-> ZeroStats]]
      OBVIOUS
    <2>2. Upto(h, 0)
      BY <2>1 DEF ReplayBody
    <2> QED
      BY <2>2
  <1>3. ASSUME NEW k \in Nat, k \in P
        PROVE  k + 1 \in P
    <2>1. PICK h : Upto(h, k)
      BY <1>3
    <2>2. PICK f : f = [n \in 0 .. MaxScores |-> IF n <= k THEN h[n] ELSE Body(h, n)]
      OBVIOUS
    <2>3. ASSUME NEW n \in 0 .. MaxScores, n <= k + 1
          PROVE  f[n] = Body(f, n)
      <3>1. f[n] = Body(h, n)
        BY <2>1, <2>2
      <3>2. CASE n = 0
        BY <3>1, <3>2 DEF ReplayBody
      <3>3. CASE n # 0
        <4>1. n - 1 \in 0 .. MaxScores /\ n - 1 <= k
          BY <2>3, <3>3
        <4>2. f[n - 1] = h[n - 1]
          BY <2>2, <4>1
        <4> QED
          BY <3>1, <3>3, <4>2 DEF ReplayBody
      <3> QED
        BY <3>2, <3>3
    <2>4. Upto(f, k + 1)
      BY <2>3
    <2> HIDE DEF Upto
    <2> QED
      BY <2>4
  <1>4. Nat \subseteq Q
    <2> HIDE DEF P
    <2>1. 0 \in Q
      BY <1>1, <1>2
    <2>2. \A n \in Nat : n \in Q => n + 1 \in Q
      BY <1>1, <1>3
    <2> QED
      BY <2>1, <2>2, NatInduces
  <1>5. PICK h : Upto(h, MaxScores)
    BY <1>1, <1>4
  <1>6. PICK f : f = [n \in 0 .. MaxScores |-> h[n]]
    OBVIOUS
  <1>7. ASSUME NEW n \in 0 .. MaxScores
        PROVE  f[n] = Body(f, n)
    <2>1. f[n] = Body(h, n)
      BY <1>5, <1>6
    <2>2. CASE n = 0
      BY <2>1, <2>2 DEF ReplayBody
    <2>3. CASE n # 0
      <3>1. n - 1 \in 0 .. MaxScores
        BY <2>3
      <3>2. f[n - 1] = h[n - 1]
        BY <1>6, <3>1
      <3> QED
        BY <2>1, <2>3, <3>2 DEF ReplayBody
    <2> QED
      BY <2>2, <2>3
  <1>8. f = [n \in 0 .. MaxScores |-> Body(f, n)]
    BY <1>6, <1>7
  <1> QED
    BY <1>8 DEF Replays

LEMMA RebuiltReplays ==
    ASSUME NEW sc, NEW st, NEW keep
    PROVE  /\ Rebuilt(sc, st, keep).best = RebuiltPp(sc, st, keep)
           /\ \E h : /\ Replays(h, sc, st, keep, RebuiltPp(sc, st, keep))
                     /\ Rebuilt(sc, st, keep).book = h[MaxScores]
  <1>1. PICK best : best = RebuiltPp(sc, st, keep)
    OBVIOUS
  <1>2. PICK h : h = CHOOSE k : Replays(k, sc, st, keep, best)
    OBVIOUS
  <1>3. Replays(h, sc, st, keep, best)
    BY <1>2, ReplayExists
  <1>4. Rebuilt(sc, st, keep) = [book |-> h[MaxScores], best |-> best]
    BY <1>1, <1>2 DEF Rebuilt, Replays, ReplayBody, ZeroStats, NoPp
  <1> QED
    BY <1>1, <1>3, <1>4

\* Replaying scores that agree with the policy gives their book, and the PP of
\* the chosen rows once one of them may earn any.
Earners(sc, st, D) == {i \in D : MayEarn(sc[i], st[sc[i].map])}

ReplayedTo(b, sc, st, D, best) ==
    /\ Book(b.rows, b.stats, sc, st, D)
    /\ b.stats.pp = IF Earners(sc, st, D) = {} THEN NoPp ELSE UserPp(best, sc)
    /\ Standing(b.stats)

LEMMA ReplayGivesBook ==
    ASSUME NEW sc, NEW st, NEW rev, NEW keep, NEW best, NEW h, Replays(h, sc, st, keep, best),
           keep \subseteq Ids, \A i \in keep : sc[i] \in Score /\ Fits(sc[i], st, rev)
    PROVE  ReplayedTo(h[MaxScores], sc, st, keep, best)
  <1>1. PICK P : P = {k \in Nat : k <= MaxScores =>
                         ReplayedTo(h[k], sc, st, keep \cap (1 .. k), best)}
    OBVIOUS
  <1>2. \A n \in 0 .. MaxScores : h[n] = ReplayBody(h, n, sc, st, keep, best)
    BY DEF Replays
  <1>3. 0 \in P
    <2>1. h[0] = [rows |-> {}, stats |-> ZeroStats] /\ keep \cap (1 .. 0) = {}
      <3>1. 0 \in 0 .. MaxScores /\ keep \cap (1 .. 0) = {}
        OBVIOUS
      <3>2. ReplayBody(h, 0, sc, st, keep, best) = [rows |-> {}, stats |-> ZeroStats]
        BY DEF ReplayBody
      <3> QED
        BY <1>2, <3>1, <3>2
    <2>2. Book({}, ZeroStats, sc, st, {})
      BY NobodysBook DEF ZeroStats
    <2>3. ReplayedTo(h[0], sc, st, {}, best)
      BY <2>1, <2>2 DEF ReplayedTo, Earners, ZeroStats, Standing
    <2> QED
      BY <1>1, <2>1, <2>3
  <1>4. ASSUME NEW k \in Nat, k \in P
        PROVE  k + 1 \in P
    <2> SUFFICES ASSUME k + 1 <= MaxScores
                 PROVE  ReplayedTo(h[k + 1], sc, st, keep \cap (1 .. (k + 1)), best)
      BY <1>1
    <2>1. PICK n, D, b : n = k + 1 /\ D = keep \cap (1 .. k) /\ b = h[k]
      OBVIOUS
    <2>2. ReplayedTo(b, sc, st, D, best)
      BY <1>1, <1>4, <2>1
    <2>3. /\ n \in Ids /\ n \notin D /\ n # 0 /\ n \in 0 .. MaxScores /\ h[n - 1] = b
      BY <2>1 DEF Ids
    <2>4. CASE n \notin keep
      <3>1. keep \cap (1 .. n) = D
        BY <2>1, <2>4 DEF Ids
      <3>2. ReplayBody(h, n, sc, st, keep, best) = b
        BY <2>3, <2>4 DEF ReplayBody
      <3>3. h[n] = b
        BY <1>2, <2>3, <3>2
      <3> QED
        BY <2>1, <2>2, <3>1, <3>3
    <2>5. CASE n \in keep
      <3>1. keep \cap (1 .. n) = D \cup {n}
        BY <2>1, <2>5 DEF Ids
      <3>2. PICK c : c = sc[n]
        OBVIOUS
      <3>3. c \in Score /\ Fits(c, st, rev)
        BY <2>5, <3>2
      <3>4. h[n] = [rows  |-> RowsAfter(b.rows, n, c, st[c.map]),
                    stats |-> StatsAfter(b.stats, b.rows, n, c, st[c.map], UserPp(best, sc))]
        BY <1>2, <2>3, <2>5, <3>2 DEF ReplayBody
      <3>5. Book(b.rows, b.stats, sc, st, D)
        BY <2>2 DEF ReplayedTo
      <3>6. /\ n \in Ids \ D /\ \A i \in D : sc[i] = sc[i] /\ sc[n] \in Score
            /\ sc[n].map = c.map /\ sc[n].play = c.play /\ sc[n].lb = c.lb
        BY <2>3, <3>2, <3>3
      <3>7. sc[n] \in Score
        BY <3>2, <3>3
      <3>8. Book(RowsAfter(b.rows, n, c, st[c.map]),
                 StatsAfter(b.stats, b.rows, n, c, st[c.map], UserPp(best, sc)),
                 sc, st, D \cup {n})
        BY <3>3, <3>5, <3>6, <3>7, OneMore
      <3>9. h[n].stats.pp = IF MayEarn(c, st[c.map]) THEN UserPp(best, sc) ELSE b.stats.pp
        BY <3>4 DEF StatsAfter, MayEarn
      <3>10. Earners(sc, st, D \cup {n})
               = IF MayEarn(c, st[c.map]) THEN Earners(sc, st, D) \cup {n} ELSE Earners(sc, st, D)
        BY <3>2 DEF Earners
      <3>11. h[n].stats.pp = IF Earners(sc, st, D \cup {n}) = {} THEN NoPp ELSE UserPp(best, sc)
        BY <2>2, <3>9, <3>10 DEF ReplayedTo
      <3>12. ReplayedTo(h[n], sc, st, D \cup {n}, best)
        <4>1. Standing(h[n].stats)
          BY <3>4 DEF StatsAfter, Standing
        <4>2. /\ h[n].rows = RowsAfter(b.rows, n, c, st[c.map])
              /\ h[n].stats = StatsAfter(b.stats, b.rows, n, c, st[c.map], UserPp(best, sc))
          BY <3>4
        <4>3. Book(h[n].rows, h[n].stats, sc, st, D \cup {n})
          BY <3>8, <4>2
        <4> QED
          BY <3>11, <4>1, <4>3 DEF ReplayedTo
      <3> QED
        BY <2>1, <3>1, <3>12
    <2> QED
      BY <2>4, <2>5
  <1>5. Nat \subseteq P
    BY <1>3, <1>4, NatInduces
  <1>6. keep \cap (1 .. MaxScores) = keep
    BY DEF Ids
  <1>7. MaxScores \in P /\ MaxScores <= MaxScores
    BY <1>5
  <1> QED
    BY <1>1, <1>6, <1>7

(***************************************************************************)
(* PP rows.                                                                *)
(***************************************************************************)
PpRows(best, sc) ==
    /\ best \in [Maps -> {0} \cup Ids]
    /\ \A m \in Maps : best[m] # 0 => /\ best[m] \in Ids /\ sc[best[m]] # NoScore
                                      /\ sc[best[m]].map = m /\ sc[best[m]].pp > 0
    /\ \A i \in Ids : (sc[i] # NoScore /\ sc[i].pp > 0) =>
          best[sc[i].map] # 0 /\ sc[best[sc[i].map]].pp >= sc[i].pp

\* One score gets its PP: it is new, had none, or keeps what it had.
LEMMA PpOneMore ==
    ASSUME NEW best, NEW sc, PpRows(best, sc), sc \in [Ids -> Score \cup {NoScore}],
           NEW i \in Ids, NEW d \in Score, d.pp > 0,
           sc[i] = NoScore \/ (sc[i].map = d.map /\ (sc[i].pp = 0 \/ sc[i].pp = d.pp)),
           NEW new, new = [sc EXCEPT ![i] = d]
    PROVE  PpRows(PpRowsAfter(best, new, i), new)
  <1>1. new[i] = d /\ \A j \in Ids \ {i} : new[j] = sc[j]
    OBVIOUS
  <1>2. PICK m : m = d.map
    OBVIOUS
  <1>3. m \in Maps /\ d.pp \in Nat /\ d # NoScore
    BY <1>2, ScoreFields
  <1>4. \A j \in Ids : sc[j] # NoScore => sc[j].map \in Maps /\ sc[j].pp \in Nat
    BY ScoreFields
  <1>5. PICK nb : nb = PpRowsAfter(best, new, i)
    OBVIOUS
  <1>6. nb = IF best[m] = 0 \/ d.pp > new[best[m]].pp THEN [best EXCEPT ![m] = i] ELSE best
    BY <1>1, <1>2, <1>5 DEF PpRowsAfter
  <1>7. best \in [Maps -> {0} \cup Ids] /\ 0 \notin Ids
    BY DEF PpRows, Ids
  <1>8. nb \in [Maps -> {0} \cup Ids]
    BY <1>6, <1>7
  <1>9. ASSUME NEW n \in Maps, nb[n] # 0
        PROVE  nb[n] \in Ids /\ new[nb[n]] # NoScore /\ new[nb[n]].map = n /\ new[nb[n]].pp > 0
    <2>1. CASE nb[n] = i
      <3>1. n = m
        <4>1. CASE nb = best
          <5>1. best[n] = i /\ sc[i] # NoScore /\ sc[i].map = n
            BY <1>9, <2>1, <4>1 DEF PpRows
          <5> QED
            BY <1>2, <5>1
        <4>2. CASE nb # best /\ n # m
          <5>1. best[n] = i
            BY <1>6, <1>7, <2>1, <4>2
          <5>2. sc[i] # NoScore /\ sc[i].map = n
            BY <1>9, <2>1, <5>1 DEF PpRows
          <5> QED
            BY <1>2, <5>2
        <4> QED
          BY <4>1, <4>2
      <3> QED
        BY <1>1, <1>2, <1>3, <2>1, <3>1
    <2>2. CASE nb[n] # i
      <3>1. nb[n] = best[n]
        BY <1>6, <1>7, <2>2
      <3> QED
        BY <1>1, <1>9, <2>2, <3>1 DEF PpRows
    <2> QED
      BY <2>1, <2>2
  <1>10. nb[m] # 0 /\ new[nb[m]].pp \in Nat /\ new[nb[m]].pp >= d.pp
         /\ (best[m] # 0 => new[nb[m]].pp >= sc[best[m]].pp)
    <2>1. CASE best[m] = 0
      BY <1>1, <1>3, <1>6, <1>7, <2>1
    <2>2. CASE best[m] # 0
      <3>1. PICK j : j = best[m]
        OBVIOUS
      <3>2. j \in Ids /\ sc[j] # NoScore /\ sc[j].pp \in Nat /\ sc[j].pp > 0
        BY <1>3, <1>4, <2>2, <3>1 DEF PpRows
      <3>3. new[j].pp >= sc[j].pp /\ new[j].pp \in Nat
        BY <1>1, <1>3, <3>2
      <3>4. CASE d.pp > new[j].pp
        <4>1. nb[m] = i
          BY <1>3, <1>6, <1>7, <3>1, <3>4
        <4>2. j # i
          BY <1>1, <1>3, <3>4
        <4> QED
          BY <1>1, <1>3, <1>7, <3>1, <3>2, <3>3, <3>4, <4>1
      <3>5. CASE ~(d.pp > new[j].pp)
        <4>1. nb[m] = j
          BY <1>6, <2>2, <3>1, <3>5
        <4> QED
          BY <1>3, <2>2, <3>1, <3>2, <3>3, <3>5, <4>1
      <3> QED
        BY <3>4, <3>5
    <2> QED
      BY <2>1, <2>2
  <1>11. ASSUME NEW j \in Ids, new[j] # NoScore, new[j].pp > 0
         PROVE  nb[new[j].map] # 0 /\ new[nb[new[j].map]].pp >= new[j].pp
    <2>1. CASE j = i
      BY <1>1, <1>2, <1>10, <2>1
    <2>2. CASE j # i /\ sc[j].map = m
      <3>1. new[j] = sc[j] /\ best[m] # 0 /\ sc[best[m]].pp >= sc[j].pp
        BY <1>1, <1>11, <2>2 DEF PpRows
      <3>2. sc[best[m]].pp \in Nat /\ sc[j].pp \in Nat
        BY <1>3, <1>4, <1>11, <3>1 DEF PpRows
      <3> QED
        BY <1>10, <2>2, <3>1, <3>2
    <2>3. CASE j # i /\ sc[j].map # m
      <3>1. PICK n : n = sc[j].map
        OBVIOUS
      <3>2. new[j] = sc[j] /\ n \in Maps /\ n # m /\ best[n] # 0 /\ sc[best[n]].pp >= sc[j].pp
        BY <1>1, <1>4, <1>11, <2>3, <3>1 DEF PpRows
      <3>3. nb[n] = best[n]
        BY <1>6, <1>7, <3>2
      <3>4. sc[best[n]] # NoScore /\ sc[best[n]].map = n /\ best[n] \in Ids
        BY <3>2 DEF PpRows
      <3>5. best[n] # i
        BY <1>2, <3>2, <3>4
      <3> QED
        BY <1>1, <3>1, <3>2, <3>3, <3>4, <3>5
    <2> QED
      BY <2>1, <2>2, <2>3
  <1>12. PpRows(nb, new)
    BY <1>8, <1>9, <1>11 DEF PpRows
  <1> QED
    BY <1>5, <1>12

LEMMA SamePp ==
    ASSUME NEW best \in [Maps -> {0} \cup Ids], NEW sc, NEW new,
           \A m \in Maps : best[m] # 0 => new[best[m]].pp = sc[best[m]].pp
    PROVE  UserPp(best, new) = UserPp(best, sc)
  BY DEF UserPp

\* What is left of the scores once a rebuild keeps only some of them.
KeptOnly(sc, new, keep) ==
    /\ \A i \in keep : new[i] = sc[i]
    /\ \A i \in Ids \ keep : new[i] = NoScore \/ new[i].pp = 0

ChosenPp(best, sc, new, st, keep) ==
    /\ PpRows(best, new) /\ UserPp(best, new) = UserPp(best, sc)
    /\ Earners(sc, st, keep) = {} => UserPp(best, new) = NoPp

AllFit(sc, st, rev, keep) == \A i \in keep : sc[i] \in Score /\ Fits(sc[i], st, rev)

\* The PP rows a rebuild chooses are the best of the scores it keeps.
LEMMA RebuiltPpRows ==
    ASSUME NEW sc, NEW st, NEW rev, NEW keep, keep \subseteq Ids, AllFit(sc, st, rev, keep),
           NEW new, KeptOnly(sc, new, keep), NEW best, best = RebuiltPp(sc, st, keep)
    PROVE  ChosenPp(best, sc, new, st, keep)
  <1>0. /\ \A i \in keep : sc[i] \in Score /\ Fits(sc[i], st, rev) /\ new[i] = sc[i]
        /\ \A i \in Ids \ keep : new[i] = NoScore \/ new[i].pp = 0
    BY DEF AllFit, KeptOnly
  <1> DEFINE Earn(m) == {i \in keep : /\ sc[i].map = m /\ MayEarn(sc[i], st[m])
                                      /\ sc[i].rse /\ sc[i].pp > 0}
  <1>1. \A i \in keep : /\ sc[i].pp \in Nat /\ i \in Nat /\ i # 0 /\ sc[i] # NoScore
                        /\ sc[i].map \in Maps
    BY <1>0, ScoreFields DEF Ids
  <1>2. \A i \in keep : sc[i].pp > 0 => i \in Earn(sc[i].map)
    <2> SUFFICES ASSUME NEW i \in keep, sc[i].pp > 0
                 PROVE  i \in Earn(sc[i].map)
      OBVIOUS
    <2>1. sc[i].pp # 0 /\ Fits(sc[i], st, rev)
      BY <1>0, <1>1
    <2> QED
      BY <2>1 DEF Fits, MayEarn
  <1>3. \A m \in Maps : best[m] = IF Earn(m) = {} THEN 0
           ELSE CHOOSE i \in Earn(m) : \A j \in Earn(m) :
                  sc[i].pp > sc[j].pp \/ (sc[i].pp = sc[j].pp /\ i <= j)
    BY DEF RebuiltPp
  <1>4. ASSUME NEW m \in Maps, Earn(m) # {}
        PROVE  best[m] \in Earn(m) /\ \A j \in Earn(m) : sc[best[m]].pp >= sc[j].pp
    <2>1. PICK S : S = Earn(m)
      OBVIOUS
    <2>2. S # {} /\ S \subseteq keep
      BY <1>4, <2>1
    <2>3. IsFiniteSet(S)
      BY <2>2, IdsAreFinite, FS_Subset
    <2>4. PICK f, g : f = [i \in S |-> sc[i].pp] /\ g = [i \in S |-> i]
      OBVIOUS
    <2>5. f \in [S -> Nat] /\ g \in [S -> Nat]
      BY <1>1, <2>2, <2>4
    <2>6. PICK x \in S : Foremost(f, g, x, S)
      BY <2>2, <2>3, <2>5, FiniteBest
    <2>7. \A j \in S : sc[x].pp > sc[j].pp \/ (sc[x].pp = sc[j].pp /\ x <= j)
      BY <2>4, <2>6 DEF Foremost
    <2>8. best[m] = CHOOSE i \in S : \A j \in S :
                      sc[i].pp > sc[j].pp \/ (sc[i].pp = sc[j].pp /\ i <= j)
      BY <1>3, <2>1, <2>2
    <2> HIDE DEF Earn
    <2>9. /\ best[m] \in S
          /\ \A j \in S : sc[best[m]].pp > sc[j].pp \/ (sc[best[m]].pp = sc[j].pp /\ best[m] <= j)
      BY <2>7, <2>8
    <2>10. \A j \in S : sc[best[m]].pp >= sc[j].pp
      BY <1>1, <2>2, <2>9
    <2> QED
      BY <2>1, <2>9, <2>10
  <1>5. \A m \in Maps : best[m] # 0 => Earn(m) # {}
    BY <1>3
  <1>6. \A m \in Maps : Earn(m) = {} => best[m] = 0
    BY <1>3
  <1>7. \A m \in Maps : best[m] # 0 =>
           best[m] \in keep /\ sc[best[m]].map = m /\ sc[best[m]].pp > 0
    BY <1>4, <1>5
  <1>8. best \in [Maps -> {0} \cup Ids]
    <2>1. \A m \in Maps : best[m] \in {0} \cup Ids
      BY <1>7
    <2> QED
      BY <2>1 DEF RebuiltPp
  <1>9. \A m \in Maps : best[m] # 0 =>
           best[m] \in Ids /\ new[best[m]] # NoScore /\ new[best[m]].map = m /\ new[best[m]].pp > 0
    BY <1>0, <1>1, <1>7
  <1>10. ASSUME NEW i \in Ids, new[i] # NoScore, new[i].pp > 0
         PROVE  best[new[i].map] # 0 /\ new[best[new[i].map]].pp >= new[i].pp
    <2>1. i \in keep /\ new[i] = sc[i]
      BY <1>0, <1>10
    <2>2. PICK m : m = sc[i].map
      OBVIOUS
    <2>3. m \in Maps /\ i \in Earn(m)
      BY <1>1, <1>2, <1>10, <2>1, <2>2
    <2>4. best[m] \in Earn(m) /\ sc[best[m]].pp >= sc[i].pp
      BY <1>4, <2>3
    <2>5. best[m] \in keep /\ best[m] # 0
      BY <1>1, <2>4
    <2> QED
      BY <1>0, <2>1, <2>2, <2>4, <2>5
  <1>11. PpRows(best, new)
    BY <1>8, <1>9, <1>10 DEF PpRows
  <1>12. UserPp(best, new) = UserPp(best, sc)
    <2>1. \A m \in Maps : best[m] # 0 => new[best[m]].pp = sc[best[m]].pp
      BY <1>0, <1>7
    <2> QED
      BY <1>8, <2>1, SamePp
  <1>13. ASSUME Earners(sc, st, keep) = {}
         PROVE  UserPp(best, new) = NoPp
    <2>1. \A m \in Maps : Earn(m) = {}
      <3> SUFFICES ASSUME NEW m \in Maps, NEW i \in Earn(m)
                   PROVE  FALSE
        OBVIOUS
      <3>1. i \in Earners(sc, st, keep)
        BY DEF Earners
      <3> QED
        BY <1>13, <3>1
    <2>2. \A m \in Maps : best[m] = 0
      BY <1>6, <2>1
    <2> QED
      BY <2>2 DEF UserPp, NoPp
  <1> QED
    BY <1>11, <1>12, <1>13 DEF ChosenPp

\* One score without PP is written.
SamePpRows(best, sc, new) == PpRows(best, new) /\ UserPp(best, new) = UserPp(best, sc)

LEMMA PpNoMore ==
    ASSUME NEW best, NEW sc, PpRows(best, sc), NEW i \in Ids, NEW d, d.pp = 0,
           sc \in [Ids -> Score \cup {NoScore}], sc[i] = NoScore \/ sc[i].pp = 0,
           NEW new, new = [sc EXCEPT ![i] = d]
    PROVE  SamePpRows(best, sc, new)
  <1>1. new[i] = d /\ \A j \in Ids \ {i} : new[j] = sc[j]
    OBVIOUS
  <1>2. best \in [Maps -> {0} \cup Ids]
    BY DEF PpRows
  <1>3. \A m \in Maps : best[m] # 0 => best[m] \in Ids /\ best[m] # i /\ new[best[m]] = sc[best[m]]
    BY <1>1 DEF PpRows
  <1>4. \A m \in Maps : best[m] # 0 => /\ best[m] \in Ids /\ new[best[m]] # NoScore
                                       /\ new[best[m]].map = m /\ new[best[m]].pp > 0
    BY <1>3 DEF PpRows
  <1>5. ASSUME NEW j \in Ids, new[j] # NoScore, new[j].pp > 0
        PROVE  best[new[j].map] # 0 /\ new[best[new[j].map]].pp >= new[j].pp
    <2>1. j # i
      BY <1>1, <1>5
    <2>2. PICK m : m = sc[j].map
      OBVIOUS
    <2>3. new[j] = sc[j] /\ m \in Maps /\ best[m] # 0 /\ sc[best[m]].pp >= sc[j].pp
      BY <1>1, <1>5, <2>1, <2>2, ScoreFields DEF PpRows
    <2> QED
      BY <1>3, <2>2, <2>3
  <1>6. PpRows(best, new)
    BY <1>2, <1>4, <1>5 DEF PpRows
  <1>7. UserPp(best, new) = UserPp(best, sc)
    <2>1. \A m \in Maps : best[m] # 0 => new[best[m]].pp = sc[best[m]].pp
      BY <1>3
    <2> QED
      BY <1>2, <2>1 DEF UserPp
  <1> QED
    BY <1>6, <1>7 DEF SamePpRows

(***************************************************************************)
(* The invariant of the tables when nothing commits inside a read view.    *)
(***************************************************************************)
Done == {i \in Live : scores[i].processed}

Balanced ==
    /\ Book(rows, stats, scores, status, Done) /\ Standing(stats)
    /\ PpRows(bestPp, scores) /\ stats.pp = UserPp(bestPp, scores)

\* A read view still shows the tables as they are.
ViewIsCurrent ==
    view.kind \in {"import", "delete"} =>
        /\ view.rows = rows /\ view.bestPp = bestPp
        /\ view.scores = scores /\ view.status = status

RevisionsBounded == changes \in 0 .. MaxChanges /\ \A m \in Maps : md5[m] <= changes

LedgerInv == ScoresInv /\ Balanced /\ ViewIsCurrent /\ RevisionsBounded

LEMMA BalancedStays ==
    ASSUME Balanced, UNCHANGED <<scores, status, tables>>
    PROVE  Balanced'
  <1>1. UNCHANGED <<rows, bestPp, stats>>
    BY DEF tables
  <1>2. Done' = Done
    BY DEF Done, Live
  <1> QED
    BY <1>1, <1>2 DEF Balanced

LEMMA ProcessedBalances ==
    ASSUME ScoresInv, Balanced, NEW i \in Live, ~scores[i].processed, NEW ok \in BOOLEAN,
           NEW d, Processed(i, ok, d), UNCHANGED <<policy, tokens>>
    PROVE  Balanced'
  <1>1. PICK c : c = scores[i]
    OBVIOUS
  <1>2. c \in Score /\ Fits(c, status, md5) /\ i \in Ids
    BY <1>1 DEF ScoresInv, PlainTypes, Eligible, Live
  <1>3. AfterPut(i, d) /\ Live' = Live /\ status' = status
    BY ProcessedKeeps DEF AfterPut
  <1>4. /\ d \in Score /\ d.processed /\ scores' = [scores EXCEPT ![i] = d] /\ scores'[i] = d
        /\ d.map = c.map /\ d.play = c.play /\ d.lb = c.lb
        /\ \A j \in Ids \ {i} : scores'[j] = scores[j]
    BY <1>1, <1>3 DEF Processed, AfterPut
  <1>5. i \notin Done /\ Done' = Done \cup {i} /\ Done \subseteq Ids
    BY <1>2, <1>3, <1>4 DEF Done, Live
  <1>6. Book(rows', stats', scores', status', Done')
    <2>1. PICK pp, new, D : pp = UserPp(bestPp', scores') /\ new = scores' /\ D = Done
      OBVIOUS
    <2>2. Book(rows, stats, scores, status, D)
      BY <2>1 DEF Balanced
    <2>3. i \in Ids \ D /\ \A j \in D : new[j] = scores[j]
      BY <1>2, <1>4, <1>5, <2>1
    <2>4. new[i] \in Score /\ new[i].map = c.map /\ new[i].play = c.play /\ new[i].lb = c.lb
      BY <1>4, <2>1
    <2>5. Book(RowsAfter(rows, i, c, status[c.map]), StatsAfter(stats, rows, i, c, status[c.map], pp),
               new, status, D \cup {i})
      BY <1>2, <2>2, <2>3, <2>4, OneMore
    <2> QED
      BY <1>1, <1>3, <1>5, <2>1, <2>5 DEF Processed
  <1>7. Standing(stats')
    BY DEF Processed, StatsAfter, Standing
  <1>8. stats'.pp = IF MayEarn(c, status[c.map]) THEN UserPp(bestPp', scores') ELSE stats.pp
    BY <1>1 DEF Processed, StatsAfter, MayEarn
  <1>9. scores \in [Ids -> Score \cup {NoScore}] /\ PpRows(bestPp, scores) /\ c.pp = 0
    BY <1>1, <1>2 DEF ScoresInv, PlainTypes, Balanced, Fits
  <1>10. CASE Paid(i, ok)
    <2>1. d.pp > 0
      <3>1. d.pp = d.play.pp /\ d.play.pp # 0 /\ d.play.pp \in Nat
        BY <1>4, <1>10, ScoreFields, PlayFields DEF Processed
      <3> QED
        BY <3>1
    <2>2. PpRows(PpRowsAfter(bestPp, scores', i), scores')
      <3>1. PICK new : new = scores'
        OBVIOUS
      <3>2. PpRows(PpRowsAfter(bestPp, new, i), new)
        BY <1>1, <1>2, <1>4, <1>9, <2>1, <3>1, PpOneMore
      <3> QED
        BY <3>1, <3>2
    <2>3. bestPp' = PpRowsAfter(bestPp, scores', i) /\ stats'.pp = UserPp(bestPp', scores')
      BY <1>1, <1>8, <1>10 DEF Processed, Paid
    <2> QED
      BY <1>6, <1>7, <2>2, <2>3 DEF Balanced
  <1>11. CASE ~Paid(i, ok)
    <2>1. d.pp = 0 /\ bestPp' = bestPp
      BY <1>11 DEF Processed
    <2>2. PpRows(bestPp, scores') /\ UserPp(bestPp, scores') = UserPp(bestPp, scores)
      <3>1. PICK new, best, sc : new = scores' /\ best = bestPp /\ sc = scores
        OBVIOUS
      <3>2. /\ PpRows(best, sc) /\ sc \in [Ids -> Score \cup {NoScore}]
            /\ sc[i].pp = 0 /\ new = [sc EXCEPT ![i] = d]
        BY <1>1, <1>4, <1>9, <3>1
      <3>3. SamePpRows(best, sc, new)
        BY <1>2, <2>1, <3>2, PpNoMore
      <3> QED
        BY <3>1, <3>3 DEF SamePpRows
    <2> QED
      BY <1>6, <1>7, <1>8, <2>1, <2>2 DEF Balanced
  <1> QED
    BY <1>10, <1>11

LEMMA RetriedBalances ==
    ASSUME ScoresInv, Balanced, NEW i \in Live, scores[i].processed, NEW d, Retried(i, d),
           UNCHANGED <<policy, tokens>>, rows' = rows
    PROVE  Balanced'
  <1>1. PICK c : c = scores[i]
    OBVIOUS
  <1>2. c \in Score /\ Fits(c, status, md5) /\ i \in Ids
    BY <1>1 DEF ScoresInv, PlainTypes, Eligible, Live
  <1>3. AfterPut(i, d) /\ Live' = Live /\ status' = status
    BY RetriedKeeps DEF AfterPut
  <1>4. /\ d \in Score /\ d.processed /\ scores' = [scores EXCEPT ![i] = d] /\ scores'[i] = d
        /\ d.map = c.map /\ d.play = c.play /\ d.lb = c.lb
        /\ \A j \in Ids \ {i} : scores'[j] = scores[j]
    BY <1>1, <1>3 DEF Retried, AfterPut
  <1>5. Done' = Done /\ Done \subseteq Ids
    BY <1>2, <1>3, <1>4 DEF Done, Live
  <1>6. /\ stats'.ranked = stats.ranked /\ stats'.total = stats.total /\ Standing(stats')
        /\ stats'.plays = stats.plays /\ stats'.pp = UserPp(bestPp', scores')
    BY DEF Retried, Balanced, Standing
  <1>7. Book(rows', stats', scores', status', Done')
    <2>1. PICK new, D, nst : new = scores' /\ D = Done /\ nst = stats'
      OBVIOUS
    <2>2. \A j \in D : /\ new[j] \in Score /\ new[j].map = scores[j].map
                       /\ new[j].play = scores[j].play /\ new[j].lb = scores[j].lb
      BY <1>1, <1>4, <1>5, <2>1 DEF Balanced, Book
    <2>3. Book(rows, stats, scores, status, D)
      BY <2>1 DEF Balanced
    <2>4. Book(rows, nst, new, status, D)
      BY <1>6, <2>1, <2>2, <2>3, SameBook
    <2> QED
      BY <1>3, <1>5, <2>1, <2>4
  <1>8. PICK new, best, sc : new = scores' /\ best = bestPp /\ sc = scores
    OBVIOUS
  <1>9. /\ PpRows(best, sc) /\ sc \in [Ids -> Score \cup {NoScore}]
        /\ new = [sc EXCEPT ![i] = d]
    BY <1>4, <1>8 DEF ScoresInv, PlainTypes, Balanced
  <1>10. d.play.pp # 0 /\ d.play.pp \in Nat
    BY <1>4, ScoreFields, PlayFields
  <1>11. CASE d.play.passed
    <2>1. d.pp > 0 /\ sc[i].map = d.map /\ (sc[i].pp = 0 \/ sc[i].pp = d.pp)
      BY <1>1, <1>2, <1>4, <1>8, <1>10, <1>11 DEF Retried, Fits
    <2>2. PpRows(PpRowsAfter(best, new, i), new)
      BY <1>2, <1>4, <1>9, <2>1, PpOneMore
    <2>3. bestPp' = PpRowsAfter(best, new, i)
      BY <1>8, <1>11 DEF Retried
    <2> QED
      BY <1>6, <1>7, <1>8, <2>2, <2>3 DEF Balanced
  <1>12. CASE ~d.play.passed
    <2>1. d.pp = 0 /\ bestPp' = bestPp /\ sc[i].pp = 0
      BY <1>1, <1>2, <1>4, <1>8, <1>12 DEF Retried, Fits
    <2>2. SamePpRows(best, sc, new)
      BY <1>2, <1>9, <2>1, PpNoMore
    <2> QED
      BY <1>6, <1>7, <1>8, <2>1, <2>2 DEF Balanced, SamePpRows
  <1> QED
    BY <1>11, <1>12

LEMMA SubmitBalances ==
    ASSUME ScoresInv, Balanced, NEW i \in Ids, NEW p \in Plays, Submit(i, p)
    PROVE  Balanced'
  <1>1. PICK d : d = Snapshot(i, tokens[i].map, p, tokens[i].md5)
    OBVIOUS
  <1>2. /\ scores' = [scores EXCEPT ![i] = d] /\ scores[i] = NoScore /\ i \notin Live
        /\ UNCHANGED <<status, rows, bestPp, stats>> /\ d.pp = 0 /\ d.processed = FALSE
    BY <1>1 DEF Submit, Open, Live, policy, tables, Snapshot
  <1>3. scores'[i] = d /\ \A j \in Ids \ {i} : scores'[j] = scores[j]
    BY <1>2 DEF ScoresInv, PlainTypes
  <1>4. Done' = Done /\ i \notin Done
    BY <1>2, <1>3 DEF Done, Live
  <1>5. PICK new, D : new = scores' /\ D = Done
    OBVIOUS
  <1>6. \A j \in D : new[j] = scores[j] /\ scores[j] \in Score
    BY <1>3, <1>4, <1>5 DEF Balanced, Book, Done, Live
  <1>7. Book(rows, stats, new, status, D)
    <2>1. Book(rows, stats, scores, status, D)
      BY <1>5 DEF Balanced
    <2>2. \A j \in D : /\ new[j] \in Score /\ new[j].map = scores[j].map
                       /\ new[j].play = scores[j].play /\ new[j].lb = scores[j].lb
      BY <1>6
    <2> QED
      BY <2>1, <2>2, SameBook
  <1>8. PICK best, sc : best = bestPp /\ sc = scores
    OBVIOUS
  <1>9. /\ PpRows(best, sc) /\ sc \in [Ids -> Score \cup {NoScore}]
        /\ new = [sc EXCEPT ![i] = d] /\ sc[i] = NoScore
    BY <1>2, <1>5, <1>8 DEF ScoresInv, PlainTypes, Balanced
  <1>10. SamePpRows(best, sc, new)
    BY <1>2, <1>9, PpNoMore
  <1> QED
    BY <1>2, <1>4, <1>5, <1>7, <1>8, <1>10 DEF Balanced, SamePpRows

\* An import that still sees the tables as they are is one score more.
LEMMA ImportedBalances ==
    ASSUME ScoresInv, Balanced, ViewIsCurrent, NEW ok \in BOOLEAN,
           NEW i, NEW c, NEW d, Imported(i, c, d, ok), view.kind = "import", UNCHANGED policy
    PROVE  Balanced'
  <1>1. PICK m : m = view.map
    OBVIOUS
  <1>2. /\ view.rows = rows /\ view.bestPp = bestPp /\ view.scores = scores
        /\ m \in Maps
    BY <1>1 DEF ViewIsCurrent, ScoresInv, PlainTypes
  <1>3. /\ AfterPut(i, d) /\ i \notin Spent /\ status' = status
        /\ Live' = Live \cup {i}
    BY ImportedKeeps DEF AfterPut
  <1>4. /\ i \in Ids /\ c \in Score /\ d \in Score /\ Fits(c, status, md5) /\ c.map = m
        /\ d.map = m /\ d.play = c.play /\ d.lb = c.lb /\ d.processed
        /\ scores' = [scores EXCEPT ![i] = d] /\ scores'[i] = d
        /\ \A j \in Ids \ {i} : scores'[j] = scores[j]
    BY <1>1, <1>3 DEF Imported, AfterPut, Fresh, Settled
  <1>5. i \notin Live /\ scores[i] = NoScore
    BY <1>3, <1>4 DEF Spent, Live
  <1>6. i \notin Done /\ Done' = Done \cup {i} /\ Done \subseteq Ids
    BY <1>3, <1>4, <1>5 DEF Done, Live
  <1>7. rows' = RowsAfter(rows, i, c, status[m])
    <2>1. PICK left : left = RowsAfter(rows, i, c, status[m])
      OBVIOUS
    <2>2. rows' = (rows \ (rows \ left)) \cup (left \ rows)
      BY <1>1, <1>2, <2>1 DEF Imported
    <2> QED
      BY <2>1, <2>2
  <1>8. stats' = StatsAfter(stats, rows, i, c, status[m], UserPp(bestPp', scores'))
    BY <1>1, <1>2 DEF Imported
  <1>9. Book(rows', stats', scores', status', Done')
    <2>1. PICK pp, new, D, rs, sts, st, sc : /\ pp = UserPp(bestPp', scores') /\ new = scores'
                                             /\ D = Done /\ rs = rows /\ sts = stats
                                             /\ st = status /\ sc = scores
      OBVIOUS
    <2>2. Book(rs, sts, sc, st, D)
      BY <2>1 DEF Balanced
    <2>3. i \in Ids \ D /\ \A j \in D : new[j] = sc[j]
      BY <1>4, <1>6, <2>1
    <2>4. new[i] \in Score /\ new[i].map = c.map /\ new[i].play = c.play /\ new[i].lb = c.lb
      BY <1>4, <2>1
    <2>5. Fits(c, st, md5) /\ c \in Score
      BY <1>4, <2>1
    <2>6. Book(RowsAfter(rs, i, c, st[c.map]), StatsAfter(sts, rs, i, c, st[c.map], pp),
               new, st, D \cup {i})
      BY SMTT(40), <2>2, <2>3, <2>4, <2>5, OneMore
    <2> QED
      BY <1>3, <1>4, <1>6, <1>7, <1>8, <2>1, <2>6
  <1>10. Standing(stats')
    BY <1>8 DEF StatsAfter, Standing
  <1>11. PICK new, best, sc : new = scores' /\ best = bestPp /\ sc = scores
    OBVIOUS
  <1>12. /\ PpRows(best, sc) /\ sc \in [Ids -> Score \cup {NoScore}]
         /\ new = [sc EXCEPT ![i] = d] /\ sc[i] = NoScore
    BY <1>4, <1>5, <1>11 DEF ScoresInv, PlainTypes, Balanced
  <1>13. PICK seen : seen = PpRowsAfter(best, new, i)
    OBVIOUS
  <1>14. bestPp' = IF (MayEarn(c, status[m]) /\ ok) /\ seen[m] = i
                   THEN [best EXCEPT ![m] = i] ELSE best
    BY <1>1, <1>2, <1>4, <1>11, <1>13 DEF Imported
  <1>15. stats'.pp = IF MayEarn(c, status[m]) THEN UserPp(bestPp', scores') ELSE stats.pp
    BY <1>8 DEF StatsAfter, MayEarn
  <1>16. CASE MayEarn(c, status[m]) /\ ok
    <2>1. d.pp > 0
      <3>1. d.pp = c.play.pp /\ c.play.pp # 0 /\ c.play.pp \in Nat
        BY <1>1, <1>4, <1>16, ScoreFields, PlayFields DEF Imported, Settled
      <3> QED
        BY <3>1
    <2>2. PpRows(seen, new)
      BY <1>4, <1>12, <1>13, <2>1, PpOneMore
    <2>3. bestPp' = seen
      <3>1. seen = IF best[m] = 0 \/ new[i].pp > new[best[m]].pp THEN [best EXCEPT ![m] = i] ELSE best
        BY <1>4, <1>11, <1>13 DEF PpRowsAfter
      <3>2. best \in [Maps -> {0} \cup Ids] /\ best[m] # i
        BY <1>2, <1>4, <1>12 DEF PpRows, Ids
      <3> QED
        BY <1>2, <1>14, <1>16, <3>1, <3>2
    <2> QED
      BY <1>9, <1>10, <1>11, <1>15, <1>16, <2>2, <2>3 DEF Balanced
  <1>17. CASE ~(MayEarn(c, status[m]) /\ ok)
    <2>1. d.pp = 0
      BY <1>1, <1>17 DEF Imported, Settled
    <2>2. bestPp' = best
      BY <1>14, <1>17
    <2>3. SamePpRows(best, sc, new)
      BY <1>4, <1>12, <2>1, PpNoMore
    <2> QED
      BY <1>9, <1>10, <1>11, <1>15, <2>2, <2>3 DEF Balanced, SamePpRows
  <1> QED
    BY <1>16, <1>17

\* A deletion that still sees the tables as they are rebuilds them without the
\* score.
LEMMA DeleteBalances ==
    ASSUME ScoresInv, Balanced, ViewIsCurrent, DeleteCommit
    PROVE  Balanced'
  <1>1. PICK i, keep, all : /\ i = view.id /\ keep = ReplayedIn(view.scores) \ {i}
                            /\ all = Rebuilt(view.scores, view.status, keep)
    OBVIOUS
  <1>2. /\ view.kind = "delete" /\ UNCHANGED <<policy, work>> /\ status' = status /\ i \in Ids
        /\ view.scores = scores /\ view.status = status
    BY <1>1 DEF DeleteCommit, ScoresInv, PlainTypes, policy, ViewIsCurrent
  <1>3. CASE i \notin Live
    BY <1>1, <1>2, <1>3, BalancedStays DEF DeleteCommit
  <1>4. CASE i \in Live
    <2>1. /\ scores' = [scores EXCEPT ![i] = NoScore] /\ rows' = all.book.rows
          /\ stats' = all.book.stats /\ bestPp' = all.best
      BY <1>1, <1>4 DEF DeleteCommit
    <2>2. PICK sc, st, rev, new : sc = scores /\ st = status /\ rev = md5 /\ new = scores'
      OBVIOUS
    <2>3. sc \in [Ids -> Score \cup {NoScore}]
      BY <2>2 DEF ScoresInv, PlainTypes
    <2>4. keep = Done \ {i} /\ keep \subseteq Ids
      BY <1>1, <1>2 DEF ReplayedIn, Done, Live
    <2>5. \A j \in keep : sc[j] \in Score /\ Fits(sc[j], st, rev)
      BY <2>2, <2>3, <2>4 DEF ScoresInv, Eligible, Done, Live
    <2>6. new = [sc EXCEPT ![i] = NoScore] /\ \A j \in keep : new[j] = sc[j]
      BY <2>1, <2>2, <2>3, <2>4
    <2>7. \A j \in Ids \ keep : new[j] = NoScore \/ new[j].pp = 0
      <3> SUFFICES ASSUME NEW j \in Ids \ keep, j # i, sc[j] # NoScore
                   PROVE  sc[j].pp = 0
        BY <1>2, <2>3, <2>6
      <3>1. j \in Live /\ ~sc[j].processed
        BY <2>2, <2>4 DEF Done, Live
      <3> QED
        BY <2>2, <3>1 DEF ScoresInv, Eligible, Fits
    <2>8. PICK best : best = RebuiltPp(sc, st, keep)
      OBVIOUS
    <2>9. PICK h : Replays(h, sc, st, keep, best) /\ all.book = h[MaxScores] /\ all.best = best
      <3>1. all = Rebuilt(sc, st, keep)
        BY <1>1, <1>2, <2>2
      <3> QED
        BY <2>8, <3>1, RebuiltReplays
    <2>10. ReplayedTo(all.book, sc, st, keep, best)
      BY <2>4, <2>5, <2>9, ReplayGivesBook
    <2>11. /\ PpRows(best, new) /\ UserPp(best, new) = UserPp(best, sc)
           /\ Earners(sc, st, keep) = {} => UserPp(best, new) = NoPp
      <3>1. AllFit(sc, st, rev, keep) /\ KeptOnly(sc, new, keep)
        BY <2>5, <2>6, <2>7 DEF AllFit, KeptOnly
      <3> QED
        BY <2>4, <2>8, <3>1, RebuiltPpRows DEF ChosenPp
    <2>12. PICK rs, nst : rs = rows' /\ nst = stats'
      OBVIOUS
    <2>13. /\ Book(rs, nst, sc, st, keep) /\ Standing(nst)
           /\ nst.pp = IF Earners(sc, st, keep) = {} THEN NoPp ELSE UserPp(best, sc)
      BY <2>1, <2>10, <2>12 DEF ReplayedTo
    <2>14. nst.pp = UserPp(best, new)
      BY <2>11, <2>13
    <2>15. \A j \in keep : /\ new[j] \in Score /\ new[j].map = sc[j].map
                           /\ new[j].play = sc[j].play /\ new[j].lb = sc[j].lb
      BY <2>5, <2>6
    <2>16. Book(rs, nst, new, st, keep)
      BY <2>13, <2>15, SameBook
    <2>17. Done' = keep
      BY <1>2, <2>2, <2>3, <2>4, <2>6 DEF Done, Live
    <2> QED
      BY <1>2, <2>1, <2>2, <2>9, <2>11, <2>12, <2>13, <2>14, <2>16, <2>17 DEF Balanced
  <1> QED
    BY <1>3, <1>4

LEMMA ClearBalances ==
    ASSUME ClearProfile
    PROVE  Balanced'
  <1>1. /\ scores' = [i \in Ids |-> NoScore] /\ rows' = {} /\ bestPp' = NoPp
        /\ stats' = ZeroStats
    BY DEF ClearProfile, NoPp, ZeroStats
  <1>2. Done' = {}
    BY <1>1 DEF Done, Live
  <1>3. PICK sts, new, st : sts = stats' /\ new = scores' /\ st = status'
    OBVIOUS
  <1>4. Book({}, sts, new, st, {})
    BY <1>1, <1>3, NobodysBook DEF ZeroStats
  <1>5. Standing(stats') /\ stats'.pp = NoPp
    BY <1>1 DEF ZeroStats, Standing
  <1>6. PpRows(NoPp, scores') /\ UserPp(NoPp, scores') = NoPp
    BY <1>1 DEF PpRows, NoPp, UserPp
  <1> QED
    BY <1>1, <1>2, <1>3, <1>4, <1>5, <1>6 DEF Balanced

\* What a change of status takes off ranked_score is what stops counting: the
\* rows of the map stay only if they counted before and still do.
Withdraws(t, old, new) ==
    /\ CountsRanked(new) /\ ~(t.lb \/ t.reset) => CountsRanked(old)
    /\ t.ranked <=> CountsRanked(old) /\ ~(CountsRanked(new) /\ ~(t.lb \/ t.reset))

LEMMA ReconciledRanked ==
    ASSUME NEW rs, Rows(rs), NEW m \in Maps, NEW t \in Features, NEW st, NEW new,
           \A n \in Maps \ {m} : new[n] = st[n], Withdraws(t, st[m], new[m]),
           NEW qs, qs = IF t.lb \/ t.reset THEN rs \ RowsOf(rs, m) ELSE rs,
           NEW ranked, ranked = SumOver(Counted(rs, st), Maps),
           NEW left, left = ranked - (IF t.ranked THEN BestTotal(rs, m) ELSE 0)
    PROVE  (IF left < 0 THEN 0 ELSE left) = SumOver(Counted(qs, new), Maps)
  <1>1. PICK g, f, b : g = Counted(rs, st) /\ f = Counted(qs, new) /\ b = BestTotal(rs, m)
    OBVIOUS
  <1>2. b \in Nat
    BY <1>1, BestTotalIs DEF IsBest
  <1>3. Rows(qs)
    <2>1. qs \subseteq rs
      OBVIOUS
    <2> QED
      BY <2>1, FS_Subset DEF Rows
  <1>4. \A n \in Maps \ {m} : BestTotal(qs, n) = BestTotal(rs, n)
    <2> SUFFICES ASSUME NEW n \in Maps \ {m}
                 PROVE  BestTotal(qs, n) = BestTotal(rs, n)
      OBVIOUS
    <2>1. RowsOf(qs, n) = RowsOf(rs, n)
      BY DEF RowsOf
    <2>2. PICK x, y : x = BestTotal(qs, n) /\ y = BestTotal(rs, n)
      OBVIOUS
    <2>3. IsBest(x, qs, n) /\ IsBest(y, rs, n)
      BY <1>3, <2>2, BestTotalIs
    <2>4. x = y
      BY <1>3, <2>1, <2>3, BestIsUnique
    <2> QED
      BY <2>2, <2>4
  <1>5. BestTotal(qs, m) = IF t.lb \/ t.reset THEN 0 ELSE b
    <2>1. CASE t.lb \/ t.reset
      <3>1. RowsOf(qs, m) = {}
        BY <2>1 DEF RowsOf
      <3> QED
        BY <2>1, <3>1 DEF BestTotal
    <2>2. CASE ~(t.lb \/ t.reset)
      BY <1>1, <2>2
    <2> QED
      BY <2>1, <2>2
  <1>6. g \in [Maps -> Nat] /\ f \in [Maps -> Nat]
    BY <1>1, <1>3, CountedType
  <1>7. \A n \in Maps \ {m} : g[n] = f[n]
    BY <1>1, <1>4 DEF Counted
  <1>8. SumOver(f, Maps) = (SumOver(g, Maps) - g[m]) + f[m]
    BY <1>6, <1>7, SumOverUpdate
  <1>9. /\ g[m] = IF CountsRanked(st[m]) THEN b ELSE 0
        /\ f[m] = IF CountsRanked(new[m]) /\ ~(t.lb \/ t.reset) THEN b ELSE 0
    BY <1>1, <1>5 DEF Counted
  <1>10. g[m] - f[m] = IF t.ranked THEN b ELSE 0
    BY <1>2, <1>9 DEF Withdraws
  <1>11. SumOver(g, Maps) \in Nat /\ SumOver(f, Maps) \in Nat /\ g[m] \in Nat /\ f[m] \in Nat
    BY <1>6, SumOverNat
  <1>12. left = SumOver(f, Maps)
    <2>1. left = ranked - (g[m] - f[m])
      BY <1>1, <1>10
    <2> QED
      BY <1>1, <1>8, <1>11, <2>1
  <1> QED
    BY <1>1, <1>11, <1>12

\* The PP of the scores of one map is cut, or of none.
CutPp(sc, new, m, cut) ==
    \A i \in Ids : /\ sc[i] = NoScore <=> new[i] = NoScore
                   /\ sc[i] # NoScore =>
                         /\ sc[i] \in Score /\ new[i].map = sc[i].map
                         /\ new[i].pp = IF cut /\ sc[i].map = m THEN 0 ELSE sc[i].pp

PpAfterCut(best, sc, left, new, m, cut) ==
    /\ PpRows(left, new)
    /\ ~(cut /\ best[m] # 0) => UserPp(left, new) = UserPp(best, sc)

LEMMA ReconciledPp ==
    ASSUME NEW best, NEW sc, PpRows(best, sc), NEW m \in Maps, NEW new, NEW cut \in BOOLEAN,
           CutPp(sc, new, m, cut), NEW left, left = IF cut THEN [best EXCEPT ![m] = 0] ELSE best
    PROVE  PpAfterCut(best, sc, left, new, m, cut)
  <1>1. PICK L : L = {i \in Ids : sc[i] # NoScore}
    OBVIOUS
  <1>2. \A i \in L : /\ sc[i] \in Score /\ new[i] # NoScore /\ new[i].map = sc[i].map
                     /\ new[i].pp = IF cut /\ sc[i].map = m THEN 0 ELSE sc[i].pp
    BY <1>1 DEF CutPp
  <1>3. best \in [Maps -> {0} \cup Ids] /\ 0 \notin Ids
    BY DEF PpRows, Ids
  <1>4. left \in [Maps -> {0} \cup Ids]
    BY <1>3
  <1>5. \A n \in Maps : left[n] = IF cut /\ n = m THEN 0 ELSE best[n]
    BY <1>3
  <1>6. \A n \in Maps : left[n] # 0 => left[n] = best[n] /\ ~(cut /\ n = m)
    BY <1>5
  <1>7. ASSUME NEW n \in Maps, left[n] # 0
        PROVE  /\ left[n] \in Ids /\ left[n] = best[n] /\ new[left[n]] # NoScore
               /\ new[left[n]].map = n /\ new[left[n]].pp = sc[left[n]].pp /\ sc[left[n]].pp > 0
    <2>1. PICK i : i = best[n]
      OBVIOUS
    <2>2. i = left[n] /\ i # 0 /\ ~(cut /\ n = m)
      BY <1>6, <1>7, <2>1
    <2>3. i \in Ids /\ sc[i] # NoScore /\ sc[i].map = n /\ sc[i].pp > 0
      BY <2>1, <2>2 DEF PpRows
    <2>4. i \in L /\ new[i].map = n /\ new[i].pp = sc[i].pp
      BY <1>1, <1>2, <2>2, <2>3
    <2> QED
      BY <1>2, <2>1, <2>2, <2>3, <2>4
  <1>8. ASSUME NEW i \in Ids, new[i] # NoScore, new[i].pp > 0
        PROVE  left[new[i].map] # 0 /\ new[left[new[i].map]].pp >= new[i].pp
    <2>1. i \in L /\ sc[i] # NoScore /\ sc[i] \in Score
      BY <1>1, <1>8 DEF CutPp
    <2>2. PICK n : n = sc[i].map
      OBVIOUS
    <2>3. n \in Maps /\ new[i].map = n /\ new[i].pp = sc[i].pp /\ ~(cut /\ n = m)
      BY <1>2, <1>8, <2>1, <2>2, ScoreFields
    <2>4. best[n] # 0 /\ sc[best[n]].pp >= sc[i].pp
      BY <1>8, <2>1, <2>2, <2>3 DEF PpRows
    <2>5. left[n] = best[n] /\ left[n] # 0
      BY <1>5, <2>3, <2>4
    <2> QED
      BY <1>7, <2>3, <2>4, <2>5
  <1>9. PpRows(left, new)
    <2>1. \A n \in Maps : left[n] # 0 => /\ left[n] \in Ids /\ new[left[n]] # NoScore
                                         /\ new[left[n]].map = n /\ new[left[n]].pp > 0
      BY <1>7
    <2> QED
      BY <1>4, <1>8, <2>1 DEF PpRows
  <1>10. ASSUME ~(cut /\ best[m] # 0)
        PROVE  UserPp(left, new) = UserPp(best, sc)
    <2>1. left = best
      BY <1>3, <1>10
    <2>2. \A n \in Maps : best[n] # 0 => new[best[n]].pp = sc[best[n]].pp
      BY <1>7, <2>1
    <2>3. UserPp(best, new) = UserPp(best, sc)
      BY <1>3, <2>2, SamePp
    <2> QED
      BY <2>1, <2>3
  <1> QED
    BY <1>9, <1>10 DEF PpAfterCut

\* What the statistics become, however the change is written.
Retotalled(m, t, left) ==
    /\ stats' = [stats EXCEPT !.ranked = IF left < 0 THEN 0 ELSE left,
                   !.pp = IF t.pp /\ bestPp[m] # 0 THEN UserPp(bestPp', scores') ELSE @]
    /\ rows' = IF t.lb \/ t.reset THEN rows \ RowsOf(rows, m) ELSE rows
    /\ bestPp' = IF t.pp THEN [bestPp EXCEPT ![m] = 0] ELSE bestPp

LEMMA ReconcileBalances ==
    ASSUME ScoresInv, Balanced, NEW m \in Maps, NEW t \in Features, Reconcile(m, t),
           \A n \in Maps \ {m} : status'[n] = status[n], Withdraws(t, status[m], status'[m])
    PROVE  Balanced'
  <1>1. AfterRetire(m, t)
    BY ReconcileScores, ReconciledIs
  <1>2. PICK left : left = stats.ranked - (IF t.ranked THEN BestTotal(rows, m) ELSE 0)
    OBVIOUS
  <1>3. Retotalled(m, t, left)
    BY <1>2 DEF Reconcile, Retotalled
  <1>4. PICK D, rs, qs, sts, nst, sc, new, st, nt :
            /\ D = Done /\ rs = rows /\ qs = rows' /\ sts = stats /\ nst = stats'
            /\ sc = scores /\ new = scores' /\ st = status /\ nt = status'
    OBVIOUS
  <1>5. Book(rs, sts, sc, st, D) /\ Rows(rs)
    BY <1>4, BookIsRows DEF Balanced
  <1>6. Done' = D
    BY <1>1, <1>4 DEF AfterRetire, Done
  <1>7. \A i \in D : /\ new[i] \in Score /\ new[i].map = sc[i].map /\ new[i].play = sc[i].play
                     /\ sc[i].map # m => new[i].lb = sc[i].lb
                     /\ sc[i].map = m => (new[i].lb <=> sc[i].lb /\ ~(t.lb \/ t.reset))
    BY <1>1, <1>4 DEF AfterRetire, Done
  <1>8. qs = IF t.lb \/ t.reset THEN rs \ RowsOf(rs, m) ELSE rs
    BY <1>3, <1>4 DEF Retotalled
  <1>9. \A r \in qs : Shows(r, new, D)
    <2> SUFFICES ASSUME NEW r \in qs
                 PROVE  Shows(r, new, D)
      OBVIOUS
    <2>1. r \in rs /\ (t.lb \/ t.reset => r.map # m)
      BY <1>8 DEF RowsOf
    <2>2. Shows(r, sc, D)
      BY <1>5, <2>1 DEF Book
    <2>3. PICK i : i = r.score
      OBVIOUS
    <2>4. i \in D /\ r.map = sc[i].map /\ r.total = sc[i].play.total /\ sc[i].lb
      BY <2>2, <2>3 DEF Shows
    <2>5. new[i].lb /\ r.map = new[i].map /\ r.total = new[i].play.total
      BY <1>7, <2>1, <2>4
    <2> QED
      BY <2>3, <2>4, <2>5 DEF Shows
  <1>10. Standing(sts) /\ sts.pp = UserPp(bestPp, sc)
    BY <1>4 DEF Balanced
  <1>11. /\ nst.ranked = (IF left < 0 THEN 0 ELSE left) /\ nst.total = sts.total
         /\ nst.plays = sts.plays /\ Standing(nst)
         /\ nst.pp = IF t.pp /\ bestPp[m] # 0 THEN UserPp(bestPp', new) ELSE sts.pp
    BY <1>3, <1>4, <1>10 DEF Retotalled, Standing
  <1>12. nst.ranked = SumOver(Counted(qs, nt), Maps)
    <2>1. sts.ranked = SumOver(Counted(rs, st), Maps)
      BY <1>5 DEF Book
    <2>2. left = sts.ranked - (IF t.ranked THEN BestTotal(rs, m) ELSE 0)
      BY <1>2, <1>4
    <2>3. Withdraws(t, st[m], nt[m]) /\ \A n \in Maps \ {m} : nt[n] = st[n]
      BY <1>4
    <2>4. (IF left < 0 THEN 0 ELSE left) = SumOver(Counted(qs, nt), Maps)
      BY <1>5, <1>8, <2>1, <2>2, <2>3, ReconciledRanked
    <2> QED
      BY <1>11, <2>4
  <1>13. Totals(new, D) = Totals(sc, D) /\ ValidIn(new, D) = ValidIn(sc, D)
    BY <1>7 DEF Totals, ValidIn
  <1>14. IsFiniteSet(qs)
    <2>1. qs \subseteq rs
      BY <1>8
    <2> QED
      BY <1>5, <2>1, FS_Subset DEF Rows
  <1>15. Book(qs, nst, new, nt, D)
    BY <1>5, <1>7, <1>9, <1>11, <1>12, <1>13, <1>14 DEF Book
  <1>16. PICK cut \in BOOLEAN : cut = t.pp
    <2>1. t.pp \in BOOLEAN
      BY DEF Features
    <2> QED
      BY <2>1, Zenon
  <1>17. PICK best, rest : best = bestPp /\ rest = bestPp'
    OBVIOUS
  <1>18. \A i \in Ids : sc[i] = NoScore <=> new[i] = NoScore
    BY <1>1, <1>4 DEF Live, AfterRetire
  <1>19. CutPp(sc, new, m, cut)
    <2>1. \A i \in Live : /\ sc[i] \in Score /\ new[i].map = sc[i].map
                          /\ new[i].pp = IF cut /\ sc[i].map = m THEN 0 ELSE sc[i].pp
      BY <1>1, <1>4, <1>16 DEF AfterRetire
    <2> QED
      BY <1>4, <1>18, <2>1 DEF CutPp, Live
  <1>20. PpRows(best, sc) /\ rest = IF cut THEN [best EXCEPT ![m] = 0] ELSE best
    BY <1>3, <1>4, <1>16, <1>17 DEF Balanced, Retotalled
  <1>21. PpRows(rest, new) /\ (~(cut /\ best[m] # 0) => UserPp(rest, new) = UserPp(best, sc))
    BY <1>19, <1>20, ReconciledPp DEF PpAfterCut
  <1>22. nst.pp = UserPp(rest, new)
    BY <1>10, <1>11, <1>16, <1>17, <1>21
  <1> QED
    BY <1>4, <1>6, <1>11, <1>15, <1>17, <1>21, <1>22 DEF Balanced

LEMMA ChangeStatusBalances ==
    ASSUME ScoresInv, Balanced, NEW m \in Maps, NEW st \in Statuses, ChangeStatus(m, st)
    PROVE  Balanced'
  <1>1. PICK t, old : old = status[m] /\ t = Plan(old, st)
    OBVIOUS
  <1>2. status' = [status EXCEPT ![m] = st] /\ Reconcile(m, t)
    BY <1>1 DEF ChangeStatus
  <1>3. t \in Features
    BY <1>1, PlanFeatures
  <1>4. status'[m] = st /\ \A n \in Maps \ {m} : status'[n] = status[n]
    BY <1>2 DEF ScoresInv, PlainTypes
  <1>5. Withdraws(t, old, st)
    BY <1>1 DEF Plan, Withdraws
  <1> QED
    BY <1>1, <1>2, <1>3, <1>4, <1>5, ReconcileBalances

LEMMA ReviseBalances ==
    ASSUME ScoresInv, Balanced, NEW m \in Maps, NEW st \in Statuses, Revise(m, st)
    PROVE  Balanced'
  <1>1. PICK ranked \in BOOLEAN : ranked = CountsRanked(status[m])
    <2>1. CountsRanked(status[m]) \in BOOLEAN
      OBVIOUS
    <2> QED
      BY <2>1, Zenon
  <1>2. PICK t : t = Everything(ranked)
    OBVIOUS
  <1>3. status' = [status EXCEPT ![m] = st] /\ Reconcile(m, t)
    BY <1>1, <1>2 DEF Revise, Everything
  <1>4. t \in Features
    BY <1>2 DEF Everything, Features
  <1>5. status'[m] = st /\ \A n \in Maps \ {m} : status'[n] = status[n]
    BY <1>3 DEF ScoresInv, PlainTypes
  <1>6. Withdraws(t, status[m], status'[m])
    BY <1>1, <1>2 DEF Everything, Withdraws
  <1> QED
    BY <1>3, <1>4, <1>5, <1>6, ReconcileBalances

LEMMA FinaliseBalances ==
    ASSUME ScoresInv, Balanced, NEW i \in Ids, NEW ok \in BOOLEAN, Finalise(i, ok)
    PROVE  Balanced'
  <1>1. UNCHANGED <<policy, tokens>>
    BY DEF Finalise
  <1>2. CASE ~(i \in Live /\ ~scores[i].processed)
    <2>1. UNCHANGED <<scores, status, tables>>
      BY <1>1, <1>2 DEF Finalise, policy
    <2> QED
      BY <2>1, BalancedStays
  <1>3. CASE i \in Live /\ ~scores[i].processed
    <2>1. ProcessUser(i, ok)
      BY <1>3 DEF Finalise
    <2>2. PICK d : Processed(i, ok, d)
      BY <1>3, <2>1, ProcessUserIs
    <2> QED
      BY <1>1, <1>3, <2>2, ProcessedBalances
  <1> QED
    BY <1>2, <1>3

LEMMA JobWorkBalances ==
    ASSUME ScoresInv, Balanced, NEW o \in Outcomes, JobWork(o)
    PROVE  Balanced'
  <1>1. PICK i : i = job.claim
    OBVIOUS
  <1>2. UNCHANGED <<policy, tokens>> /\ UNCHANGED <<status, tokens>>
    BY DEF JobWork, policy
  <1>3. CASE i \notin Live
    <2>1. UNCHANGED <<scores, tables>>
      BY <1>1, <1>3 DEF JobWork
    <2> QED
      BY <1>2, <2>1, BalancedStays
  <1>4. CASE i \in Live /\ ~scores[i].processed
    <2>1. PICK ok \in BOOLEAN : ok = (o = "ok")
      OBVIOUS
    <2>2. ProcessUser(i, ok)
      BY <1>1, <1>4, <2>1 DEF JobWork
    <2>3. PICK d : Processed(i, ok, d)
      BY <1>4, <2>2, ProcessUserIs
    <2> QED
      BY <1>2, <1>4, <2>3, ProcessedBalances
  <1>5. CASE i \in Live /\ scores[i].processed
    <2>1. JobRetryPp(i, o)
      BY <1>1, <1>5 DEF JobWork
    <2>2. rows' = rows /\ RetryEnds(i)
      BY <1>5, <2>1, JobRetryPpIs
    <2>3. CASE \E d : Retried(i, d)
      BY <1>2, <1>5, <2>2, <2>3, RetriedBalances
    <2>4. CASE UNCHANGED <<scores, bestPp, stats>>
      BY <1>2, <2>2, <2>4, BalancedStays DEF tables
    <2> QED
      BY <2>2, <2>3, <2>4 DEF RetryEnds
  <1> QED
    BY <1>3, <1>4, <1>5

LEMMA LedgerInvInit == Init => LedgerInv
  <1> SUFFICES ASSUME Init
               PROVE  LedgerInv
    OBVIOUS
  <1>1. ScoresInv
    BY ScoresInvInit
  <1>2. Done = {}
    BY DEF Init, Done, Live
  <1>3. stats = ZeroStats /\ rows = {} /\ bestPp = NoPp /\ scores = [i \in Ids |-> NoScore]
    BY DEF Init, ZeroStats, NoPp
  <1>4. Book({}, stats, scores, status, {})
    BY <1>3, NobodysBook DEF ZeroStats
  <1>5. Standing(stats) /\ stats.pp = NoPp
    BY <1>3 DEF ZeroStats, Standing
  <1>6. PpRows(NoPp, scores) /\ UserPp(NoPp, scores) = NoPp
    BY <1>3 DEF PpRows, NoPp, UserPp
  <1>7. Balanced
    BY <1>2, <1>3, <1>4, <1>5, <1>6 DEF Balanced
  <1>8. ViewIsCurrent
    BY DEF Init, NoView, ViewIsCurrent
  <1>9. RevisionsBounded
    BY DEF Init, RevisionsBounded
  <1> QED
    BY <1>1, <1>7, <1>8, <1>9 DEF LedgerInv

\* The background job, the tokens, the queue and the reads touch no table.
LEMMA QuietBalances ==
    ASSUME Balanced,
           \/ \E m \in Maps : CreateToken(m)
           \/ \E i \in Ids : Resubmit(i) \/ JobClaim(i) \/ ImportEnqueue(i) \/ DeleteRead(i)
           \/ JobStart \/ JobAck \/ JobEnd \/ Crash
           \/ \E m \in Maps, p \in Plays, v \in BOOLEAN : ImportRead(m, p, v)
    PROVE  Balanced'
  <1>1. UNCHANGED <<scores, tables, policy>>
    BY DEF CreateToken, Resubmit, JobClaim, ImportEnqueue, DeleteRead, JobStart, JobAck, JobEnd,
           Crash, ImportRead
  <1> QED
    BY <1>1, BalancedStays DEF policy

LEMMA BalancedNext ==
    ASSUME ScoresInv, Balanced, ViewIsCurrent, Next
    PROVE  Balanced'
  <1>1. ASSUME Server
        PROVE  Balanced'
    <2>1. CASE \E m \in Maps : CreateToken(m)
      BY <2>1, QuietBalances
    <2>2. CASE \E i \in Ids, p \in Plays : Submit(i, p)
      BY <2>2, SubmitBalances
    <2>3. CASE \E i \in Ids : Resubmit(i)
      BY <2>3, QuietBalances
    <2>4. CASE \E i \in Ids, ok \in BOOLEAN : Finalise(i, ok)
      BY <2>4, FinaliseBalances
    <2>5. CASE JobStep
      BY <2>5, QuietBalances, JobWorkBalances DEF JobStep
    <2>6. CASE \E m \in Maps, st \in Statuses : ChangeStatus(m, st) \/ Revise(m, st)
      BY <2>6, ChangeStatusBalances, ReviseBalances
    <2>7. CASE \E i \in Ids : ImportEnqueue(i)
      BY <2>7, QuietBalances
    <2>8. CASE ClearProfile
      BY <2>8, ClearBalances
    <2> QED
      BY <1>1, <2>1, <2>2, <2>3, <2>4, <2>5, <2>6, <2>7, <2>8 DEF Server
  <1>2. ASSUME NEW ok \in BOOLEAN, ImportCommit(ok)
        PROVE  Balanced'
    <2>1. view.kind = "import" /\ UNCHANGED policy
      BY <1>2 DEF ImportCommit
    <2>2. CASE UNCHANGED <<tokens, scores, tables, pending, requests>>
      BY <2>1, <2>2, BalancedStays DEF policy
    <2>3. CASE \E i, c, d : Imported(i, c, d, ok)
      BY <2>1, <2>3, ImportedBalances
    <2> QED
      BY <1>2, <2>2, <2>3, ImportCommitIs
  <1>3. ASSUME Administration
        PROVE  Balanced'
    BY <1>2, <1>3, QuietBalances, DeleteBalances DEF Administration
  <1>4. ASSUME Crash
        PROVE  Balanced'
    BY <1>4, QuietBalances
  <1> QED
    BY <1>1, <1>3, <1>4 DEF Next

LEMMA ServerKeepsView ==
    ASSUME Server
    PROVE  view' = view
  <1>1. CASE \E m \in Maps : CreateToken(m)
    BY <1>1 DEF CreateToken
  <1>2. CASE \E i \in Ids, p \in Plays : Submit(i, p)
    BY <1>2 DEF Submit
  <1>3. CASE \E i \in Ids : Resubmit(i)
    BY <1>3 DEF Resubmit
  <1>4. CASE \E i \in Ids, ok \in BOOLEAN : Finalise(i, ok)
    BY <1>4 DEF Finalise
  <1>5. CASE JobStep
    BY <1>5 DEF JobStep, JobStart, JobClaim, JobWork, JobAck, JobEnd
  <1>6. CASE \E m \in Maps, st \in Statuses : ChangeStatus(m, st) \/ Revise(m, st)
    BY <1>6 DEF ChangeStatus, Revise
  <1>7. CASE \E i \in Ids : ImportEnqueue(i)
    BY <1>7 DEF ImportEnqueue
  <1>8. CASE ClearProfile
    BY <1>8 DEF ClearProfile
  <1> QED
    BY <1>1, <1>2, <1>3, <1>4, <1>5, <1>6, <1>7, <1>8 DEF Server

LEMMA ViewIsCurrentNext ==
    ASSUME ~StaleViews, Next
    PROVE  ViewIsCurrent'
  <1>1. ASSUME view' = NoView
        PROVE  ViewIsCurrent'
    BY <1>1 DEF NoView, ViewIsCurrent
  <1>2. ASSUME \/ \E m \in Maps, p \in Plays, v \in BOOLEAN : ImportRead(m, p, v)
               \/ \E i \in Ids : DeleteRead(i)
        PROVE  ViewIsCurrent'
    <2>1. /\ view'.rows = rows /\ view'.bestPp = bestPp /\ view'.scores = scores
          /\ view'.status = status /\ UNCHANGED <<policy, tables, scores>>
      BY <1>2 DEF ImportRead, DeleteRead
    <2> QED
      BY <2>1 DEF ViewIsCurrent, policy, tables
  <1>3. CASE view = NoView /\ Server
    BY <1>1, <1>3, ServerKeepsView
  <1>4. CASE Crash
    BY <1>1, <1>4 DEF Crash
  <1>5. CASE Administration
    <2>1. CASE \E ok \in BOOLEAN : ImportCommit(ok)
      BY <1>1, <2>1 DEF ImportCommit
    <2>2. CASE DeleteCommit
      BY <1>1, <2>2 DEF DeleteCommit
    <2> QED
      BY <1>2, <1>5, <2>1, <2>2 DEF Administration
  <1> QED
    BY <1>3, <1>4, <1>5 DEF Next

\* Every change of a map is one of the bounded changes.
LEMMA RevisionsNext ==
    ASSUME ScoresInv, RevisionsBounded, Next
    PROVE  RevisionsBounded'
  <1>1. ASSUME UNCHANGED policy
        PROVE  RevisionsBounded'
    BY <1>1 DEF policy, RevisionsBounded
  <1>2. ASSUME NEW m \in Maps, NEW st \in Statuses, ChangeStatus(m, st)
        PROVE  RevisionsBounded'
    <2>1. changes < MaxChanges /\ changes' = changes + 1 /\ md5' = md5
      BY <1>2 DEF ChangeStatus
    <2>2. md5 \in [Maps -> Nat]
      BY DEF ScoresInv, PlainTypes
    <2>3. changes \in Nat
      BY DEF RevisionsBounded
    <2>4. changes' \in 0 .. MaxChanges
      BY <2>1, <2>3
    <2>5. \A n \in Maps : md5'[n] <= changes'
      BY <2>1, <2>2, <2>3 DEF RevisionsBounded
    <2> QED
      BY <2>4, <2>5 DEF RevisionsBounded
  <1>3. ASSUME NEW m \in Maps, NEW st \in Statuses, Revise(m, st)
        PROVE  RevisionsBounded'
    <2>1. changes < MaxChanges /\ changes' = changes + 1 /\ md5' = [md5 EXCEPT ![m] = @ + 1]
      BY <1>3 DEF Revise
    <2>2. md5 \in [Maps -> Nat]
      BY DEF ScoresInv, PlainTypes
    <2>3. changes \in Nat
      BY DEF RevisionsBounded
    <2>4. changes' \in 0 .. MaxChanges
      BY <2>1, <2>3
    <2>5. \A n \in Maps : md5[n] <= changes
      BY DEF RevisionsBounded
    <2>6. \A n \in Maps : md5'[n] = md5[n] \/ md5'[n] = md5[n] + 1
      BY <2>1, <2>2
    <2>7. \A n \in Maps : md5'[n] <= changes'
      BY <2>1, <2>2, <2>3, <2>5, <2>6
    <2> QED
      BY <2>4, <2>7 DEF RevisionsBounded
  <1>4. CASE Server
    <2>1. \/ UNCHANGED policy
          \/ \E m \in Maps, st \in Statuses : ChangeStatus(m, st) \/ Revise(m, st)
      <3>1. CASE \E m \in Maps : CreateToken(m)
        BY <3>1 DEF CreateToken
      <3>2. CASE \E i \in Ids, p \in Plays : Submit(i, p)
        BY <3>2 DEF Submit
      <3>3. CASE \E i \in Ids : Resubmit(i)
        BY <3>3 DEF Resubmit
      <3>4. CASE \E i \in Ids, ok \in BOOLEAN : Finalise(i, ok)
        BY <3>4 DEF Finalise
      <3>5. CASE JobStep
        BY <3>5 DEF JobStep, JobStart, JobClaim, JobWork, JobAck, JobEnd
      <3>6. CASE \E i \in Ids : ImportEnqueue(i)
        BY <3>6 DEF ImportEnqueue
      <3>7. CASE ClearProfile
        BY <3>7 DEF ClearProfile
      <3> QED
        BY <1>4, <3>1, <3>2, <3>3, <3>4, <3>5, <3>6, <3>7 DEF Server
    <2> QED
      BY <1>1, <1>2, <1>3, <2>1
  <1>5. CASE Administration
    BY <1>1, <1>5 DEF Administration, ImportRead, ImportCommit, DeleteRead, DeleteCommit
  <1>6. CASE Crash
    BY <1>1, <1>6 DEF Crash
  <1> QED
    BY <1>4, <1>5, <1>6 DEF Next

LEMMA LedgerInvNext ==
    ASSUME ~StaleViews
    PROVE  LedgerInv /\ [Next]_vars => LedgerInv'
  <1> SUFFICES ASSUME LedgerInv, [Next]_vars
               PROVE  LedgerInv'
    OBVIOUS
  <1>1. ScoresInv'
    BY ScoresInvNext DEF LedgerInv
  <1>2. CASE Next
    BY <1>1, <1>2, BalancedNext, ViewIsCurrentNext, RevisionsNext DEF LedgerInv
  <1>3. CASE UNCHANGED vars
    <2>1. Balanced'
      BY <1>3, BalancedStays DEF LedgerInv, vars, tables
    <2>2. ViewIsCurrent' /\ RevisionsBounded'
      BY <1>3 DEF LedgerInv, vars, ViewIsCurrent, RevisionsBounded
    <2> QED
      BY <1>1, <2>1, <2>2 DEF LedgerInv
  <1> QED
    BY <1>2, <1>3

LEMMA LedgerInvAlways ==
    ASSUME ~StaleViews
    PROVE  Spec => []LedgerInv
  <1>1. LedgerInv /\ [Next]_vars => LedgerInv'
    BY LedgerInvNext
  <1> QED
    BY <1>1, LedgerInvInit, PTL DEF Spec

(***************************************************************************)
(* The properties.                                                         *)
(***************************************************************************)
LEMMA BalancedRanked ==
    ASSUME Balanced
    PROVE  RankedScoreIsSum
  <1> DEFINE Part(m)  == IF CountsRanked(status[m]) THEN BestTotal(rows, m) ELSE 0
             Total(k) == k = [s \in SUBSET Maps |-> IF s = {} THEN 0
                                                    ELSE Part(Some(s)) + k[s \ {Some(s)}]]
  <1>1. PICK g : g = Counted(rows, status)
    OBVIOUS
  <1>2. Rows(rows) /\ stats.ranked = SumOver(g, Maps)
    BY <1>1, BookIsRows DEF Balanced, Book
  <1>3. g \in [Maps -> Nat] /\ \A m \in Maps : g[m] = Part(m)
    BY <1>1, <1>2, CountedType DEF Counted
  <1>4. PICK h \in [SUBSET Maps -> Nat] : Sums(h, g, Maps)
    BY <1>3, SumsExist
  <1>5. PICK sum : sum = CHOOSE k : Total(k)
    OBVIOUS
  <1>6. RankedScoreIsSum <=> stats.ranked = sum[Maps]
    BY <1>5 DEF RankedScoreIsSum, MapThenSumSet, MapThenFoldSet, Some
  <1> HIDE DEF Part
  <1>7. \A s \in SUBSET Maps : s # {} => Some(s) \in Maps
    BY DEF Some
  <1>8. \A k : Sums(k, g, Maps) <=> Total(k)
    BY <1>3, <1>7 DEF Sums
  <1>9. Total(sum)
    <2> HIDE DEF Total
    <2>1. Total(h)
      BY <1>4, <1>8
    <2> QED
      BY <1>5, <2>1
  <1>10. sum[Maps] = SumOver(g, Maps)
    BY <1>3, <1>8, <1>9, SumOverUnique
  <1> QED
    BY <1>2, <1>6, <1>10

LEMMA BalancedPlays ==
    ASSUME Balanced
    PROVE  PlaysCountedOnce
  <1> DEFINE Part(i)  == scores[i].play.total
             Total(k) == k = [s \in SUBSET Done |-> IF s = {} THEN 0
                                                 ELSE Part(Some(s)) + k[s \ {Some(s)}]]
  <1>1. PICK g, D : D = Done /\ g = Totals(scores, D)
    OBVIOUS
  <1>2. /\ IsFiniteSet(D) /\ g \in [D -> Nat] /\ stats.total = SumOver(g, D)
        /\ stats.plays = Cardinality(ValidIn(scores, D))
    BY <1>1, BookIsRows DEF Balanced, Book
  <1>3. \A i \in D : g[i] = Part(i)
    BY <1>1 DEF Totals
  <1>4. PICK h \in [SUBSET D -> Nat] : Sums(h, g, D)
    BY <1>2, SumsExist
  <1>5. PICK sum : sum = CHOOSE k : Total(k)
    OBVIOUS
  <1>6. PlaysCountedOnce <=> /\ stats.plays = Cardinality(ValidIn(scores, Done))
                             /\ stats.total = sum[Done]
    BY <1>5 DEF PlaysCountedOnce, MapThenSumSet, MapThenFoldSet, Some, Done, ValidIn
  <1> HIDE DEF Part
  <1>7. \A s \in SUBSET D : s # {} => Some(s) \in D
    BY DEF Some
  <1>8. \A k : Sums(k, g, D) <=> Total(k)
    BY <1>1, <1>3, <1>7 DEF Sums
  <1>9. Total(sum)
    <2> HIDE DEF Total
    <2>1. Total(h)
      BY <1>4, <1>8
    <2> QED
      BY <1>5, <2>1
  <1>10. sum[D] = SumOver(g, D)
    BY <1>2, <1>8, <1>9, SumOverUnique
  <1> QED
    BY <1>1, <1>2, <1>6, <1>10

LEMMA LedgerStandings ==
    ASSUME LedgerInv
    PROVE  StandingsAreCurrent
  <1>1. /\ \A r \in rows : Shows(r, scores, Done)
        /\ PpRows(bestPp, scores) /\ stats.pp = UserPp(bestPp, scores)
    BY DEF LedgerInv, Balanced, Book
  <1>2. \A i \in Live : i \in Ids /\ scores[i] \in Score /\ Fits(scores[i], status, md5)
    BY DEF LedgerInv, ScoresInv, PlainTypes, Eligible, Live
  <1>3. RowsAreCurrent
    <2> SUFFICES ASSUME NEW r \in rows
                 PROVE  /\ scores[r.score].md5 = md5[r.map] /\ HasLeaderboard(status[r.map])
                        /\ <<r.score, "lb">> \notin retired
      BY DEF RowsAreCurrent
    <2>1. PICK i : i = r.score
      OBVIOUS
    <2>2. i \in Live /\ scores[i].lb /\ r.map = scores[i].map
      BY <1>1, <2>1 DEF Shows, Done
    <2>3. <<i, "lb">> \notin retired
      BY <2>2 DEF LedgerInv, ScoresInv, Withdrawn
    <2>4. scores[i].md5 = md5[r.map] /\ HasLeaderboard(status[r.map])
      BY <1>2, <2>2 DEF Fits
    <2> QED
      BY <2>1, <2>3, <2>4
  <1>4. PpIsCurrent
    <2> SUFFICES ASSUME NEW m \in Maps, bestPp[m] # 0
                 PROVE  /\ scores[bestPp[m]].md5 = md5[m] /\ HasPp(status[m])
                        /\ <<bestPp[m], "pp">> \notin retired
      BY <1>1 DEF PpIsCurrent
    <2>1. PICK i : i = bestPp[m]
      OBVIOUS
    <2>2. i \in Live /\ scores[i].map = m /\ scores[i].pp > 0
      BY <1>1, <2>1 DEF PpRows, Live
    <2>3. scores[i].ranked /\ scores[i].md5 = md5[m] /\ HasPp(status[m])
      BY <1>2, <2>2 DEF Fits
    <2>4. <<i, "pp">> \notin retired
      BY <2>2, <2>3 DEF LedgerInv, ScoresInv, Withdrawn
    <2> QED
      BY <2>1, <2>3, <2>4
  <1>5. PpRowIsBest
    BY <1>1, <1>2 DEF PpRowIsBest, PpRows, Live
  <1> QED
    BY <1>3, <1>4, <1>5 DEF StandingsAreCurrent

LEMMA LedgerTypes ==
    ASSUME LedgerInv
    PROVE  TypeOK
  <1>1. md5 \in [Maps -> 0 .. MaxChanges]
    <2>1. md5 \in [Maps -> Nat] /\ changes \in 0 .. MaxChanges /\ \A m \in Maps : md5[m] <= changes
      BY DEF LedgerInv, ScoresInv, PlainTypes, RevisionsBounded
    <2> QED
      BY <2>1
  <1>2. stats.ranked \in Nat /\ stats.total \in Nat /\ stats.plays \in Nat
    BY BookIsRows DEF LedgerInv, Balanced
  <1>3. \A r \in rows : r.map \in Maps /\ r.score \in Live
    <2> SUFFICES ASSUME NEW r \in rows
                 PROVE  r.map \in Maps /\ r.score \in Live
      OBVIOUS
    <2>1. Shows(r, scores, Done)
      BY DEF LedgerInv, Balanced, Book
    <2>2. r.score \in Live /\ r.map = scores[r.score].map
      BY <2>1 DEF Shows, Done
    <2>3. scores[r.score] \in Score
      BY <2>2 DEF LedgerInv, ScoresInv, PlainTypes, Live
    <2> QED
      BY <2>2, <2>3, ScoreFields
  <1>4. bestPp \in [Maps -> {0} \cup Live]
    <2>1. PpRows(bestPp, scores)
      BY DEF LedgerInv, Balanced
    <2>2. \A m \in Maps : bestPp[m] \in {0} \cup Live
      BY <2>1 DEF PpRows, Live
    <2> QED
      BY <2>1, <2>2 DEF PpRows
  <1>5. /\ queue \subseteq Ids /\ processing \subseteq Ids /\ tasks \subseteq Ids
        /\ pending \subseteq Live /\ status \in [Maps -> Statuses]
    BY DEF LedgerInv, ScoresInv, PlainTypes, Lists, Spent
  <1> QED
    BY <1>1, <1>2, <1>3, <1>4, <1>5 DEF TypeOK

\* ranked_score is the sum of the best totals of the maps that count, whatever
\* was finalised, retried, imported, re-ranked, revised, deleted or cleared
\* before, when nothing commits between the reads and the commit of an import
\* or a deletion (process_user, reconcile_disabled_score_features).
THEOREM RankedScoreTheorem ==
    ASSUME ~StaleViews
    PROVE  Spec => []RankedScoreIsSum
  <1>1. LedgerInv => RankedScoreIsSum
    BY BalancedRanked DEF LedgerInv
  <1>2. Spec => []LedgerInv
    BY LedgerInvAlways
  <1> QED
    BY <1>1, <1>2, PTL

\* Leaderboard and PP rows are of the current revision and policy, never of a
\* score whose eligibility was withdrawn, the PP row of a map is its best paid
\* score and the user's PP is that of the rows as they are.
THEOREM StandingsTheorem ==
    ASSUME ~StaleViews
    PROVE  Spec => []StandingsAreCurrent
  <1>1. LedgerInv => StandingsAreCurrent
    BY LedgerStandings
  <1>2. Spec => []LedgerInv
    BY LedgerInvAlways
  <1> QED
    BY <1>1, <1>2, PTL

\* The lifetime totals count every finalised play exactly once, although the
\* background task, a repeated request and the retry job may all finalise it.
THEOREM PlaysTheorem ==
    ASSUME ~StaleViews
    PROVE  Spec => []PlaysCountedOnce
  <1>1. LedgerInv => PlaysCountedOnce
    BY BalancedPlays DEF LedgerInv
  <1>2. Spec => []LedgerInv
    BY LedgerInvAlways
  <1> QED
    BY <1>1, <1>2, PTL

\* Rows, PP rows, lists and pending imports refer to scores that exist, and the
\* aggregates never go below zero, even where a policy change subtracts.
THEOREM LedgerTypeTheorem ==
    ASSUME ~StaleViews
    PROVE  Spec => []TypeOK
  <1>1. LedgerInv => TypeOK
    BY LedgerTypes
  <1>2. Spec => []LedgerInv
    BY LedgerInvAlways
  <1> QED
    BY <1>1, <1>2, PTL

=============================================================================
