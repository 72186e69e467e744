---------------------------- MODULE SomsaiMatch ----------------------------
(***************************************************************************)
(* One SOMSAI tournament match: the state machine that                     *)
(* app/features/somsai/services/somsai_match_service.py keeps in one       *)
(* SomsaiMatch row, from the ready check through the draft and the rounds  *)
(* to the verdict.                                                         *)
(*                                                                         *)
(* Every handler of the service runs inside somsai_transaction, under the  *)
(* row lock of SomsaiLock, so a handler is one action.  Between handlers   *)
(* anything may happen: players act, the game server reports (or falls     *)
(* silent), timers run out, the two-second tick fires.                     *)
(*                                                                         *)
(* Abstractions.  A timer is "none", "running" or "due" instead of a time. *)
(* The playlist item id, which grows with every served beatmap, is only    *)
(* ever compared with the current one: a report of the game server carries *)
(* the Boolean `same`.  A rejected request changes nothing (its            *)
(* transaction is rolled back) and is not an action.  The round history is *)
(* kept as the counters the code derives from it.                          *)
(*                                                                         *)
(* A definition marked "Mutation" is a plausible mistake in the definition *)
(* that follows it; no specification uses it.  PROJECT.json pairs each     *)
(* property with the mutation that breaks it.                              *)
(***************************************************************************)
EXTENDS Integers, FiniteSets, FiniteSetsExt

CONSTANTS
    Red, Blue,               \* the rosters of team 0 and of team 1
    RedCaptain, BlueCaptain, \* the first member of each roster
    Bots,                    \* the roster members the server plays itself
    SlotCount,               \* slots of the pool, its tiebreaker left out
    BestOf,                  \* the pool's best_of
    BansPerTeam,             \* the pool's bans_per_team
    Ranked,                  \* is this a rated match?
    Scores,                  \* the scores a player can set
    Connections              \* the sets of members a report can name

Members == Red \cup Blue
Team == {0, 1}
NoTeam == -1
OtherOffByOne(t) == t + 1  \* Mutation
Other(t) == 1 - t
Roster(t) == IF t = 0 THEN Red ELSE Blue
Captain(t) == IF t = 0 THEN RedCaptain ELSE BlueCaptain
TeamOf(u) == IF u \in Red THEN 0 ELSE 1

\* Pool order: the regular slots, then the tiebreaker.
Regular == 1..SlotCount
TB == SlotCount + 1
Slots == 1..TB
NoSlot == 0
NoScore == -1

Target == (BestOf + 1) \div 2   \* wins that take the match
Level == BestOf \div 2          \* wins of both teams that call the tiebreaker
DrawLimit == 3

ASSUME RosterAssumption ==
    /\ IsFiniteSet(Red) /\ IsFiniteSet(Blue) /\ Red \cap Blue = {}
    /\ RedCaptain \in Red /\ BlueCaptain \in Blue
    /\ Bots \subseteq Blue
    /\ Ranked \in BOOLEAN /\ (Ranked => Bots = {})

ASSUME PoolAssumption ==
    /\ SlotCount \in Nat /\ BansPerTeam \in Nat
    /\ BestOf \in Nat /\ BestOf >= 3 /\ BestOf % 2 = 1

ASSUME InputAssumption ==
    /\ Scores \subseteq Nat
    /\ Connections \subseteq SUBSET Members /\ Members \in Connections

VARIABLES
    \* the life of the match
    stage, deadline, winner, reason, games,
    \* the ready check
    accepted, penalised,
    \* what the game server reported
    connected, offline, heard,
    \* the draft
    slots, by, bans, turn, nextPick,
    \* the current round
    current, ready, available, forceStart, scores,
    \* the history
    wins, drawn, skipped

verdictVars == <<winner, reason, games>>
checkVars == <<accepted, penalised>>
netVars == <<connected, offline, heard>>
draftVars == <<slots, by, bans, turn, nextPick>>
roundVars == <<current, ready, available, forceStart, scores>>
tallyVars == <<wins, drawn, skipped>>
vars == <<stage, deadline, verdictVars, checkVars, netVars, draftVars,
          roundVars, tallyVars>>

FinalStages == {"ended", "cancelled"}
Stages == {"waiting", "banning", "picking", "ready", "playing", "results"}
             \cup FinalStages
Timers == {"none", "running", "due"}
Reasons == {"", "left", "declined", "not accepted", "beatmap gone",
            "server lost", "reconnection", "pool empty", "too long", "draws"}
Statuses == {"available", "banned", "picked", "played", "tiebreaker"}

\* What the columns of the row and the keys of its JSON state hold.
LifeOK == /\ stage \in Stages /\ deadline \in Timers
          /\ winner \in Team \cup {NoTeam} /\ reason \in Reasons /\ games \in Nat
CheckOK == accepted \subseteq Members /\ penalised \subseteq Members
NetOK == /\ connected \subseteq Members
         /\ offline \in [Members -> Timers] /\ heard \in BOOLEAN
DraftOK == /\ slots \in [Slots -> Statuses]
           /\ by \in [Slots -> Team \cup {NoTeam}]
           /\ bans \in [Team -> Nat] /\ turn \in Team /\ nextPick \in Team
RoundOK == /\ current \in Slots \cup {NoSlot}
           /\ ready \subseteq Members /\ available \subseteq Members
           /\ forceStart \in BOOLEAN
           /\ scores \in [Members -> Scores \cup {NoScore}]
TallyOK == wins \in [Team -> Nat] /\ drawn \in Nat /\ skipped \in Nat

\* The columns and keys of a match hold values of their types (create_match).
TypeOK == LifeOK /\ CheckOK /\ NetOK /\ DraftOK /\ RoundOK /\ TallyOK

Final == stage \in FinalStages
Open == ~Final
Playable == {s \in Slots : slots[s] = "available"}
FirstPlayable(s) == s \in Playable /\ \A r \in Playable : s <= r

FirstStage == IF BansPerTeam > 0 THEN "banning" ELSE "picking"

\* Two players who agreed to a direct duel: an unranked 1v1 without bots.
Duel == ~Ranked /\ Bots = {} /\ Members = {RedCaptain, BlueCaptain}

\* create_match.  A ranked match waits for its ready check, a custom match (its
\* roster complete) for its owner; the draft of a direct duel has begun already.
Init ==
    /\ stage \in IF Duel THEN {"waiting", FirstStage} ELSE {"waiting"}
    /\ deadline = "running"
    /\ winner = NoTeam /\ reason = "" /\ games = 0
    /\ accepted = {} /\ penalised = {}
    /\ connected = {} /\ offline = [u \in Members |-> "none"] /\ heard = TRUE
    /\ slots = [s \in Slots |-> IF s = TB THEN "tiebreaker" ELSE "available"]
    /\ by = [s \in Slots |-> NoTeam]
    /\ bans = [t \in Team |-> 0]
    /\ turn \in Team /\ nextPick = turn
    /\ current = NoSlot /\ ready = {} /\ available = {} /\ forceStart = FALSE
    /\ scores = [u \in Members |-> NoScore]
    /\ wins = [t \in Team |-> 0] /\ drawn = 0 /\ skipped = 0

-----------------------------------------------------------------------------
(* The steps the handlers are built from.                                  *)

\* finish_match: the verdict is written once, and a rated one that was not
\* cancelled goes through settle_ratings, which counts a game for everybody.
Finish(w, final, why) ==
    /\ stage' = final /\ deadline' = "none"
    /\ winner' = w /\ reason' = why
    /\ games' = IF Ranked /\ final = "ended" THEN games + 1 ELSE games

Cancel(why) == Finish(NoTeam, "cancelled", why)

\* start_draft
StartDraft ==
    /\ stage' = FirstStage /\ deadline' = "running" /\ turn' = nextPick
    /\ heard' = TRUE
    /\ UNCHANGED <<slots, by, bans, nextPick>>

\* The team that picks after this map: the one that does not pick it now.
NextPicker == Other(turn)

FreshScores == [u \in Members |-> NoScore]

\* select_map once the slots hold `statuses`: serve s, with a clean round.
ServeMap(statuses, s) ==
    /\ stage' = "ready" /\ deadline' = "running"
    /\ slots' = [statuses EXCEPT ![s] = "picked"]
    /\ by' = [by EXCEPT ![s] = IF s = TB THEN NoTeam ELSE turn]
    /\ nextPick' = NextPicker
    /\ current' = s /\ ready' = Bots /\ available' = {}
    /\ forceStart' = FALSE /\ scores' = FreshScores
    /\ UNCHANGED <<verdictVars, bans, turn>>

\* select_map of a beatmap deleted since the pool was made.
MapIsGone(statuses) ==
    /\ Cancel("beatmap gone")
    /\ slots' = statuses
    /\ UNCHANGED <<by, bans, turn, nextPick, roundVars>>

SelectMap(statuses, s) == ServeMap(statuses, s) \/ MapIsGone(statuses)

TargetPassed(n) == n > Target  \* Mutation
TargetReached(n) == n >= Target

\* Mutation: one team at match point is enough.
MatchPoint(points) == \E t \in Team : points[t] = Level
TiebreakerDue(points) == \A t \in Team : points[t] = Level

\* The draw limit counts every round of the history that nobody won.
DrawnOutEarly == drawn + skipped + 2 >= DrawLimit  \* Mutation
DrawnOut == drawn + skipped + 1 >= DrawLimit

UnmarkedSlots == slots  \* Mutation
PlayedSlots == [slots EXCEPT ![current] = "played"]

\* The round joins the history: w is its winner, or NoTeam; a forfeit is a round
\* that was not played.
CountRound(w, forfeit) ==
    /\ wins' = IF w = NoTeam THEN wins ELSE [wins EXCEPT ![w] = @ + 1]
    /\ drawn' = IF w = NoTeam /\ ~forfeit THEN drawn + 1 ELSE drawn
    /\ skipped' = IF w = NoTeam /\ forfeit /\ drawn + skipped < DrawLimit
                  THEN skipped + 1 ELSE skipped

LastRound(w, why) ==
    /\ Finish(w, "ended", why)
    /\ slots' = PlayedSlots
    /\ UNCHANGED <<by, bans, turn, nextPick, roundVars>>

BackToPicking ==
    /\ stage' = "picking" /\ deadline' = "running"
    /\ slots' = PlayedSlots /\ turn' = nextPick
    /\ UNCHANGED <<by, bans, nextPick, verdictVars, roundVars>>

\* complete_round: the match is won, or a drawn round is replayed until the draw
\* limit, or the tiebreaker is due, or the next map is picked.
CompleteRound(w, forfeit) ==
    /\ CountRound(w, forfeit)
    /\ IF \E t \in Team : TargetReached(wins'[t]) THEN LastRound(w, "")
       ELSE IF w = NoTeam /\ ~forfeit
       THEN IF DrawnOut THEN LastRound(NoTeam, "draws")
                        ELSE SelectMap(PlayedSlots, current)
       ELSE IF TiebreakerDue(wins') THEN SelectMap(PlayedSlots, TB)
                                    ELSE BackToPicking

\* Mutation: the ban phase ends when one team has used its bans.
AnyBansDone(counts) == \E t \in Team : counts[t] >= BansPerTeam
BansDone(counts) == \A t \in Team : counts[t] >= BansPerTeam

\* draft_action, ban
BanSlot(s) ==
    /\ stage = "banning"
    /\ slots[s] = "available"
    /\ slots' = [slots EXCEPT ![s] = "banned"]
    /\ by' = [by EXCEPT ![s] = turn]
    /\ bans' = [bans EXCEPT ![turn] = @ + 1]
    /\ IF BansDone(bans')
       THEN stage' = "picking" /\ turn' = nextPick
       ELSE stage' = "banning" /\ turn' = Other(turn)
    /\ deadline' = "running"
    /\ UNCHANGED <<nextPick, verdictVars, checkVars, netVars, roundVars,
                   tallyVars>>

\* draft_action, pick
PickSlot(s) ==
    /\ stage = "picking"
    /\ slots[s] = "available"
    /\ SelectMap(slots, s)
    /\ UNCHANGED <<checkVars, netVars, tallyVars>>

DraftSlot(s) == BanSlot(s) \/ PickSlot(s)

-----------------------------------------------------------------------------
(* What players do: match_action.                                          *)

CheckPassed(who) == Ranked /\ who = Members

\* Mutation: every acceptance renews the timer.
AcceptRenewing(u) ==
    /\ stage = "waiting"
    /\ u \notin Bots
    /\ accepted' = accepted \cup {u}
    /\ IF CheckPassed(accepted')
       THEN StartDraft /\ UNCHANGED <<connected, offline>>
       ELSE deadline' = "running" /\ UNCHANGED <<stage, netVars, draftVars>>
    /\ UNCHANGED <<verdictVars, penalised, roundVars, tallyVars>>

\* "ready" while the match waits.  The last acceptance of a ranked match
\* starts the draft.
Accept(u) ==
    /\ stage = "waiting"
    /\ u \notin Bots
    /\ accepted' = accepted \cup {u}
    /\ IF CheckPassed(accepted')
       THEN StartDraft /\ UNCHANGED <<connected, offline>>
       ELSE UNCHANGED <<stage, deadline, netVars, draftVars>>
    /\ UNCHANGED <<verdictVars, penalised, roundVars, tallyVars>>

\* "ready" and "unready" before a beatmap.
SetReady(u, on) ==
    /\ stage = "ready"
    /\ u \notin Bots
    /\ ready' = IF on THEN ready \cup {u} ELSE ready \ {u}
    /\ UNCHANGED <<stage, deadline, verdictVars, checkVars, netVars, draftVars,
                   current, available, forceStart, scores, tallyVars>>

\* "decline", which leave_queue sends too for a ranked match that waits.
Decline(u) ==
    /\ Ranked /\ stage = "waiting"
    /\ penalised' = penalised \cup {u}
    /\ Cancel("declined")
    /\ UNCHANGED <<accepted, netVars, draftVars, roundVars, tallyVars>>

\* "leave_match", which claiming another native room sends too.
LeaveMatch(u) ==
    /\ Open
    /\ u \notin Bots
    /\ Finish(Other(TeamOf(u)),
              IF stage = "waiting" THEN "cancelled" ELSE "ended", "left")
    /\ UNCHANGED <<checkVars, netVars, draftVars, roundVars, tallyVars>>

\* "custom_start" by the owner of a custom match.
CustomStart ==
    /\ ~Ranked /\ stage = "waiting"
    /\ StartDraft
    /\ UNCHANGED <<verdictVars, checkVars, connected, offline, roundVars,
                   tallyVars>>

\* "ban" and "pick" by the captain whose turn it is.
CaptainDrafts(s) ==
    /\ Captain(turn) \notin Bots
    /\ DraftSlot(s)

\* A score of this round's playlist item: its token was issued while the round
\* was played, and it may be submitted until the round is settled.  Later
\* attempts of the same player are ignored by settle_round.
SubmitScore(u, v) ==
    /\ stage \in {"playing", "results"}
    /\ u \notin Bots
    /\ scores[u] = NoScore
    /\ scores' = [scores EXCEPT ![u] = v]
    /\ UNCHANGED <<stage, deadline, verdictVars, checkVars, netVars, draftVars,
                   current, ready, available, forceStart, tallyVars>>

\* internal_bot_results: all bots at once, a different second report rejected.
BotResults(played) ==
    /\ ~Ranked /\ Bots # {}
    /\ stage \in {"playing", "results"}
    /\ \A b \in Bots : scores[b] = NoScore
    /\ scores' = [u \in Members |-> IF u \in Bots THEN played[u] ELSE scores[u]]
    /\ UNCHANGED <<stage, deadline, verdictVars, checkVars, netVars, draftVars,
                   current, ready, available, forceStart, tallyVars>>

-----------------------------------------------------------------------------
(* What the game server reports: room_event.                               *)

\* A member who is named has no reconnection timer any more, one who is missing
\* for the first time gets one, except while the match waits.
AwayTimersKept(conn) ==  \* Mutation
    [u \in Members |-> IF u \notin conn /\ offline[u] = "none" /\ stage # "waiting"
                      THEN "running" ELSE offline[u]]
AwayTimers(conn) ==
    [u \in Members |-> IF u \in conn THEN "none"
                      ELSE IF offline[u] = "none" /\ stage # "waiting"
                      THEN "running" ELSE offline[u]]

\* Every accepted report but an effective "aborted" refreshes who is there.  Who
\* holds the beatmap is only read before a round, and forgotten when a beatmap is
\* served: it is kept for that stage alone.
Hear(conn, avail, same) ==
    /\ connected' = conn
    /\ heard' = TRUE
    /\ available' = IF same /\ stage = "ready" THEN avail ELSE available
    /\ offline' = AwayTimers(conn)

\* A heartbeat, or an event that came too late for the stage it is about.
Pulse(conn, avail, same) ==
    /\ Open
    /\ Hear(conn, avail, same)
    /\ UNCHANGED <<stage, deadline, verdictVars, checkVars, draftVars,
                   current, ready, forceStart, scores, tallyVars>>

\* "started" is believed only when the report names every member connected,
\* ready and holding the beatmap, and the players agreed or were forced to.
Started ==
    /\ stage = "ready"
    /\ forceStart \/ ready = Members
    /\ Hear(Members, Members, TRUE)
    /\ stage' = "playing" /\ deadline' = "running"
    /\ UNCHANGED <<verdictVars, checkVars, draftVars, current, ready,
                   forceStart, scores, tallyVars>>

\* "completed"
Completed(conn, avail) ==
    /\ stage = "playing"
    /\ Hear(conn, avail, TRUE)
    /\ stage' = "results" /\ deadline' = "running"
    /\ UNCHANGED <<verdictVars, checkVars, draftVars, current, ready,
                   forceStart, scores, tallyVars>>

\* "aborted": the round is skipped; the report says nothing of who is there.
Aborted ==
    /\ stage \in {"ready", "playing", "results"}
    /\ CompleteRound(NoTeam, TRUE)
    /\ UNCHANGED <<checkVars, netVars>>

-----------------------------------------------------------------------------
(* The tick: tick_match, whose first applicable branch is taken.           *)

ServerLost == stage # "waiting" /\ ~heard
GoneTeams == {t \in Team : \E u \in Roster(t) : offline[u] = "due"}
BotTurn == /\ stage \in {"banning", "picking"}
           /\ Captain(turn) \in Bots
           /\ Playable # {}

TickServerLost ==
    /\ Open /\ ServerLost
    /\ Cancel("server lost")
    /\ UNCHANGED <<checkVars, netVars, draftVars, roundVars, tallyVars>>

TickOffline ==
    /\ Open /\ ~ServerLost
    /\ \/ /\ GoneTeams = Team
          /\ Cancel("reconnection")
       \/ \E t \in Team : /\ GoneTeams = {t}
                          /\ Finish(Other(t), "ended", "reconnection")
    /\ UNCHANGED <<checkVars, netVars, draftVars, roundVars, tallyVars>>

Quiet == Open /\ ~ServerLost /\ GoneTeams = {}

TickBotDraft(s) ==
    /\ Quiet /\ BotTurn
    /\ DraftSlot(s)

\* settle_round: a missing score counts 0, but only once the deadline is due.
Points(u) == IF scores[u] = NoScore THEN 0 ELSE scores[u]
Total(t) == MapThenSumSet(Points, Roster(t))
RoundWinner == IF Total(0) > Total(1) THEN 0
               ELSE IF Total(1) > Total(0) THEN 1 ELSE NoTeam

AllScored == \A u \in Members : scores[u] # NoScore  \* Mutation
Settleable == deadline = "due" \/ \A u \in Members : scores[u] # NoScore

TickResults ==
    /\ Quiet /\ stage = "results"
    /\ Settleable
    /\ CompleteRound(RoundWinner, FALSE)
    /\ UNCHANGED <<checkVars, netVars>>

EveryMember == Members  \* Mutation
Missing == Members \ accepted

TickWaiting ==
    /\ Quiet /\ deadline = "due" /\ stage = "waiting"
    /\ penalised' = IF Ranked THEN penalised \cup Missing
                    ELSE penalised
    /\ Cancel("not accepted")
    /\ UNCHANGED <<accepted, netVars, draftVars, roundVars, tallyVars>>

\* The captain's time is up: the first slot left is taken.
TickDraft ==
    /\ Quiet /\ deadline = "due" /\ ~BotTurn
    /\ stage \in {"banning", "picking"}
    /\ \/ \E s \in Slots : FirstPlayable(s) /\ DraftSlot(s)
       \/ /\ Playable = {}
          /\ Cancel("pool empty")
          /\ UNCHANGED <<checkVars, netVars, draftVars, roundVars, tallyVars>>

UnpreparedButAway ==  \* Mutation
    {t \in Team : ~(Roster(t) \subseteq available)}

\* Teams with a member who is away or has no beatmap.
Unprepared ==
    {t \in Team : ~(Roster(t) \subseteq (available \cap connected))}

\* The ready timer: a team that is not prepared loses the round, nobody wins
\* when neither is or when the forced start was never confirmed; two prepared
\* teams are started by force.
TickReady ==
    /\ Quiet /\ deadline = "due" /\ stage = "ready"
    /\ \/ /\ Unprepared # {} \/ forceStart
          /\ CompleteRound(IF Unprepared = {0} THEN 1
                           ELSE IF Unprepared = {1} THEN 0 ELSE NoTeam, TRUE)
       \/ /\ Unprepared = {} /\ ~forceStart
          /\ forceStart' = TRUE /\ deadline' = "running"
          /\ UNCHANGED <<stage, verdictVars, draftVars, current, ready,
                         available, scores, tallyVars>>
    /\ UNCHANGED <<checkVars, netVars>>

TickPlaying ==
    /\ Quiet /\ deadline = "due" /\ stage = "playing"
    /\ Cancel("too long")
    /\ UNCHANGED <<checkVars, netVars, draftVars, roundVars, tallyVars>>

Tick == \/ TickServerLost \/ TickOffline \/ TickResults \/ TickWaiting
        \/ TickDraft \/ TickReady \/ TickPlaying
        \/ \E s \in Slots : TickBotDraft(s)

-----------------------------------------------------------------------------
(* Time.                                                                   *)

DeadlinePasses ==
    /\ deadline = "running"
    /\ deadline' = "due"
    /\ UNCHANGED <<stage, verdictVars, checkVars, netVars, draftVars,
                   roundVars, tallyVars>>

\* 120 seconds since a member was first reported missing.
ReconnectExpires(u) ==
    /\ Open
    /\ offline[u] = "running"
    /\ offline' = [offline EXCEPT ![u] = "due"]
    /\ UNCHANGED <<stage, deadline, verdictVars, checkVars, connected, heard,
                   draftVars, roundVars, tallyVars>>

\* 90 seconds without a report.
ServerGoesSilent ==
    /\ Open
    /\ heard /\ heard' = FALSE
    /\ UNCHANGED <<stage, deadline, verdictVars, checkVars, connected, offline,
                   draftVars, roundVars, tallyVars>>

-----------------------------------------------------------------------------
Time == \/ DeadlinePasses \/ ServerGoesSilent
        \/ \E u \in Members : ReconnectExpires(u)

PlayerActs ==
    \/ \E u \in Members : \/ Accept(u) \/ Decline(u) \/ LeaveMatch(u)
                          \/ \E on \in BOOLEAN : SetReady(u, on)
                          \/ \E v \in Scores : SubmitScore(u, v)
    \/ \E s \in Slots : CaptainDrafts(s)
    \/ CustomStart

ServerReports ==
    \/ \E conn \in Connections : \E avail \in SUBSET conn :
          \/ \E same \in BOOLEAN : Pulse(conn, avail, same)
          \/ Completed(conn, avail)
    \/ Started \/ Aborted
    \/ \E played \in [Bots -> Scores] : BotResults(played)

Next == PlayerActs \/ ServerReports \/ Tick \/ Time

\* The scheduler runs tick_match every two seconds and every timer that is left
\* running runs out; nothing is assumed of the players or of the game server.
Fairness == /\ WF_vars(Tick) /\ WF_vars(DeadlinePasses)
            /\ \A u \in Members : WF_vars(ReconnectExpires(u))

Spec == Init /\ [][Next]_vars
FairSpec == Spec /\ Fairness

-----------------------------------------------------------------------------
(* Correctness.                                                            *)

\* A match that reached its target is over and belongs to that team, and no
\* team ever goes beyond the target (complete_round, finish_match).
TargetDecides ==
    \A t \in Team :
        /\ wins[t] <= Target
        /\ wins[t] = Target => stage = "ended" /\ winner = t /\ reason = ""

\* The reason a match is ended for agrees with what happened in it: a plain
\* end has a team at the target, a draw took DrawLimit rounds without a winner,
\* a walkover names a winner (complete_round, finish_match).
VerdictExplained ==
    stage = "ended" =>
        /\ reason \in {"", "draws", "left", "reconnection"}
        /\ reason = "" => winner \in Team /\ wins[winner] = Target
        /\ reason = "draws" => winner = NoTeam /\ drawn + skipped >= DrawLimit
        /\ reason \in {"left", "reconnection"} => winner \in Team

\* settle_ratings runs once, for a ranked match that ended, and for no match
\* that was cancelled, whichever of the dozen callers of finish_match ended it.
RatedOnce == games = IF Ranked /\ stage = "ended" THEN 1 ELSE 0

\* A ranked match is drafted, played and rated only when every member accepted.
AcceptedBeforeDraft ==
    Ranked /\ stage \notin {"waiting", "cancelled"} => accepted = Members

\* Penalties fall only on a ranked ready check that failed, before anything
\* was drafted; when it timed out, on exactly those who had not accepted
\* (penalise_unaccepted).
PenaltiesDeserved ==
    /\ penalised # {} => /\ Ranked /\ stage = "cancelled"
                         /\ reason \in {"declined", "not accepted"}
                         /\ \A s \in Slots : by[s] = NoTeam
    /\ Ranked /\ reason = "not accepted" =>
           penalised = Members \ accepted /\ penalised # {}

BannedBy(t) == {s \in Slots : slots[s] = "banned" /\ by[s] = t}

\* The ban phase: the teams ban in turn, nobody picks before both used all of
\* their bans, and the slots marked banned are the bans that were made.
DraftOrder ==
    /\ \A t \in Team : /\ bans[t] = Cardinality(BannedBy(t))
                       /\ bans[t] <= BansPerTeam
    /\ stage = "waiting" => \A t \in Team : bans[t] = 0
    /\ stage = "banning" =>
           bans[nextPick] = bans[Other(nextPick)] + (IF turn = nextPick THEN 0 ELSE 1)
    /\ stage \in {"picking", "ready", "playing", "results"} =>
           \A t \in Team : bans[t] = BansPerTeam

\* Exactly one slot is being played from the moment a map is served until its
\* round is completed, and it is the current one.
OneRoundAtATime ==
    ~Final => {s \in Slots : slots[s] = "picked"} =
                 IF stage \in {"ready", "playing", "results"} THEN {current} ELSE {}

\* The tiebreaker is nobody's pick and is served only when both teams are one
\* round from winning; then nothing else can be picked.
TiebreakerDiscipline ==
    /\ by[TB] = NoTeam /\ slots[TB] \in {"tiebreaker", "picked", "played"}
    /\ slots[TB] # "tiebreaker" => /\ current = TB
                                   /\ \A t \in Team : wins[t] >= Level
    /\ stage = "picking" => \E t \in Team : wins[t] < Level

PickedBy(t) == {s \in Slots : slots[s] \in {"picked", "played"} /\ by[s] = t}

\* Picks alternate over the whole match, however rounds were resolved: replayed
\* after a draw, skipped, lost by forfeit.
PicksAlternate ==
    LET lead == Cardinality(PickedBy(0)) - Cardinality(PickedBy(1))
    IN /\ lead \in {-1, 0, 1}
       /\ stage = "picking" =>
              lead # (IF turn = 0 THEN 1 ELSE -1)

\* The draft keeps its order and its fairness over the whole match: bans in
\* turn before any pick, picks in turn after (draft_action, select_map).
DraftDiscipline == DraftOrder /\ PicksAlternate

\* A round starts without a score, so nothing a player set in an earlier round
\* or in a drawn attempt of the same beatmap can decide it; it is only played
\* after everybody agreed or was forced (select_map, room_event).
RoundsStartClean ==
    /\ stage = "ready" => \A u \in Members : scores[u] = NoScore
    /\ stage \in {"playing", "results"} => forceStart \/ ready = Members

\* Ended and cancelled matches never change again: a late score, report, click
\* or tick finds the match final and leaves its verdict and ratings alone.
FinalIsForever == [][Final => UNCHANGED vars]_vars

Prepared(t) == Roster(t) \subseteq available \cap connected
PointEarned(t) ==
    \/ stage = "results" /\ Total(t) > Total(Other(t))
    \/ stage = "ready" /\ deadline = "due" /\ Prepared(t) /\ ~Prepared(Other(t))

\* A step gives at most one point, and only to the team with the higher total
\* of a finished round, or to a team whose members were all connected with the
\* beatmap, against one of which somebody was not, when the ready timer ran out.
PointsAreEarned ==
    [][wins' # wins =>
           \E t \in Team : /\ wins' = [wins EXCEPT ![t] = @ + 1]
                           /\ PointEarned(t)]_vars

\* Nobody is timed out of a match while the game server still reports them:
\* the reconnection verdict goes against a team with an absent member only.
WalkoversAreJust ==
    [][reason' = "reconnection" /\ reason = "" =>
           \A t \in Team : (stage' = "cancelled" \/ winner' = Other(t)) =>
               \E u \in Roster(t) : u \notin connected]_vars

\* A ready check ends, whatever its members click: answers do not renew its
\* timer (tick_match, waiting).
WaitingEnds == stage = "waiting" ~> stage # "waiting"

\* A match whose game server fell silent is cancelled, unless it speaks again
\* (tick_match, server lost).
SilenceEnds == stage # "waiting" /\ ~heard ~> heard \/ Final

\* A member who did not return within the reconnection time ends the match in
\* any stage, unless they return before the tick (tick_match, offline).
AbsenceEnds ==
    \A u \in Members : offline[u] = "due" ~> offline[u] # "due" \/ Final

\* No wait of a match lasts for ever: not the ready check, not the wait for a
\* silent game server, not the one for an absent member (tick_match).
EveryWaitEnds == WaitingEnds /\ SilenceEnds /\ AbsenceEnds

\* Every match ends, or replays an unattended tiebreaker for ever: a round of
\* the tiebreaker that nobody can start is skipped, and skipped rounds do not
\* lead to a draw.
TerminatesOrRepeatsTiebreaker ==
    <>Final \/ []<>(stage = "ready" /\ current = TB)

\* The match as its teams see it.
Phase == IF stage = "waiting" THEN "offered"
         ELSE IF stage = "ended" THEN "decided"
         ELSE IF stage = "cancelled" THEN "annulled" ELSE "live"
Champion == IF stage = "ended" THEN winner ELSE NoTeam
Blanks == drawn + skipped
Contract == INSTANCE MatchContract WITH
    Goal <- Target, BlankLimit <- DrawLimit, Counts <- Ranked,
    phase <- Phase, champion <- Champion, rated <- games, score <- wins,
    blanks <- Blanks

\* The match implements its contract: however it gets there, it is decided or
\* annulled once, by the target, a walkover or enough rounds that nobody won,
\* and is rated accordingly (finish_match, complete_round).
KeepsContract == Contract!ContractSpec

=============================================================================
