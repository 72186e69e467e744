------------------------- MODULE SomsaiMatch_proofs -------------------------
(***************************************************************************)
(* Proofs about SomsaiMatch, for every roster, pool and set of inputs that *)
(* its assumptions allow.                                                  *)
(***************************************************************************)
EXTENDS SomsaiMatch, FiniteSetTheorems, TLAPS

\* An odd best_of: the target is one more than the level that calls the
\* tiebreaker, so both teams at the level are one round from winning.
LEMMA PoolFacts ==
    /\ Level \in Nat /\ Target \in Nat /\ Target = Level + 1 /\ Level >= 1
    /\ TB \in Slots /\ NoSlot \notin Slots /\ Regular \subseteq Slots
  BY PoolAssumption DEF Level, Target, TB, Slots, NoSlot, Regular

\* Teams and members.
LEMMA TeamFacts ==
    /\ \A t \in Team : Other(t) \in Team /\ Other(t) # t /\ Other(Other(t)) = t
    /\ NoTeam \notin Team
    /\ \A u : TeamOf(u) \in Team
    /\ Bots \subseteq Members
    /\ RoundWinner \in Team \cup {NoTeam}
  BY RosterAssumption
     DEF Team, Other, NoTeam, TeamOf, Members, RoundWinner

-----------------------------------------------------------------------------
(* The building blocks keep the types of the variables they set.           *)

\* finish_match
LEMMA FinishType ==
    ASSUME LifeOK, NEW w \in Team \cup {NoTeam}, NEW final \in FinalStages,
           NEW why \in Reasons, Finish(w, final, why)
    PROVE  LifeOK'
  BY DEF LifeOK, Finish, FinalStages, Stages, Timers

\* finish_match, cancelled
LEMMA CancelType ==
    ASSUME LifeOK, NEW why \in Reasons, Cancel(why)
    PROVE  LifeOK'
  BY FinishType DEF Cancel, FinalStages

\* start_draft
LEMMA StartDraftType ==
    ASSUME LifeOK, DraftOK, StartDraft, UNCHANGED verdictVars
    PROVE  LifeOK' /\ DraftOK' /\ heard' \in BOOLEAN
  BY DEF LifeOK, DraftOK, StartDraft, FirstStage, Stages, Timers, verdictVars

\* select_map, also for the NoSlot that no reachable round has.
LEMMA ServeMapType ==
    ASSUME LifeOK, DraftOK, RoundOK,
           NEW statuses \in [Slots -> Statuses], NEW s \in Slots \cup {NoSlot},
           ServeMap(statuses, s)
    PROVE  LifeOK' /\ DraftOK' /\ RoundOK'
  <1>1. LifeOK'
    BY DEF ServeMap, LifeOK, Stages, Timers, verdictVars
  <1>2. slots' \in [Slots -> Statuses] /\ by' \in [Slots -> Team \cup {NoTeam}]
    BY DEF ServeMap, DraftOK, Statuses
  <1>3. bans' \in [Team -> Nat] /\ turn' \in Team /\ nextPick' \in Team
    BY TeamFacts DEF ServeMap, DraftOK, NextPicker
  <1>4. RoundOK'
    BY TeamFacts DEF ServeMap, RoundOK, FreshScores
  <1> QED BY <1>1, <1>2, <1>3, <1>4 DEF DraftOK

LEMMA MapIsGoneType ==
    ASSUME LifeOK, DraftOK, RoundOK,
           NEW statuses \in [Slots -> Statuses], MapIsGone(statuses)
    PROVE  LifeOK' /\ DraftOK' /\ RoundOK'
  <1>1. LifeOK'
    BY CancelType DEF MapIsGone, Reasons
  <1> QED BY <1>1 DEF MapIsGone, DraftOK, RoundOK, roundVars

LEMMA SelectMapType ==
    ASSUME LifeOK, DraftOK, RoundOK,
           NEW statuses \in [Slots -> Statuses], NEW s \in Slots \cup {NoSlot},
           SelectMap(statuses, s)
    PROVE  LifeOK' /\ DraftOK' /\ RoundOK'
  BY ServeMapType, MapIsGoneType DEF SelectMap

\* complete_round
LEMMA CompleteRoundType ==
    ASSUME LifeOK, DraftOK, RoundOK, TallyOK,
           NEW w \in Team \cup {NoTeam}, NEW forfeit \in BOOLEAN,
           CompleteRound(w, forfeit)
    PROVE  LifeOK' /\ DraftOK' /\ RoundOK' /\ TallyOK'
  <1>0. CountRound(w, forfeit)
    BY DEF CompleteRound
  <1>1. TallyOK'
    <2>1. wins' \in [Team -> Nat]
      BY <1>0 DEF CountRound, TallyOK
    <2>2. drawn' = drawn \/ drawn' = drawn + 1
      BY <1>0 DEF CountRound
    <2>3. skipped' = skipped \/ skipped' = skipped + 1
      BY <1>0 DEF CountRound
    <2> QED BY <2>1, <2>2, <2>3 DEF TallyOK
  <1>2. PlayedSlots \in [Slots -> Statuses]
    BY DEF PlayedSlots, DraftOK, Statuses
  <1>3. CASE SelectMap(PlayedSlots, current) \/ SelectMap(PlayedSlots, TB)
    BY <1>1, <1>2, <1>3, SelectMapType, PoolFacts DEF RoundOK
  <1>4. ASSUME NEW v \in Team \cup {NoTeam}, NEW why \in Reasons, LastRound(v, why)
        PROVE  LifeOK' /\ DraftOK' /\ RoundOK'
    <2>1. LifeOK'
      BY <1>4, FinishType DEF LastRound, FinalStages
    <2> QED BY <1>2, <1>4, <2>1 DEF LastRound, DraftOK, RoundOK, roundVars
  <1>5. CASE BackToPicking
    <2>1. LifeOK'
      BY <1>5 DEF BackToPicking, LifeOK, Stages, Timers, verdictVars
    <2> QED BY <1>1, <1>2, <1>5, <2>1
            DEF BackToPicking, DraftOK, RoundOK, roundVars
  <1> QED BY <1>1, <1>3, <1>4, <1>5 DEF CompleteRound, Reasons

\* draft_action
LEMMA DraftSlotType ==
    ASSUME TypeOK, NEW s \in Slots, DraftSlot(s)
    PROVE  TypeOK'
  <1>1. CASE BanSlot(s)
    <2>1. LifeOK'
      BY <1>1 DEF TypeOK, BanSlot, LifeOK, Stages, Timers, verdictVars
    <2>2. DraftOK'
      BY <1>1, TeamFacts DEF TypeOK, BanSlot, DraftOK, Statuses
    <2>3. CheckOK' /\ NetOK' /\ RoundOK' /\ TallyOK'
      BY <1>1 DEF TypeOK, BanSlot, CheckOK, NetOK, RoundOK, TallyOK,
                  checkVars, netVars, roundVars, tallyVars
    <2> QED BY <2>1, <2>2, <2>3 DEF TypeOK
  <1>2. CASE PickSlot(s)
    <2>1. SelectMap(slots, s) /\ UNCHANGED <<checkVars, netVars, tallyVars>>
      BY <1>2 DEF PickSlot
    <2>2. slots \in [Slots -> Statuses]
      BY DEF TypeOK, DraftOK
    <2>3. LifeOK' /\ DraftOK' /\ RoundOK'
      BY <2>1, <2>2, SelectMapType DEF TypeOK
    <2>4. CheckOK' /\ NetOK' /\ TallyOK'
      BY <2>1 DEF TypeOK, CheckOK, NetOK, TallyOK, checkVars, netVars, tallyVars
    <2> QED BY <2>3, <2>4 DEF TypeOK
  <1> QED BY <1>1, <1>2 DEF DraftSlot

-----------------------------------------------------------------------------
(* Type correctness.                                                       *)

\* The initial state of a match is well typed.
LEMMA TypeInit == Init => TypeOK
  <1> SUFFICES ASSUME Init PROVE TypeOK
    OBVIOUS
  <1>1. LifeOK /\ CheckOK /\ NetOK /\ TallyOK
    BY DEF Init, LifeOK, CheckOK, NetOK, TallyOK, Stages, FinalStages, Timers,
           Reasons, FirstStage, Team
  <1>2. DraftOK
    BY DEF Init, DraftOK, Statuses, Team
  <1>3. RoundOK
    BY DEF Init, RoundOK
  <1> QED BY <1>1, <1>2, <1>3 DEF TypeOK

\* The actions that leave the draft, the round and the tally alone and may end
\* the match.
LEMMA EndingType ==
    ASSUME TypeOK, LifeOK', CheckOK',
           UNCHANGED <<netVars, draftVars, roundVars, tallyVars>>
    PROVE  TypeOK'
  BY DEF TypeOK, NetOK, DraftOK, RoundOK, TallyOK,
         netVars, draftVars, roundVars, tallyVars

\* The actions of the game server's reports that change the stage at most.
LEMMA ReportType ==
    ASSUME TypeOK, LifeOK', NEW conn \in Connections, NEW avail \in SUBSET conn,
           NEW same \in BOOLEAN, Hear(conn, avail, same),
           UNCHANGED <<checkVars, draftVars, current, ready, forceStart, scores,
                       tallyVars>>
    PROVE  TypeOK'
  <1>1. conn \subseteq Members
    BY InputAssumption
  <1>2. NetOK'
    <2>1. offline' \in [Members -> Timers]
      BY DEF Hear, AwayTimers, TypeOK, NetOK, Timers
    <2> QED BY <1>1, <2>1 DEF Hear, NetOK
  <1>3. available' \subseteq Members
    BY <1>1 DEF Hear, TypeOK, RoundOK
  <1> QED BY <1>2, <1>3 DEF TypeOK, CheckOK, DraftOK, RoundOK, TallyOK,
                            checkVars, draftVars, tallyVars

\* A completed round keeps the types, whoever completed it.
LEMMA RoundType ==
    ASSUME TypeOK, NEW w \in Team \cup {NoTeam}, NEW forfeit \in BOOLEAN,
           CompleteRound(w, forfeit), UNCHANGED <<checkVars, netVars>>
    PROVE  TypeOK'
  <1>1. LifeOK' /\ DraftOK' /\ RoundOK' /\ TallyOK'
    BY CompleteRoundType DEF TypeOK
  <1> QED BY <1>1 DEF TypeOK, CheckOK, NetOK, checkVars, netVars

\* Every step of every participant keeps the types.
LEMMA TypeStep == TypeOK /\ [Next]_vars => TypeOK'
  <1> SUFFICES ASSUME TypeOK, [Next]_vars PROVE TypeOK'
    OBVIOUS
  <1> USE DEF Reasons
  <1>1. ASSUME NEW u \in Members, Accept(u) PROVE TypeOK'
    <2>1. CheckOK'
      BY <1>1 DEF Accept, TypeOK, CheckOK
    <2>2. CASE CheckPassed(accepted')
      <3>1. LifeOK' /\ DraftOK' /\ heard' \in BOOLEAN
        BY <1>1, <2>2, StartDraftType DEF Accept, TypeOK
      <3> QED BY <1>1, <2>1, <2>2, <3>1
              DEF Accept, TypeOK, NetOK, RoundOK, TallyOK, roundVars, tallyVars
    <2>3. CASE ~CheckPassed(accepted')
      BY <1>1, <2>1, <2>3
         DEF Accept, TypeOK, LifeOK, NetOK, DraftOK, RoundOK, TallyOK,
             verdictVars, netVars, draftVars, roundVars, tallyVars
    <2> QED BY <2>2, <2>3
  <1>2. ASSUME NEW u \in Members, NEW on \in BOOLEAN, SetReady(u, on) PROVE TypeOK'
    <2>1. ready' \subseteq Members
      BY <1>2 DEF SetReady, TypeOK, RoundOK
    <2> QED BY <1>2, <2>1
            DEF SetReady, TypeOK, LifeOK, CheckOK, NetOK, DraftOK, RoundOK, TallyOK,
                verdictVars, checkVars, netVars, draftVars, tallyVars
  <1>3. ASSUME NEW u \in Members, Decline(u) PROVE TypeOK'
    <2>1. LifeOK'
      BY <1>3, CancelType DEF Decline, TypeOK
    <2>2. CheckOK'
      BY <1>3 DEF Decline, TypeOK, CheckOK
    <2> QED BY <1>3, <2>1, <2>2, EndingType DEF Decline
  <1>4. ASSUME NEW u \in Members, LeaveMatch(u) PROVE TypeOK'
    <2>1. LifeOK'
      BY <1>4, FinishType, TeamFacts DEF LeaveMatch, TypeOK, FinalStages
    <2>2. CheckOK'
      BY <1>4 DEF LeaveMatch, TypeOK, CheckOK, checkVars
    <2> QED BY <1>4, <2>1, <2>2, EndingType DEF LeaveMatch
  <1>5. ASSUME CustomStart PROVE TypeOK'
    <2>1. LifeOK' /\ DraftOK' /\ heard' \in BOOLEAN
      BY <1>5, StartDraftType DEF CustomStart, TypeOK
    <2> QED BY <1>5, <2>1
            DEF CustomStart, TypeOK, CheckOK, NetOK, RoundOK, TallyOK,
                checkVars, roundVars, tallyVars
  <1>6. ASSUME NEW s \in Slots, DraftSlot(s) PROVE TypeOK'
    BY <1>6, DraftSlotType
  <1>7. ASSUME NEW u \in Members, NEW v \in Scores, SubmitScore(u, v) PROVE TypeOK'
    BY <1>7 DEF SubmitScore, TypeOK, LifeOK, CheckOK, NetOK, DraftOK, RoundOK, TallyOK,
                verdictVars, checkVars, netVars, draftVars, tallyVars
  <1>8. ASSUME NEW played \in [Bots -> Scores], BotResults(played) PROVE TypeOK'
    <2>1. scores' \in [Members -> Scores \cup {NoScore}]
      BY <1>8 DEF BotResults, TypeOK, RoundOK
    <2> QED BY <1>8, <2>1
            DEF BotResults, TypeOK, LifeOK, CheckOK, NetOK, DraftOK, RoundOK, TallyOK,
                verdictVars, checkVars, netVars, draftVars, tallyVars
  <1>9. ASSUME NEW conn \in Connections, NEW avail \in SUBSET conn, NEW same \in BOOLEAN,
               Pulse(conn, avail, same)
        PROVE  TypeOK'
    <2>1. LifeOK'
      BY <1>9 DEF Pulse, TypeOK, LifeOK, verdictVars
    <2> QED BY <1>9, <2>1, ReportType DEF Pulse
  <1>10. ASSUME Started PROVE TypeOK'
    <2>1. LifeOK'
      BY <1>10 DEF Started, TypeOK, LifeOK, Stages, Timers, verdictVars
    <2>2. Members \in Connections /\ Members \in SUBSET Members
      BY InputAssumption
    <2> QED BY <1>10, <2>1, <2>2, ReportType DEF Started
  <1>11. ASSUME NEW conn \in Connections, NEW avail \in SUBSET conn,
                Completed(conn, avail)
         PROVE  TypeOK'
    <2>1. LifeOK'
      BY <1>11 DEF Completed, TypeOK, LifeOK, Stages, Timers, verdictVars
    <2> QED BY <1>11, <2>1, ReportType DEF Completed
  <1>12. ASSUME Aborted PROVE TypeOK'
    BY <1>12, RoundType DEF Aborted
  <1>13. ASSUME TickServerLost PROVE TypeOK'
    <2>1. LifeOK' /\ CheckOK'
      BY <1>13, CancelType DEF TickServerLost, TypeOK, CheckOK, checkVars
    <2> QED BY <1>13, <2>1, EndingType DEF TickServerLost
  <1>14. ASSUME TickOffline PROVE TypeOK'
    <2>1. LifeOK'
      BY <1>14, CancelType, FinishType, TeamFacts
         DEF TickOffline, TypeOK, FinalStages
    <2>2. CheckOK'
      BY <1>14 DEF TickOffline, TypeOK, CheckOK, checkVars
    <2> QED BY <1>14, <2>1, <2>2, EndingType DEF TickOffline
  <1>15. ASSUME TickResults PROVE TypeOK'
    BY <1>15, RoundType, TeamFacts DEF TickResults
  <1>16. ASSUME TickWaiting PROVE TypeOK'
    <2>1. LifeOK'
      BY <1>16, CancelType DEF TickWaiting, TypeOK
    <2>2. CheckOK'
      BY <1>16 DEF TickWaiting, TypeOK, CheckOK, Missing
    <2> QED BY <1>16, <2>1, <2>2, EndingType DEF TickWaiting
  <1>17. ASSUME TickDraft PROVE TypeOK'
    <2>1. CASE \E s \in Slots : DraftSlot(s)
      BY <2>1, DraftSlotType
    <2>2. CASE /\ Cancel("pool empty")
               /\ UNCHANGED <<checkVars, netVars, draftVars, roundVars, tallyVars>>
      <3>1. LifeOK' /\ CheckOK'
        BY <2>2, CancelType DEF TypeOK, CheckOK, checkVars
      <3> QED BY <2>2, <3>1, EndingType
    <2> QED BY <1>17, <2>1, <2>2 DEF TickDraft
  <1>18. ASSUME TickReady PROVE TypeOK'
    <2>1. CASE \E w \in Team \cup {NoTeam} : CompleteRound(w, TRUE)
      BY <1>18, <2>1, RoundType DEF TickReady
    <2>2. CASE /\ forceStart' = TRUE /\ deadline' = "running"
               /\ UNCHANGED <<stage, verdictVars, draftVars, current, ready,
                               available, scores, tallyVars>>
      BY <1>18, <2>2
         DEF TickReady, TypeOK, LifeOK, CheckOK, NetOK, DraftOK, RoundOK, TallyOK,
             Timers, verdictVars, checkVars, netVars, draftVars, tallyVars
    <2> QED BY <1>18, <2>1, <2>2 DEF TickReady, Team
  <1>19. ASSUME TickPlaying PROVE TypeOK'
    <2>1. LifeOK' /\ CheckOK'
      BY <1>19, CancelType DEF TickPlaying, TypeOK, CheckOK, checkVars
    <2> QED BY <1>19, <2>1, EndingType DEF TickPlaying
  <1>20. ASSUME Time PROVE TypeOK'
    <2>1. LifeOK'
      BY <1>20 DEF Time, DeadlinePasses, ReconnectExpires, ServerGoesSilent,
                   TypeOK, LifeOK, Timers, verdictVars
    <2>2. NetOK'
      BY <1>20 DEF Time, DeadlinePasses, ReconnectExpires, ServerGoesSilent,
                   TypeOK, NetOK, Timers, netVars
    <2>3. UNCHANGED <<checkVars, draftVars, roundVars, tallyVars>>
      BY <1>20 DEF Time, DeadlinePasses, ReconnectExpires, ServerGoesSilent
    <2> QED BY <2>1, <2>2, <2>3
            DEF TypeOK, CheckOK, DraftOK, RoundOK, TallyOK,
                checkVars, draftVars, roundVars, tallyVars
  <1>21. CASE UNCHANGED vars
    BY <1>21 DEF vars, TypeOK, LifeOK, CheckOK, NetOK, DraftOK, RoundOK, TallyOK,
                 verdictVars, checkVars, netVars, draftVars, roundVars, tallyVars
  <1>22. CASE PlayerActs
    BY <1>22, <1>1, <1>2, <1>3, <1>4, <1>5, <1>6, <1>7 DEF PlayerActs, CaptainDrafts
  <1>23. CASE ServerReports
    BY <1>23, <1>8, <1>9, <1>10, <1>11, <1>12 DEF ServerReports
  <1>24. CASE Tick
    BY <1>24, <1>6, <1>13, <1>14, <1>15, <1>16, <1>17, <1>18, <1>19
       DEF Tick, TickBotDraft
  <1> QED BY <1>20, <1>21, <1>22, <1>23, <1>24 DEF Next

\* Every reachable state of every match is well typed: the timers, the draft
\* columns, the scores and the tallies hold what the code stores there.
THEOREM TypeCorrect == Spec => []TypeOK
  BY TypeInit, TypeStep, PTL DEF Spec

-----------------------------------------------------------------------------
(* The shapes of a step.  What a step can disturb depends only on its      *)
(* shape, so each invariant below is proved shape by shape.                *)

InRound == stage \in {"ready", "playing", "results"}

\* Something is noted, and the match goes on where it is.
Calm ==
    /\ UNCHANGED <<stage, verdictVars, penalised, draftVars, current, tallyVars>>
    /\ stage # "waiting" => UNCHANGED accepted
    /\ stage = "waiting" /\ Ranked => accepted' = accepted \/ accepted' # Members
    /\ stage = "waiting" => UNCHANGED offline
    /\ stage = "ready" => UNCHANGED scores
    /\ stage \in {"playing", "results"} => UNCHANGED <<forceStart, ready>>

\* The game server started or completed the map.
Advance ==
    /\ \/ /\ stage = "ready" /\ stage' = "playing"
          /\ forceStart \/ ready = Members
       \/ stage = "playing" /\ stage' = "results"
    /\ UNCHANGED <<verdictVars, checkVars, draftVars, current, ready, forceStart,
                   scores, tallyVars>>

\* The draft begins.
Opening ==
    /\ stage = "waiting" /\ stage' = FirstStage /\ turn' = nextPick
    /\ Ranked => accepted' = Members
    /\ UNCHANGED <<verdictVars, penalised, slots, by, bans, nextPick, current,
                   tallyVars>>

\* The match is over before its target: called off, or won by a walkover.
Stopped ==
    /\ \E w \in Team \cup {NoTeam}, final \in FinalStages, why \in Reasons :
          /\ Finish(w, final, why)
          /\ final = "ended" => /\ w \in Team /\ why \in {"left", "reconnection"}
                               /\ stage # "waiting"
          /\ why = "not accepted" => penalised' = IF Ranked THEN penalised \cup Missing
                                                           ELSE penalised
          /\ why = "not accepted" => stage = "waiting"
          /\ \/ UNCHANGED penalised
             \/ /\ Ranked /\ stage = "waiting" /\ final = "cancelled"
                /\ why \in {"declined", "not accepted"}
    /\ UNCHANGED <<accepted, draftVars, roundVars, tallyVars>>

Drafting == (\E s \in Slots : DraftSlot(s)) /\ UNCHANGED checkVars

\* The current round is completed.
Scoring ==
    /\ InRound
    /\ \E w \in Team \cup {NoTeam}, forfeit \in BOOLEAN :
          CompleteRound(w, forfeit) /\ (w \in Team => PointEarned(w))
    /\ UNCHANGED checkVars

\* What the shapes rest on: timers run only while somebody waits for them.
TimersMatter ==
    /\ Final => deadline = "none"
    /\ stage = "waiting" => offline = [u \in Members |-> "none"]

Shapes == Calm \/ Advance \/ Opening \/ Stopped \/ Drafting \/ Scoring

\* The verdict of the reconnection timers needs a match that has begun.
LEMMA NobodyGoneWhileWaiting ==
    ASSUME TypeOK, TimersMatter, GoneTeams # {}
    PROVE  stage # "waiting"
  BY RosterAssumption DEF TimersMatter, GoneTeams, Roster, Members, Team

\* The point of a forfeit goes to the prepared team against the other.
LEMMA ForfeitEarned ==
    ASSUME stage = "ready", deadline = "due", NEW t \in Team, Unprepared = {Other(t)}
    PROVE  PointEarned(t)
  <1>1. t \notin Unprepared /\ Other(t) \in Unprepared
    BY TeamFacts
  <1> QED BY <1>1, TeamFacts DEF PointEarned, Prepared, Unprepared

\* The point of a played round goes to the higher total.
LEMMA ResultEarned ==
    ASSUME stage = "results", RoundWinner \in Team
    PROVE  PointEarned(RoundWinner)
  BY DEF RoundWinner, PointEarned, Team, Other, NoTeam

\* Every step has one of the shapes, and starts in a match that is open.
LEMMA StepShapes == TypeOK /\ TimersMatter /\ Next => Open /\ Shapes
  <1> SUFFICES ASSUME TypeOK, TimersMatter, Next PROVE Open /\ Shapes
    OBVIOUS
  <1> USE DEF Reasons
  <1>1. ASSUME NEW u \in Members, Accept(u) PROVE Open /\ (Calm \/ Opening)
    BY <1>1 DEF Accept, CheckPassed, StartDraft, Calm, Opening, Open, Final,
                FinalStages, verdictVars, netVars, draftVars, roundVars, tallyVars
  <1>2. ASSUME NEW u \in Members, NEW on \in BOOLEAN, SetReady(u, on)
        PROVE  Open /\ Calm
    BY <1>2 DEF SetReady, Calm, Open, Final, FinalStages, verdictVars, checkVars,
                netVars, draftVars, tallyVars
  <1>3. ASSUME NEW u \in Members, Decline(u) PROVE Open /\ Stopped
    BY <1>3 DEF Decline, Cancel, Stopped, Open, Final, FinalStages
  <1>4. ASSUME NEW u \in Members, LeaveMatch(u) PROVE Open /\ Stopped
    BY <1>4, TeamFacts DEF LeaveMatch, Stopped, FinalStages, checkVars
  <1>5. ASSUME CustomStart PROVE Open /\ Opening
    BY <1>5, RosterAssumption
       DEF CustomStart, StartDraft, Opening, Open, Final, FinalStages, verdictVars,
           checkVars, roundVars, tallyVars
  <1>6. ASSUME NEW s \in Slots, DraftSlot(s) PROVE Open /\ Drafting
    BY <1>6 DEF DraftSlot, BanSlot, PickSlot, Drafting, Open, Final, FinalStages,
                checkVars
  <1>7. ASSUME NEW u \in Members, NEW v \in Scores, SubmitScore(u, v)
        PROVE  Open /\ Calm
    BY <1>7 DEF SubmitScore, Calm, Open, Final, FinalStages, verdictVars, checkVars,
                netVars, draftVars, tallyVars
  <1>8. ASSUME NEW played \in [Bots -> Scores], BotResults(played)
        PROVE  Open /\ Calm
    BY <1>8 DEF BotResults, Calm, Open, Final, FinalStages, verdictVars, checkVars,
                netVars, draftVars, tallyVars
  <1>9. ASSUME NEW conn \in Connections, NEW avail \in SUBSET conn, NEW same \in BOOLEAN,
               Pulse(conn, avail, same)
        PROVE  Open /\ Calm
    <2>1. stage = "waiting" => offline' = offline
      BY <1>9 DEF Pulse, Hear, AwayTimers, TimersMatter
    <2> QED BY <1>9, <2>1 DEF Pulse, Calm, verdictVars, checkVars, draftVars, tallyVars
  <1>10. ASSUME Started PROVE Open /\ Advance
    BY <1>10 DEF Started, Advance, Open, Final, FinalStages
  <1>11. ASSUME NEW conn \in Connections, NEW avail \in SUBSET conn,
                Completed(conn, avail)
         PROVE  Open /\ Advance
    BY <1>11 DEF Completed, Advance, Open, Final, FinalStages
  <1>12. ASSUME Aborted PROVE Open /\ Scoring
    <2>1. Open /\ InRound /\ CompleteRound(NoTeam, TRUE) /\ UNCHANGED checkVars
      BY <1>12 DEF Aborted, InRound, Open, Final, FinalStages
    <2> QED BY <2>1, TeamFacts DEF Scoring
  <1>13. ASSUME TickServerLost PROVE Open /\ Stopped
    BY <1>13 DEF TickServerLost, Cancel, Stopped, FinalStages, checkVars
  <1>14. ASSUME TickOffline PROVE Open /\ Stopped
    <2>1. CASE Cancel("reconnection")
      BY <1>14, <2>1 DEF TickOffline, Cancel, Stopped, FinalStages, checkVars
    <2>2. ASSUME NEW t \in Team, GoneTeams = {t}, Finish(Other(t), "ended", "reconnection")
          PROVE  Open /\ Stopped
      <3>1. stage # "waiting"
        BY <2>2, NobodyGoneWhileWaiting
      <3> QED BY <1>14, <2>2, <3>1, TeamFacts
              DEF TickOffline, Stopped, FinalStages, checkVars
    <2> QED BY <1>14, <2>1, <2>2 DEF TickOffline
  <1>15. ASSUME TickResults PROVE Open /\ Scoring
    BY <1>15, TeamFacts, ResultEarned
       DEF TickResults, Quiet, Scoring, InRound, checkVars
  <1>16. ASSUME TickWaiting PROVE Open /\ Stopped
    BY <1>16 DEF TickWaiting, Quiet, Cancel, Stopped, FinalStages
  <1>17. ASSUME TickDraft PROVE Open /\ (Drafting \/ Stopped)
    <2>1. CASE Cancel("pool empty")
               /\ UNCHANGED <<checkVars, netVars, draftVars, roundVars, tallyVars>>
      BY <1>17, <2>1 DEF TickDraft, Quiet, Cancel, Stopped, FinalStages, checkVars
    <2> QED BY <1>6, <1>17, <2>1 DEF TickDraft
  <1>18. ASSUME TickReady PROVE Open /\ (Scoring \/ Calm)
    <2> DEFINE w == IF Unprepared = {0} THEN 1
                    ELSE IF Unprepared = {1} THEN 0 ELSE NoTeam
    <2>1. CASE CompleteRound(w, TRUE)
      <3>1. w \in Team \cup {NoTeam} /\ stage = "ready" /\ deadline = "due" /\ Open
        BY <1>18 DEF TickReady, Quiet, Team
      <3>2. w \in Team => Unprepared = {Other(w)}
        BY DEF Team, Other, NoTeam
      <3>3. w \in Team => PointEarned(w)
        BY <3>1, <3>2, ForfeitEarned
      <3>4. UNCHANGED checkVars
        BY <1>18 DEF TickReady
      <3> HIDE DEF w
      <3> QED BY <2>1, <3>1, <3>3, <3>4 DEF Scoring, InRound
    <2>2. CASE ~CompleteRound(w, TRUE)
      BY <1>18, <2>2 DEF TickReady, Quiet, Calm, verdictVars, checkVars, netVars,
                         draftVars, tallyVars
    <2> QED BY <2>1, <2>2
  <1>19. ASSUME TickPlaying PROVE Open /\ Stopped
    BY <1>19 DEF TickPlaying, Quiet, Cancel, Stopped, FinalStages, checkVars
  <1>20. ASSUME Time PROVE Open /\ Calm
    <2>1. Open
      BY <1>20 DEF Time, DeadlinePasses, ReconnectExpires, ServerGoesSilent,
                   TimersMatter, Open
    <2>2. stage = "waiting" => UNCHANGED offline
      BY <1>20 DEF Time, DeadlinePasses, ReconnectExpires, ServerGoesSilent,
                   TimersMatter, netVars
    <2> QED BY <1>20, <2>1, <2>2
            DEF Time, DeadlinePasses, ReconnectExpires, ServerGoesSilent, Calm,
                verdictVars, checkVars, netVars, draftVars, roundVars, tallyVars
  <1>21. CASE PlayerActs
    BY <1>21, <1>1, <1>2, <1>3, <1>4, <1>5, <1>6, <1>7
       DEF PlayerActs, CaptainDrafts, Shapes
  <1>22. CASE ServerReports
    BY <1>22, <1>8, <1>9, <1>10, <1>11, <1>12 DEF ServerReports, Shapes
  <1>23. CASE Tick
    BY <1>23, <1>6, <1>13, <1>14, <1>15, <1>16, <1>17, <1>18, <1>19
       DEF Tick, TickBotDraft, Shapes
  <1> QED BY <1>20, <1>21, <1>22, <1>23 DEF Next, Shapes

-----------------------------------------------------------------------------
(* The verdict: the reason, the winner, the score and the ratings agree.    *)

\* What holds of an open match: there is no verdict yet, nobody was penalised
\* and nobody is past match point.
Undecided ==
    /\ winner = NoTeam /\ reason = "" /\ games = 0 /\ penalised = {}
    /\ \A t \in Team : wins[t] <= Level

VerdictInv ==
    /\ TimersMatter
    /\ Open => Undecided
    /\ TargetDecides /\ VerdictExplained /\ RatedOnce

\* The match starts undecided.
LEMMA VerdictInit == Init => VerdictInv
  <1> SUFFICES ASSUME Init PROVE VerdictInv
    OBVIOUS
  <1>1. stage \notin FinalStages
    BY DEF Init, FinalStages, FirstStage
  <1>2. winner = NoTeam /\ reason = "" /\ games = 0 /\ penalised = {}
        /\ offline = [u \in Members |-> "none"]
    BY DEF Init
  <1>3. \A t \in Team : wins[t] = 0
    BY DEF Init
  <1>4. \A t \in Team : wins[t] <= Level /\ wins[t] <= Target /\ wins[t] # Target
    BY <1>3, PoolFacts
  <1> QED BY <1>1, <1>2, <1>4
          DEF VerdictInv, TimersMatter, Undecided, TargetDecides, VerdictExplained,
              RatedOnce, Open, Final, FinalStages

\* finish_match of a match that was not rated before.
LEMMA FinishVerdict ==
    ASSUME games = 0, NEW w \in Team \cup {NoTeam}, NEW final \in FinalStages,
           NEW why \in Reasons, Finish(w, final, why)
    PROVE  /\ stage' = final /\ deadline' = "none" /\ winner' = w /\ reason' = why
           /\ RatedOnce'
  <1>1. stage' = final /\ deadline' = "none" /\ winner' = w /\ reason' = why
    BY DEF Finish
  <1>2. CASE Ranked /\ final = "ended"
    <2>1. games' = games + 1
      BY <1>2 DEF Finish
    <2> QED BY <1>1, <1>2, <2>1 DEF RatedOnce
  <1>3. CASE ~(Ranked /\ final = "ended")
    <2>1. games' = games
      BY <1>3 DEF Finish
    <2> QED BY <1>1, <1>3, <2>1 DEF RatedOnce
  <1> QED BY <1>2, <1>3

\* A match that goes on stays unrated.
LEMMA StillUnrated ==
    ASSUME games = 0, stage' # "ended", UNCHANGED games
    PROVE  RatedOnce'
  BY DEF RatedOnce

\* A round of an open match leaves each team at most one past match point, and
\* the one that is past it is the winner of the round.
LEMMA RoundScore ==
    ASSUME TypeOK, \A t \in Team : wins[t] <= Level,
           NEW w \in Team \cup {NoTeam}, NEW forfeit \in BOOLEAN, CountRound(w, forfeit)
    PROVE  /\ \A t \in Team : wins'[t] \in Nat /\ wins'[t] <= Target
           /\ \A t \in Team : TargetReached(wins'[t]) <=> wins'[t] = Target
           /\ \A t \in Team : ~TargetReached(wins'[t]) <=> wins'[t] <= Level
           /\ \A t \in Team : TargetReached(wins'[t]) => w = t
  <1>1. wins \in [Team -> Nat]
    BY DEF TypeOK, TallyOK
  <1>2. ASSUME NEW t \in Team
        PROVE  wins'[t] = IF w = t THEN wins[t] + 1 ELSE wins[t]
    BY <1>1, <1>2, TeamFacts DEF CountRound
  <1> QED BY <1>1, <1>2, PoolFacts DEF TargetReached

\* The verdict of a completed round.
LEMMA ScoringVerdict ==
    ASSUME TypeOK, Open, VerdictInv, Scoring
    PROVE  VerdictInv'
  <1>1. PICK w \in Team \cup {NoTeam}, forfeit \in BOOLEAN : CompleteRound(w, forfeit)
    BY DEF Scoring
  <1>2. CountRound(w, forfeit)
    BY <1>1 DEF CompleteRound
  <1>3. Undecided /\ UNCHANGED checkVars
    BY DEF VerdictInv, Scoring
  <1>4. /\ \A t \in Team : wins'[t] \in Nat /\ wins'[t] <= Target
        /\ \A t \in Team : TargetReached(wins'[t]) <=> wins'[t] = Target
        /\ \A t \in Team : ~TargetReached(wins'[t]) <=> wins'[t] <= Level
        /\ \A t \in Team : TargetReached(wins'[t]) => w = t
    BY <1>2, <1>3, RoundScore DEF Undecided
  <1>5. CASE \E t \in Team : TargetReached(wins'[t])
    <2>1. w \in Team /\ wins'[w] = Target /\ LastRound(w, "")
      BY <1>1, <1>4, <1>5 DEF CompleteRound
    <2>2. Finish(w, "ended", "") /\ games = 0
      BY <2>1, <1>3 DEF LastRound, Undecided
    <2>3. stage' = "ended" /\ deadline' = "none" /\ winner' = w /\ reason' = ""
          /\ RatedOnce'
      BY <2>2, FinishVerdict DEF FinalStages, Reasons
    <2> QED BY <1>4, <2>1, <2>3
            DEF VerdictInv, TimersMatter, Open, Final, FinalStages, TargetDecides,
                VerdictExplained
  <1>6. CASE \A t \in Team : ~TargetReached(wins'[t])
    <2>1. \A t \in Team : wins'[t] <= Level /\ wins'[t] <= Target /\ wins'[t] # Target
      BY <1>4, <1>6
    <2>2. CASE ~forfeit /\ w = NoTeam /\ DrawnOut /\ LastRound(NoTeam, "draws")
      <3>1. Finish(NoTeam, "ended", "draws") /\ games = 0
        BY <2>2, <1>3 DEF LastRound, Undecided
      <3>2. stage' = "ended" /\ deadline' = "none" /\ winner' = NoTeam
            /\ reason' = "draws" /\ RatedOnce'
        BY <3>1, FinishVerdict DEF FinalStages, Reasons
      <3>3. drawn' + skipped' >= DrawLimit
        BY <1>2, <2>2 DEF CountRound, DrawnOut, TypeOK, TallyOK, DrawLimit
      <3> QED BY <1>4, <2>1, <3>2, <3>3
              DEF VerdictInv, TimersMatter, Open, Final, FinalStages, TargetDecides,
                  VerdictExplained
    <2>3. CASE ServeMap(PlayedSlots, current) \/ ServeMap(PlayedSlots, TB) \/ BackToPicking
      <3>1. stage' \in {"ready", "picking"} /\ UNCHANGED <<verdictVars, checkVars>>
        BY <2>3, <1>3 DEF ServeMap, BackToPicking
      <3>2. RatedOnce'
        BY <1>3, <3>1, StillUnrated DEF Undecided, verdictVars
      <3> QED BY <1>3, <2>1, <3>1, <3>2
              DEF VerdictInv, TimersMatter, Open, Final, FinalStages, TargetDecides,
                  VerdictExplained, Undecided, verdictVars, checkVars
    <2>4. CASE MapIsGone(PlayedSlots)
      <3>1. Finish(NoTeam, "cancelled", "beatmap gone") /\ games = 0
        BY <2>4, <1>3 DEF MapIsGone, Cancel, Undecided
      <3>2. stage' = "cancelled" /\ deadline' = "none" /\ RatedOnce'
        BY <3>1, FinishVerdict DEF FinalStages, Reasons
      <3> QED BY <2>1, <3>2
              DEF VerdictInv, TimersMatter, Open, Final, FinalStages, TargetDecides,
                  VerdictExplained
    <2> QED BY <1>1, <1>6, <2>2, <2>3, <2>4 DEF CompleteRound, SelectMap
  <1> QED BY <1>5, <1>6

\* Every step keeps the verdict in agreement with the match.
LEMMA VerdictStep == TypeOK /\ VerdictInv /\ [Next]_vars => VerdictInv'
  <1> SUFFICES ASSUME TypeOK, VerdictInv, [Next]_vars PROVE VerdictInv'
    OBVIOUS
  <1>1. CASE UNCHANGED vars
    BY <1>1 DEF vars, VerdictInv, TimersMatter, Undecided, TargetDecides,
                VerdictExplained, RatedOnce, Open, Final, verdictVars, checkVars,
                netVars, draftVars, roundVars, tallyVars
  <1>2. ASSUME Open PROVE Undecided /\ \A t \in Team : wins[t] # Target
    <2>1. wins \in [Team -> Nat]
      BY DEF TypeOK, TallyOK
    <2>2. Undecided
      BY <1>2 DEF VerdictInv
    <2>3. Target = Level + 1 /\ Level \in Nat
      BY PoolFacts
    <2>4. ASSUME NEW t \in Team PROVE wins[t] # Target
      <3>1. wins[t] \in Nat /\ wins[t] <= Level
        BY <2>1, <2>2 DEF Undecided
      <3> QED BY <2>3, <3>1
    <2> QED BY <2>2, <2>4
  <1>3. CASE Open /\ Calm
    <2>1. UNCHANGED <<stage, winner, reason, games, penalised, wins, drawn, skipped>>
      BY <1>3 DEF Calm, verdictVars, tallyVars
    <2>2. stage = "waiting" => UNCHANGED offline
      BY <1>3 DEF Calm
    <2> QED BY <1>3, <2>1, <2>2
            DEF VerdictInv, TimersMatter, Undecided, TargetDecides, VerdictExplained,
                RatedOnce, Open, Final
  <1>4. CASE Open /\ (Advance \/ Opening)
    <2>1. UNCHANGED <<winner, reason, games, penalised, wins, drawn, skipped>>
      BY <1>4 DEF Advance, Opening, verdictVars, checkVars, tallyVars
    <2>2. stage' \in {"banning", "picking", "playing", "results"}
      BY <1>4 DEF Advance, Opening, FirstStage
    <2> QED BY <1>2, <1>4, <2>1, <2>2
            DEF VerdictInv, TimersMatter, Undecided, TargetDecides, VerdictExplained,
                RatedOnce, Open, Final, FinalStages
  <1>5. CASE Open /\ Stopped
    <2>1. PICK w \in Team \cup {NoTeam}, final \in FinalStages, why \in Reasons :
             /\ Finish(w, final, why)
             /\ final = "ended" => w \in Team /\ why \in {"left", "reconnection"}
      BY <1>5 DEF Stopped
    <2>2. UNCHANGED <<wins, drawn, skipped>>
      BY <1>5 DEF Stopped, tallyVars
    <2>3. stage' = final /\ deadline' = "none" /\ winner' = w /\ reason' = why
          /\ RatedOnce'
      <3>1. games = 0
        BY <1>2, <1>5 DEF Undecided
      <3> QED BY <2>1, <3>1, FinishVerdict
    <2> QED BY <1>2, <1>5, <2>1, <2>2, <2>3
            DEF VerdictInv, TimersMatter, TargetDecides, VerdictExplained,
                Open, Final, FinalStages
  <1>6. CASE Open /\ Drafting
    <2>1. UNCHANGED <<penalised, wins, drawn, skipped>>
      BY <1>6 DEF Drafting, DraftSlot, BanSlot, PickSlot, checkVars, tallyVars
    <2>2. \/ /\ stage' \in {"banning", "picking", "ready"}
             /\ UNCHANGED <<winner, reason, games>>
          \/ /\ stage' = "cancelled" /\ deadline' = "none" /\ UNCHANGED games
      BY <1>6 DEF Drafting, DraftSlot, BanSlot, PickSlot, SelectMap, ServeMap,
                  MapIsGone, Cancel, Finish, verdictVars
    <2> QED BY <1>2, <1>6, <2>1, <2>2
            DEF VerdictInv, TimersMatter, Undecided, TargetDecides, VerdictExplained,
                RatedOnce, Open, Final, FinalStages
  <1>7. CASE Open /\ Scoring
    BY <1>7, ScoringVerdict
  <1>8. TimersMatter
    BY DEF VerdictInv
  <1> QED BY <1>1, <1>3, <1>4, <1>5, <1>6, <1>7, <1>8, StepShapes DEF Shapes

\* In every reachable state: a match at its target is ended and belongs to that
\* team (TargetDecides), an ended match has the reason, winner and score that go
\* together (VerdictExplained), and the ratings counted it exactly when it is
\* ranked and ended (RatedOnce).
LEMMA VerdictAlways == Spec => [](TypeOK /\ VerdictInv)
  BY TypeInit, TypeStep, VerdictInit, VerdictStep, PTL DEF Spec

\* complete_round and finish_match: the target ends the match, for the team that
\* reached it, and nobody goes beyond it.
THEOREM TargetAlwaysDecides == Spec => []TargetDecides
  BY VerdictAlways, PTL DEF VerdictInv

\* finish_match: every ended match has a reason that agrees with its score.
THEOREM VerdictAlwaysExplained == Spec => []VerdictExplained
  BY VerdictAlways, PTL DEF VerdictInv

\* settle_ratings: a match counts once if it is ranked and ended, else never.
THEOREM RatedExactlyOnce == Spec => []RatedOnce
  BY VerdictAlways, PTL DEF VerdictInv

\* No handler changes a match that has ended or was cancelled.
THEOREM FinalForever == Spec => FinalIsForever
  <1>1. TypeOK /\ VerdictInv /\ [Next]_vars => (Final => UNCHANGED vars)
    BY StepShapes DEF VerdictInv, Open
  <1>2. TypeOK /\ VerdictInv /\ [Next]_vars => [Final => UNCHANGED vars]_vars
    BY <1>1
  <1> QED BY <1>2, VerdictAlways, PTL DEF Spec, FinalIsForever

-----------------------------------------------------------------------------
(* The slots: one round at a time, and the tiebreaker only when it is due.  *)

MatchInv == TypeOK /\ VerdictInv

SlotInv ==
    /\ OneRoundAtATime /\ TiebreakerDiscipline
    /\ InRound => current \in Slots
    /\ stage \in {"waiting", "banning", "picking"} => \E t \in Team : wins[t] < Level

Picked == {s \in Slots : slots[s] = "picked"}

\* The pool starts with every slot free.
LEMMA SlotInit == Init => SlotInv
  <1> SUFFICES ASSUME Init PROVE SlotInv
    OBVIOUS
  <1>1. stage \in {"waiting", "banning", "picking"}
    BY DEF Init, FirstStage
  <1>2. by[TB] = NoTeam /\ slots[TB] = "tiebreaker"
    BY PoolFacts DEF Init
  <1>3. Picked = {}
    BY DEF Init, Picked
  <1>4. wins[0] < Level
    <2>1. wins[0] = 0
      BY DEF Init, Team
    <2>2. Level \in Nat /\ Level >= 1
      BY PoolFacts
    <2> QED BY <2>1, <2>2
  <1> QED BY <1>1, <1>2, <1>3, <1>4
          DEF SlotInv, OneRoundAtATime, TiebreakerDiscipline, InRound, Final,
              FinalStages, Picked, Team

\* Serving s, when nothing else is picked, makes s the one current slot; the
\* tiebreaker may be served only when it is due, and once it has been touched
\* nothing else may.
LEMMA ServeMapSlots ==
    ASSUME TypeOK, by[TB] = NoTeam,
           NEW statuses \in [Slots -> Statuses], NEW s \in Slots,
           {r \in Slots : statuses[r] = "picked"} = {},
           s = TB => \A t \in Team : wins'[t] >= Level,
           s # TB => statuses[TB] = "tiebreaker",
           ServeMap(statuses, s)
    PROVE  SlotInv'
  <1>1. stage' = "ready" /\ current' = s /\ slots' = [statuses EXCEPT ![s] = "picked"]
    BY DEF ServeMap
  <1>2. {r \in Slots : slots'[r] = "picked"} = {s}
    BY <1>1
  <1>3. by'[TB] = NoTeam
    BY PoolFacts DEF ServeMap, TypeOK, DraftOK
  <1>4. s = TB => slots'[TB] = "picked"
    BY <1>1
  <1>5. s # TB => slots'[TB] = "tiebreaker"
    BY <1>1, PoolFacts
  <1> QED BY <1>1, <1>2, <1>3, <1>4, <1>5
          DEF SlotInv, OneRoundAtATime, TiebreakerDiscipline, InRound, Final, FinalStages

\* A match that becomes final, or whose slots and score stay as they are while
\* the same round goes on, keeps the invariant.
LEMMA FinalSlots ==
    ASSUME SlotInv, stage' \in FinalStages, UNCHANGED <<by, current>>,
           slots'[TB] = slots[TB] \/ (slots[TB] = "picked" /\ slots'[TB] = "played"),
           \A t \in Team : wins[t] >= Level => wins'[t] >= Level
    PROVE  SlotInv'
  BY DEF SlotInv, OneRoundAtATime, TiebreakerDiscipline, InRound, Final, FinalStages

LEMMA SameSlots ==
    ASSUME SlotInv, Open, UNCHANGED <<slots, by, current, wins>>,
           \/ stage' = stage
           \/ InRound /\ stage' \in {"playing", "results"}
           \/ stage = "waiting" /\ stage' \in {"banning", "picking"}
    PROVE  SlotInv'
  <1>1. (stage' \in {"ready", "playing", "results"}) <=> InRound
    BY DEF InRound
  <1> QED BY <1>1 DEF SlotInv, OneRoundAtATime, TiebreakerDiscipline, InRound, Final,
                      FinalStages, Open

\* draft_action: only slots that are available change, never the tiebreaker.
LEMMA DraftingSlots ==
    ASSUME MatchInv, Open, SlotInv, Drafting
    PROVE  SlotInv'
  <1>1. PICK s \in Slots : DraftSlot(s)
    BY DEF Drafting
  <1>2. stage \in {"banning", "picking"} /\ slots[s] = "available" /\ UNCHANGED tallyVars
    BY <1>1 DEF DraftSlot, BanSlot, PickSlot
  <1>3. s # TB
    BY <1>2 DEF SlotInv, TiebreakerDiscipline
  <1>4. \E t \in Team : wins[t] < Level
    BY <1>2 DEF SlotInv
  <1>5. \A t \in Team : wins[t] \in Nat
    BY DEF MatchInv, TypeOK, TallyOK
  <1>6. slots[TB] = "tiebreaker" /\ by[TB] = NoTeam
    BY <1>4, <1>5, PoolFacts DEF SlotInv, TiebreakerDiscipline
  <1>7. Picked = {}
    BY <1>2 DEF SlotInv, OneRoundAtATime, Final, FinalStages, Picked
  <1>8. wins' = wins
    BY <1>2 DEF tallyVars
  <1>9. slots \in [Slots -> Statuses] /\ by \in [Slots -> Team \cup {NoTeam}]
    BY DEF MatchInv, TypeOK, DraftOK
  <1>10. CASE BanSlot(s)
    <2>1. stage' \in {"banning", "picking"}
      BY <1>10 DEF BanSlot
    <2>2. slots' = [slots EXCEPT ![s] = "banned"] /\ by' = [by EXCEPT ![s] = turn]
      BY <1>10 DEF BanSlot
    <2>3. slots'[TB] = "tiebreaker" /\ by'[TB] = NoTeam
      BY <1>3, <1>6, <1>9, <2>2, PoolFacts
    <2>4. {r \in Slots : slots'[r] = "picked"} = {}
      BY <1>7, <1>9, <2>2 DEF Picked
    <2> QED BY <1>4, <1>8, <2>1, <2>3, <2>4
            DEF SlotInv, OneRoundAtATime, TiebreakerDiscipline, InRound, Final,
                FinalStages
  <1>11. CASE ServeMap(slots, s)
    BY <1>3, <1>6, <1>7, <1>9, <1>11, ServeMapSlots DEF MatchInv, Picked
  <1>12. CASE MapIsGone(slots)
    <2>1. stage' \in FinalStages /\ UNCHANGED <<slots, by, current>>
      BY <1>12 DEF MapIsGone, Cancel, Finish, FinalStages, roundVars
    <2> QED BY <1>8, <2>1, FinalSlots
  <1> QED BY <1>1, <1>10, <1>11, <1>12 DEF DraftSlot, PickSlot, SelectMap

\* complete_round: the current slot is played, and either nothing is picked or
\* the same slot, or the tiebreaker, is served again.
LEMMA ScoringSlots ==
    ASSUME MatchInv, Open, SlotInv, Scoring
    PROVE  SlotInv'
  <1>1. PICK w \in Team \cup {NoTeam}, forfeit \in BOOLEAN : CompleteRound(w, forfeit)
    BY DEF Scoring
  <1>2. CountRound(w, forfeit)
    BY <1>1 DEF CompleteRound
  <1>3. TypeOK /\ \A t \in Team : wins[t] <= Level
    BY DEF MatchInv, VerdictInv, Undecided
  <1>4. /\ \A t \in Team : wins'[t] \in Nat
        /\ \A t \in Team : ~TargetReached(wins'[t]) <=> wins'[t] <= Level
    BY <1>2, <1>3, RoundScore
  <1>5. slots \in [Slots -> Statuses] /\ wins \in [Team -> Nat]
    BY <1>3 DEF TypeOK, DraftOK, TallyOK
  <1>6. \A t \in Team : wins[t] >= Level => wins'[t] >= Level
    BY <1>2, <1>5, PoolFacts, TeamFacts DEF CountRound
  <1>7. current \in Slots /\ Picked = {current} /\ by[TB] = NoTeam
        /\ slots[TB] \in {"tiebreaker", "picked", "played"}
    BY DEF Scoring, InRound, SlotInv, OneRoundAtATime, TiebreakerDiscipline, Final,
           FinalStages, Picked
  <1>8. /\ PlayedSlots \in [Slots -> Statuses]
        /\ {r \in Slots : PlayedSlots[r] = "picked"} = {}
        /\ current # TB => PlayedSlots[TB] = slots[TB]
        /\ current = TB => PlayedSlots[TB] = "played" /\ slots[TB] = "picked"
    BY <1>5, <1>7, PoolFacts DEF PlayedSlots, Picked, Statuses
  <1>9. current # TB => slots[TB] = "tiebreaker"
    BY DEF SlotInv, TiebreakerDiscipline
  <1>10. current = TB => \A t \in Team : wins'[t] >= Level
    <2>1. current = TB => slots[TB] # "tiebreaker"
      BY <1>8
    <2> QED BY <1>6, <2>1 DEF SlotInv, TiebreakerDiscipline
  <1>11. ASSUME stage' \in FinalStages, slots' = PlayedSlots, UNCHANGED <<by, current>>
         PROVE  SlotInv'
    BY <1>6, <1>8, <1>11, FinalSlots
  <1>12. ASSUME NEW v, NEW why, LastRound(v, why) PROVE SlotInv'
    BY <1>11, <1>12 DEF LastRound, Finish, FinalStages, roundVars
  <1>13. CASE MapIsGone(PlayedSlots)
    BY <1>11, <1>13 DEF MapIsGone, Cancel, Finish, FinalStages, roundVars
  <1>14. CASE ServeMap(PlayedSlots, current)
    BY <1>3, <1>7, <1>8, <1>9, <1>10, <1>14, ServeMapSlots
  <1>15. CASE ServeMap(PlayedSlots, TB) /\ TiebreakerDue(wins')
    <2>1. \A t \in Team : wins'[t] >= Level
      BY <1>15, PoolFacts DEF TiebreakerDue
    <2>2. TB \in Slots
      BY PoolFacts
    <2> QED BY <1>3, <1>7, <1>8, <1>15, <2>1, <2>2, ServeMapSlots
  <1>16. CASE /\ BackToPicking /\ ~TiebreakerDue(wins')
              /\ \A t \in Team : ~TargetReached(wins'[t])
    <2>1. PICK t \in Team : wins'[t] < Level
      BY <1>4, <1>16, PoolFacts DEF TiebreakerDue
    <2>2. current # TB
      BY <1>4, <1>10, <2>1, PoolFacts
    <2>3. stage' = "picking" /\ slots' = PlayedSlots /\ UNCHANGED <<by, current>>
      BY <1>16 DEF BackToPicking, roundVars
    <2>4. slots'[TB] = "tiebreaker" /\ by'[TB] = NoTeam
      BY <1>7, <1>8, <1>9, <2>2, <2>3
    <2> QED BY <1>8, <2>1, <2>3, <2>4
            DEF SlotInv, OneRoundAtATime, TiebreakerDiscipline, InRound, Final,
                FinalStages
  <1> QED BY <1>1, <1>12, <1>13, <1>14, <1>15, <1>16 DEF CompleteRound, SelectMap

\* Every step keeps the slots disciplined.
LEMMA SlotStep == MatchInv /\ SlotInv /\ [Next]_vars => SlotInv'
  <1> SUFFICES ASSUME MatchInv, SlotInv, [Next]_vars PROVE SlotInv'
    OBVIOUS
  <1>1. CASE UNCHANGED vars
    BY <1>1 DEF vars, SlotInv, OneRoundAtATime, TiebreakerDiscipline, InRound, Final,
                draftVars, roundVars, tallyVars
  <1>2. CASE Open /\ (Calm \/ Advance \/ Opening)
    <2>1. UNCHANGED <<slots, by, current, wins>>
      BY <1>2 DEF Calm, Advance, Opening, draftVars, tallyVars
    <2>2. \/ stage' = stage
          \/ InRound /\ stage' \in {"playing", "results"}
          \/ stage = "waiting" /\ stage' \in {"banning", "picking"}
      BY <1>2 DEF Calm, Advance, Opening, InRound, FirstStage
    <2> QED BY <1>2, <2>1, <2>2, SameSlots
  <1>3. CASE Open /\ Stopped
    <2>1. stage' \in FinalStages /\ UNCHANGED <<slots, by, current, wins>>
      BY <1>3 DEF Stopped, Finish, draftVars, roundVars, tallyVars
    <2> QED BY <2>1, FinalSlots
  <1>4. CASE Open /\ Drafting
    BY <1>4, DraftingSlots
  <1>5. CASE Open /\ Scoring
    BY <1>5, ScoringSlots
  <1> QED BY <1>1, <1>2, <1>3, <1>4, <1>5, StepShapes
          DEF Shapes, MatchInv, VerdictInv

LEMMA SlotAlways == Spec => [](MatchInv /\ SlotInv)
  <1>1. Init => MatchInv
    BY TypeInit, VerdictInit DEF MatchInv
  <1>2. MatchInv /\ [Next]_vars => MatchInv'
    BY TypeStep, VerdictStep DEF MatchInv
  <1> QED BY <1>1, <1>2, SlotInit, SlotStep, PTL DEF Spec

\* select_map and complete_round: while a match is open exactly the current slot
\* is being played, and none between rounds.
THEOREM OneRoundAlways == Spec => []OneRoundAtATime
  BY SlotAlways, PTL DEF SlotInv

\* complete_round: the tiebreaker is served only when both teams are one round
\* from winning, is nobody's pick, and is the last slot of its match.
THEOREM TiebreakerAlways == Spec => []TiebreakerDiscipline
  BY SlotAlways, PTL DEF SlotInv

-----------------------------------------------------------------------------
(* The ready check and its penalties.                                      *)

CheckInv ==
    /\ AcceptedBeforeDraft /\ PenaltiesDeserved
    /\ Ranked /\ stage = "waiting" => accepted # Members
    /\ stage = "waiting" => \A s \in Slots : by[s] = NoTeam

\* The rosters are not empty, so nobody has accepted for everybody yet.
LEMMA CheckInit == Init => CheckInv
  BY RosterAssumption
     DEF Init, CheckInv, AcceptedBeforeDraft, PenaltiesDeserved, FirstStage, Duel, Members

\* Every step keeps the ready check honest.
LEMMA CheckStep == MatchInv /\ CheckInv /\ [Next]_vars => CheckInv'
  <1> SUFFICES ASSUME MatchInv, CheckInv, [Next]_vars PROVE CheckInv'
    OBVIOUS
  <1>1. CASE UNCHANGED vars
    BY <1>1 DEF vars, CheckInv, AcceptedBeforeDraft, PenaltiesDeserved, verdictVars,
                checkVars, draftVars
  <1>2. ASSUME Open PROVE penalised = {} /\ reason = ""
    BY <1>2 DEF MatchInv, VerdictInv, Undecided
  <1>3. CASE Open /\ Calm
    <2>1. UNCHANGED <<stage, reason, penalised, by>>
      BY <1>3 DEF Calm, verdictVars, draftVars
    <2>2. stage # "waiting" => accepted' = accepted
      BY <1>3 DEF Calm
    <2>3. Ranked /\ stage = "waiting" => accepted' # Members
      BY <1>3 DEF Calm, CheckInv
    <2> QED BY <1>2, <1>3, <2>1, <2>2, <2>3
            DEF CheckInv, AcceptedBeforeDraft, PenaltiesDeserved
  <1>4. CASE Open /\ (Advance \/ Opening)
    <2>1. penalised' = {} /\ reason' = ""
      BY <1>2, <1>4 DEF Advance, Opening, verdictVars, checkVars
    <2>2. stage' \notin {"waiting", "cancelled"}
      BY <1>4 DEF Advance, Opening, FirstStage
    <2>3. Ranked => accepted' = Members
      BY <1>4 DEF Advance, Opening, checkVars, CheckInv, AcceptedBeforeDraft
    <2> QED BY <2>1, <2>2, <2>3 DEF CheckInv, AcceptedBeforeDraft, PenaltiesDeserved
  <1>5. CASE Open /\ Stopped
    <2>1. PICK w \in Team \cup {NoTeam}, final \in FinalStages, why \in Reasons :
             /\ Finish(w, final, why)
             /\ final = "ended" => /\ w \in Team /\ why \in {"left", "reconnection"}
                                  /\ stage # "waiting"
             /\ why = "not accepted" =>
                   penalised' = IF Ranked THEN penalised \cup Missing ELSE penalised
             /\ why = "not accepted" => stage = "waiting"
             /\ \/ UNCHANGED penalised
                \/ /\ Ranked /\ stage = "waiting" /\ final = "cancelled"
                   /\ why \in {"declined", "not accepted"}
      BY <1>5 DEF Stopped
    <2>2. stage' = final /\ reason' = why /\ UNCHANGED <<accepted, by>>
      BY <1>5, <2>1 DEF Stopped, Finish, draftVars
    <2>3. stage \notin {"waiting"} => (final = "ended" /\ Ranked => accepted = Members)
      BY <1>5 DEF CheckInv, AcceptedBeforeDraft, Open, Final, FinalStages
    <2>4. AcceptedBeforeDraft'
      BY <2>1, <2>2, <2>3 DEF AcceptedBeforeDraft, FinalStages
    <2>5. penalised' # {} =>
             /\ Ranked /\ final = "cancelled" /\ why \in {"declined", "not accepted"}
             /\ \A s \in Slots : by[s] = NoTeam
      BY <1>2, <1>5, <2>1 DEF CheckInv
    <2>6. Ranked /\ why = "not accepted" =>
             penalised' = Members \ accepted /\ penalised' # {}
      <3>1. SUFFICES ASSUME Ranked, why = "not accepted"
                     PROVE  penalised' = Members \ accepted /\ penalised' # {}
        OBVIOUS
      <3>2. penalised' = Missing /\ stage = "waiting"
        BY <1>2, <1>5, <2>1, <3>1
      <3>3. accepted \subseteq Members /\ accepted # Members
        BY <3>1, <3>2 DEF CheckInv, MatchInv, TypeOK, CheckOK
      <3> QED BY <3>2, <3>3 DEF Missing
    <2> QED BY <2>2, <2>4, <2>5, <2>6 DEF CheckInv, PenaltiesDeserved, FinalStages
  <1>6. CASE Open /\ (Drafting \/ Scoring)
    <2>1. stage \notin {"waiting", "cancelled"} /\ UNCHANGED checkVars
      BY <1>6 DEF Drafting, DraftSlot, BanSlot, PickSlot, Scoring, InRound
    <2>2. stage' # "waiting" /\ reason' \in {"", "draws", "beatmap gone"}
      <3>1. ASSUME NEW statuses, NEW s, SelectMap(statuses, s)
            PROVE  stage' # "waiting" /\ reason' \in {"", "beatmap gone"}
        BY <1>2, <1>6, <3>1
           DEF SelectMap, ServeMap, MapIsGone, Cancel, Finish, verdictVars
      <3>2. CASE \E s \in Slots : BanSlot(s)
        BY <1>2, <1>6, <3>2 DEF BanSlot, verdictVars
      <3>3. CASE \E s \in Slots : PickSlot(s)
        BY <3>1, <3>3 DEF PickSlot
      <3>4. CASE \E w \in Team \cup {NoTeam}, forfeit \in BOOLEAN : CompleteRound(w, forfeit)
        <4>1. PICK w \in Team \cup {NoTeam}, forfeit \in BOOLEAN : CompleteRound(w, forfeit)
          BY <3>4
        <4>2. ASSUME NEW v, NEW why \in {"", "draws"}, LastRound(v, why)
              PROVE  stage' # "waiting" /\ reason' \in {"", "draws"}
          BY <4>2 DEF LastRound, Finish
        <4>3. CASE BackToPicking
          BY <1>2, <1>6, <4>3 DEF BackToPicking, verdictVars
        <4> QED BY <3>1, <4>1, <4>2, <4>3 DEF CompleteRound
      <3> QED BY <1>6, <3>2, <3>3, <3>4 DEF Drafting, DraftSlot, Scoring
    <2>3. penalised' = {} /\ accepted' = accepted
      BY <1>2, <1>6, <2>1 DEF checkVars
    <2> QED BY <2>1, <2>2, <2>3 DEF CheckInv, AcceptedBeforeDraft, PenaltiesDeserved
  <1> QED BY <1>1, <1>3, <1>4, <1>5, <1>6, StepShapes
          DEF Shapes, MatchInv, VerdictInv

LEMMA CheckAlways == Spec => [](MatchInv /\ CheckInv)
  <1>1. Init => MatchInv
    BY TypeInit, VerdictInit DEF MatchInv
  <1>2. MatchInv /\ [Next]_vars => MatchInv'
    BY TypeStep, VerdictStep DEF MatchInv
  <1> QED BY <1>1, <1>2, CheckInit, CheckStep, PTL DEF Spec

\* match_action, "ready": no ranked match is drafted, played or rated without the
\* acceptance of every member.
THEOREM AcceptedAlways == Spec => []AcceptedBeforeDraft
  BY CheckAlways, PTL DEF CheckInv

\* penalise_unaccepted: penalties fall on a failed ranked ready check only, and
\* on exactly the members who had not accepted when it timed out.
THEOREM PenaltiesAlwaysDeserved == Spec => []PenaltiesDeserved
  BY CheckAlways, PTL DEF CheckInv

-----------------------------------------------------------------------------
(* The rounds: their start, and their points.                              *)

\* No round starts with a score, and none is played without consent or force.
LEMMA RoundsStep == MatchInv /\ RoundsStartClean /\ [Next]_vars => RoundsStartClean'
  <1> SUFFICES ASSUME MatchInv, RoundsStartClean, [Next]_vars PROVE RoundsStartClean'
    OBVIOUS
  <1>1. CASE UNCHANGED vars
    BY <1>1 DEF vars, RoundsStartClean, roundVars
  <1>2. CASE Open /\ Calm
    BY <1>2 DEF Calm, RoundsStartClean
  <1>3. CASE Open /\ Advance
    BY <1>3 DEF Advance, RoundsStartClean
  <1>4. CASE Open /\ (Opening \/ Stopped)
    <2>1. stage' \notin {"ready", "playing", "results"}
      BY <1>4 DEF Opening, FirstStage, Stopped, Finish, FinalStages
    <2> QED BY <2>1 DEF RoundsStartClean
  <1>5. CASE Open /\ (Drafting \/ Scoring)
    <2>1. ASSUME NEW statuses, NEW s, SelectMap(statuses, s) PROVE RoundsStartClean'
      BY <2>1 DEF SelectMap, ServeMap, FreshScores, MapIsGone, Cancel, Finish,
                  RoundsStartClean
    <2>2. ASSUME NEW s, BanSlot(s) PROVE RoundsStartClean'
      BY <2>2 DEF BanSlot, RoundsStartClean
    <2>3. ASSUME NEW v, NEW why, LastRound(v, why) PROVE RoundsStartClean'
      BY <2>3 DEF LastRound, Finish, RoundsStartClean
    <2>4. CASE BackToPicking
      BY <2>4 DEF BackToPicking, RoundsStartClean
    <2> QED BY <1>5, <2>1, <2>2, <2>3, <2>4
            DEF Drafting, DraftSlot, PickSlot, Scoring, CompleteRound
  <1> QED BY <1>1, <1>2, <1>3, <1>4, <1>5, StepShapes
          DEF Shapes, MatchInv, VerdictInv

\* select_map and room_event: a round starts without a score of an earlier round
\* or attempt, and is played only when everybody agreed or the start was forced.
THEOREM RoundsAlwaysStartClean == Spec => []RoundsStartClean
  <1>1. Init => RoundsStartClean
    BY DEF Init, RoundsStartClean, FirstStage
  <1> QED BY <1>1, RoundsStep, SlotAlways, PTL DEF Spec

\* settle_round and tick_match: a step gives at most one point, to the team with
\* the higher total or to the prepared team when the other was not.
THEOREM PointsAlwaysEarned == Spec => PointsAreEarned
  <1> DEFINE Earned == wins' # wins =>
                          \E t \in Team : /\ wins' = [wins EXCEPT ![t] = @ + 1]
                                          /\ PointEarned(t)
  <1>1. MatchInv /\ [Next]_vars => [Earned]_vars
    <2> SUFFICES ASSUME MatchInv, [Next]_vars, ~UNCHANGED vars PROVE Earned
      OBVIOUS
    <2>1. Open /\ Shapes
      BY StepShapes DEF MatchInv, VerdictInv
    <2>2. CASE Scoring
      <3>1. PICK w \in Team \cup {NoTeam}, forfeit \in BOOLEAN :
               CompleteRound(w, forfeit) /\ (w \in Team => PointEarned(w))
        BY <2>2 DEF Scoring
      <3>2. wins' = IF w = NoTeam THEN wins ELSE [wins EXCEPT ![w] = @ + 1]
        BY <3>1 DEF CompleteRound, CountRound
      <3> QED BY <3>1, <3>2
    <2>3. CASE ~Scoring
      <3>1. UNCHANGED tallyVars
        BY <2>1, <2>3 DEF Shapes, Calm, Advance, Opening, Stopped, Drafting, DraftSlot,
                          BanSlot, PickSlot
      <3> QED BY <3>1 DEF tallyVars
    <2> QED BY <2>2, <2>3
  <1> HIDE DEF Earned
  <1>2. Spec => [][Earned]_vars
    BY <1>1, SlotAlways, PTL DEF Spec
  <1> QED BY <1>2 DEF Earned, PointsAreEarned

-----------------------------------------------------------------------------
(* The draft: bans in turn, then picks in turn.                            *)

Lead == Cardinality(PickedBy(0)) - Cardinality(PickedBy(1))

\* The lead that a team which is to pick does not have.
Ahead(t) == IF t = 0 THEN 1 ELSE -1

BansInv ==
    /\ DraftOrder
    /\ stage = "banning" => \E t \in Team : bans[t] < BansPerTeam

\* While a round is on, the team that did not pick its map picks next; the
\* current map is booked on the team whose turn it was.
PicksInv ==
    /\ Lead \in {-1, 0, 1}
    /\ stage = "picking" => Lead # Ahead(turn)
    /\ InRound => /\ nextPick = Other(turn)
                  /\ Lead # Ahead(nextPick)
                  /\ by[current] = IF current = TB THEN NoTeam ELSE turn
    /\ stage \in {"waiting", "banning"} =>
           \A s \in Slots : slots[s] \notin {"picked", "played"}

DraftInv == BansInv /\ PicksInv

\* The slots of a pool are finitely many, so what a team banned or picked can
\* be counted.
LEMMA SlotsFinite ==
    /\ IsFiniteSet(Slots)
    /\ \A t : IsFiniteSet(BannedBy(t)) /\ Cardinality(BannedBy(t)) \in Nat
    /\ \A t : IsFiniteSet(PickedBy(t)) /\ Cardinality(PickedBy(t)) \in Nat
  <1>1. IsFiniteSet(Slots)
    <2>1. 1 \in Int /\ TB \in Int
      BY PoolAssumption DEF TB
    <2> QED BY <2>1, FS_Interval DEF Slots
  <1>2. ASSUME NEW t PROVE IsFiniteSet(BannedBy(t)) /\ Cardinality(BannedBy(t)) \in Nat
    <2>1. BannedBy(t) \in SUBSET Slots
      BY DEF BannedBy
    <2>2. IsFiniteSet(BannedBy(t))
      BY <1>1, <2>1, FS_Subset
    <2> QED BY <2>2, FS_CardinalityType
  <1>3. ASSUME NEW t PROVE IsFiniteSet(PickedBy(t)) /\ Cardinality(PickedBy(t)) \in Nat
    <2>1. PickedBy(t) \in SUBSET Slots
      BY DEF PickedBy
    <2>2. IsFiniteSet(PickedBy(t))
      BY <1>1, <2>1, FS_Subset
    <2> QED BY <2>2, FS_CardinalityType
  <1> QED BY <1>1, <1>2, <1>3

\* Nothing is banned or picked in a pool that was just made.
LEMMA DraftInit == Init => DraftInv
  <1> SUFFICES ASSUME Init PROVE DraftInv
    OBVIOUS
  <1>1. \A s \in Slots : slots[s] \in {"tiebreaker", "available"}
    BY DEF Init
  <1>2. \A t \in Team : BannedBy(t) = {} /\ PickedBy(t) = {}
    BY <1>1 DEF BannedBy, PickedBy
  <1>3. Cardinality({}) = 0
    BY FS_EmptySet
  <1>4. \A t \in Team : Cardinality(BannedBy(t)) = 0 /\ Cardinality(PickedBy(t)) = 0
    BY <1>2, <1>3
  <1>5. Lead = 0
    BY <1>4 DEF Lead, Team
  <1>6. stage = "waiting" \/ (stage = FirstStage /\ turn = nextPick)
    BY DEF Init
  <1>7. (\A t \in Team : bans[t] = 0) /\ nextPick \in Team /\ turn = nextPick
    BY DEF Init
  <1>8. BansInv
    <2>1. BansPerTeam \in Nat
      BY PoolAssumption
    <2>2. stage = "banning" => BansPerTeam > 0
      BY <1>6 DEF FirstStage
    <2>3. stage \in {"picking", "ready", "playing", "results"} => BansPerTeam = 0
      BY <1>6, <2>1 DEF FirstStage
    <2>4. bans[nextPick] = 0 /\ bans[Other(nextPick)] = 0
      BY <1>7, TeamFacts
    <2>5. stage = "banning" => \E t \in Team : bans[t] < BansPerTeam
      BY <1>7, <2>2, <2>4
    <2> QED BY <1>4, <1>7, <2>1, <2>3, <2>4, <2>5 DEF BansInv, DraftOrder
  <1>9. PicksInv
    BY <1>1, <1>5, <1>6 DEF PicksInv, FirstStage, InRound, Ahead
  <1> QED BY <1>8, <1>9 DEF DraftInv

\* Only what happens to a slot that is or becomes banned concerns the bans.
LEMMA BannedKept ==
    ASSUME \A s \in Slots : (slots'[s] = "banned") <=> (slots[s] = "banned"),
           \A s \in Slots : slots[s] = "banned" => by'[s] = by[s]
    PROVE  \A t : BannedBy(t)' = BannedBy(t)
  BY DEF BannedBy

\* Only what happens to a slot that a team picked concerns the picks.
LEMMA PickedKept ==
    ASSUME \A s \in Slots, t \in Team :
              (slots'[s] \in {"picked", "played"} /\ by'[s] = t)
                 <=> (slots[s] \in {"picked", "played"} /\ by[s] = t)
    PROVE  (\A t \in Team : PickedBy(t)' = PickedBy(t)) /\ Lead' = Lead
  <1>1. \A t \in Team : PickedBy(t)' = PickedBy(t)
    BY DEF PickedBy
  <1>2. PickedBy(0)' = PickedBy(0) /\ PickedBy(1)' = PickedBy(1)
    BY <1>1 DEF Team
  <1> QED BY <1>1, <1>2 DEF Lead

\* A step that leaves the slots alone and stays in the same part of the draft.
LEMMA SameDraft ==
    ASSUME DraftInv, UNCHANGED <<slots, by, bans, nextPick>>,
           \/ stage' \in FinalStages
           \/ stage' = stage /\ UNCHANGED <<turn, current>>
           \/ InRound /\ InRound' /\ UNCHANGED <<turn, current>>
    PROVE  DraftInv'
  <1>1. (\A t : BannedBy(t)' = BannedBy(t)) /\ Lead' = Lead
    BY BannedKept, PickedKept
  <1>2. BansInv'
    BY <1>1 DEF DraftInv, BansInv, DraftOrder, InRound, FinalStages
  <1>3. PicksInv'
    BY <1>1 DEF DraftInv, PicksInv, InRound, FinalStages
  <1> QED BY <1>2, <1>3 DEF DraftInv

\* start_draft: the team that bans or picks first is to pick first.
LEMMA OpeningDraft ==
    ASSUME TypeOK, DraftInv, Opening
    PROVE  DraftInv'
  <1>1. /\ stage = "waiting" /\ stage' = FirstStage /\ turn' = nextPick
        /\ UNCHANGED <<slots, by, bans, nextPick>>
    BY DEF Opening
  <1>2. (\A t : BannedBy(t)' = BannedBy(t)) /\ (\A t \in Team : PickedBy(t)' = PickedBy(t))
        /\ Lead' = Lead
    BY <1>1, BannedKept, PickedKept
  <1>3. \A t \in Team : bans[t] = 0
    BY <1>1 DEF DraftInv, BansInv, DraftOrder
  <1>4. bans[nextPick] = 0 /\ bans[Other(nextPick)] = 0
    BY <1>3, TeamFacts DEF TypeOK, DraftOK
  <1>5. BansInv'
    <2>1. BansPerTeam \in Nat
      BY PoolAssumption
    <2>2. stage' = "banning" => BansPerTeam > 0
      BY <1>1 DEF FirstStage
    <2>3. stage' \in {"picking", "ready", "playing", "results"} => BansPerTeam = 0
      BY <1>1, <2>1 DEF FirstStage
    <2>4. stage' # "waiting"
      BY <1>1 DEF FirstStage
    <2>5. \A t \in Team : bans'[t] = Cardinality(BannedBy(t)') /\ bans'[t] <= BansPerTeam
      BY <1>1, <1>2 DEF DraftInv, BansInv, DraftOrder
    <2>6. stage' = "banning" => \E t \in Team : bans'[t] < BansPerTeam
      BY <1>1, <1>3, <2>2 DEF Team
    <2> QED BY <1>1, <1>3, <1>4, <2>1, <2>2, <2>3, <2>4, <2>5, <2>6
            DEF BansInv, DraftOrder
  <1>6. \A t \in Team : PickedBy(t) = {}
    BY <1>1 DEF DraftInv, PicksInv, PickedBy
  <1>7. Lead' = 0
    <2>1. Cardinality(PickedBy(0)) = 0 /\ Cardinality(PickedBy(1)) = 0
      BY <1>6, FS_EmptySet DEF Team
    <2> QED BY <1>2, <2>1 DEF Lead
  <1>8. \A s \in Slots : slots'[s] \notin {"picked", "played"}
    BY <1>1 DEF DraftInv, PicksInv
  <1>9. PicksInv'
    BY <1>1, <1>7, <1>8 DEF PicksInv, FirstStage, InRound, Ahead
  <1> QED BY <1>5, <1>9 DEF DraftInv

\* A ban is added to the bans of the team whose turn it is.
LEMMA BannedGrows ==
    ASSUME TypeOK, NEW s \in Slots, BanSlot(s), NEW t \in Team
    PROVE  Cardinality(BannedBy(t)') =
              Cardinality(BannedBy(t)) + (IF t = turn THEN 1 ELSE 0)
  <1>1. slots' = [slots EXCEPT ![s] = "banned"] /\ by' = [by EXCEPT ![s] = turn]
        /\ slots[s] = "available"
    BY DEF BanSlot
  <1>2. slots \in [Slots -> Statuses] /\ by \in [Slots -> Team \cup {NoTeam}]
    BY DEF TypeOK, DraftOK
  <1>3. \A r \in Slots : /\ slots'[r] = IF r = s THEN "banned" ELSE slots[r]
                         /\ by'[r] = IF r = s THEN turn ELSE by[r]
    BY <1>1, <1>2
  <1>4. CASE t = turn
    <2>1. BannedBy(t)' = BannedBy(t) \cup {s}
      BY <1>3, <1>4 DEF BannedBy
    <2>2. s \notin BannedBy(t)
      BY <1>1 DEF BannedBy
    <2>3. Cardinality(BannedBy(t) \cup {s}) = Cardinality(BannedBy(t)) + 1
      BY <2>2, SlotsFinite, FS_AddElement
    <2> QED BY <1>4, <2>1, <2>3
  <1>5. CASE t # turn
    <2>1. BannedBy(t)' = BannedBy(t)
      BY <1>1, <1>3, <1>5 DEF BannedBy
    <2>2. Cardinality(BannedBy(t)) \in Nat
      BY SlotsFinite
    <2> QED BY <1>5, <2>1, <2>2
  <1> QED BY <1>4, <1>5

\* A pick is added to the picks of the team whose turn it is, unless it serves
\* the tiebreaker, which is nobody's.
LEMMA PickedGrows ==
    ASSUME TypeOK, NEW s \in Slots, s # TB, slots[s] = "available", ServeMap(slots, s),
           NEW t \in Team
    PROVE  Cardinality(PickedBy(t)') =
              Cardinality(PickedBy(t)) + (IF t = turn THEN 1 ELSE 0)
  <1>1. slots' = [slots EXCEPT ![s] = "picked"] /\ by' = [by EXCEPT ![s] = turn]
    BY DEF ServeMap
  <1>2. slots \in [Slots -> Statuses] /\ by \in [Slots -> Team \cup {NoTeam}]
    BY DEF TypeOK, DraftOK
  <1>3. \A r \in Slots : /\ slots'[r] = IF r = s THEN "picked" ELSE slots[r]
                         /\ by'[r] = IF r = s THEN turn ELSE by[r]
    BY <1>1, <1>2
  <1>4. CASE t = turn
    <2>1. PickedBy(t)' = PickedBy(t) \cup {s}
      BY <1>3, <1>4 DEF PickedBy
    <2>2. s \notin PickedBy(t)
      BY DEF PickedBy
    <2>3. Cardinality(PickedBy(t) \cup {s}) = Cardinality(PickedBy(t)) + 1
      BY <2>2, SlotsFinite, FS_AddElement
    <2> QED BY <1>4, <2>1, <2>3
  <1>5. CASE t # turn
    <2>1. PickedBy(t)' = PickedBy(t)
      BY <1>3, <1>5 DEF PickedBy
    <2>2. Cardinality(PickedBy(t)) \in Nat
      BY SlotsFinite
    <2> QED BY <1>5, <2>1, <2>2
  <1> QED BY <1>4, <1>5

\* draft_action, ban: the teams ban in turn until both used their bans.
LEMMA BanDraft ==
    ASSUME TypeOK, DraftInv, NEW s \in Slots, BanSlot(s)
    PROVE  DraftInv'
  <1>1. PICK n \in Team : n = nextPick
    BY DEF TypeOK, DraftOK
  <1>2. PICK o \in Team : o = Other(n)
    BY TeamFacts
  <1>3. n # o /\ Other(o) = n /\ (\A t \in Team : t = n \/ t = o)
    BY <1>2, TeamFacts DEF Team
  <1>4. turn \in Team /\ bans \in [Team -> Nat] /\ BansPerTeam \in Nat
    BY PoolAssumption DEF TypeOK, DraftOK
  <1>5. PICK x \in Nat, y \in Nat : x = bans[n] /\ y = bans[o]
    BY <1>4
  <1>6. stage = "banning" /\ bans' = [bans EXCEPT ![turn] = @ + 1] /\ nextPick' = n
    BY <1>1 DEF BanSlot
  <1>7. /\ x = y + (IF turn = n THEN 0 ELSE 1)
        /\ x <= BansPerTeam /\ y <= BansPerTeam
        /\ x < BansPerTeam \/ y < BansPerTeam
    BY <1>1, <1>2, <1>3, <1>5, <1>6 DEF DraftInv, BansInv, DraftOrder
  <1>8. bans'[n] = (IF turn = n THEN x + 1 ELSE x)
        /\ bans'[o] = (IF turn = n THEN y ELSE y + 1)
    BY <1>3, <1>4, <1>5, <1>6
  <1>9. BansDone(bans') <=> (bans'[n] >= BansPerTeam /\ bans'[o] >= BansPerTeam)
    BY <1>3 DEF BansDone
  <1>10. \/ stage' = "picking" /\ turn' = n /\ BansDone(bans')
         \/ stage' = "banning" /\ turn' = Other(turn) /\ ~BansDone(bans')
    BY <1>1 DEF BanSlot
  <1>11. bans'[n] <= BansPerTeam /\ bans'[o] <= BansPerTeam
    BY <1>4, <1>7, <1>8
  <1>12. stage' = "picking" => bans'[n] = BansPerTeam /\ bans'[o] = BansPerTeam
    BY <1>4, <1>5, <1>7, <1>8, <1>9, <1>10
  <1>13. stage' = "banning" => bans'[n] < BansPerTeam \/ bans'[o] < BansPerTeam
    BY <1>4, <1>5, <1>7, <1>8, <1>9, <1>10
  <1>14. stage' = "banning" => bans'[n] = bans'[o] + (IF turn' = n THEN 0 ELSE 1)
    <2>1. CASE turn = n
      BY <1>2, <1>3, <1>5, <1>7, <1>8, <1>10, <2>1
    <2>2. CASE turn = o
      BY <1>2, <1>3, <1>5, <1>7, <1>8, <1>10, <2>2
    <2> QED BY <1>3, <1>4, <2>1, <2>2
  <1>15. ASSUME NEW t \in Team PROVE bans'[t] = Cardinality(BannedBy(t)')
    <2>1. bans[t] = Cardinality(BannedBy(t))
      BY DEF DraftInv, BansInv, DraftOrder
    <2>2. bans'[t] = bans[t] + (IF t = turn THEN 1 ELSE 0)
      BY <1>4, <1>6
    <2> QED BY <2>1, <2>2, BannedGrows
  <1>16. BansInv'
    BY <1>2, <1>3, <1>6, <1>10, <1>11, <1>12, <1>13, <1>14, <1>15
       DEF BansInv, DraftOrder
  <1>17. slots[s] = "available" /\ slots' = [slots EXCEPT ![s] = "banned"]
    BY DEF BanSlot
  <1>18. \A r \in Slots : slots[r] \notin {"picked", "played"}
                          /\ slots'[r] \notin {"picked", "played"}
    BY <1>6, <1>17 DEF DraftInv, PicksInv, TypeOK, DraftOK
  <1>19. Lead' = 0
    <2>1. PickedBy(0)' = {} /\ PickedBy(1)' = {}
      BY <1>18 DEF PickedBy
    <2> QED BY <2>1, FS_EmptySet DEF Lead
  <1>20. PicksInv'
    BY <1>10, <1>18, <1>19 DEF PicksInv, Ahead, InRound
  <1> QED BY <1>16, <1>20 DEF DraftInv

\* draft_action, pick: the team whose turn it is was not ahead, so it takes the
\* lead or levels it, and the other one picks next.
LEMMA PickDraft ==
    ASSUME TypeOK, SlotInv, DraftInv, NEW s \in Slots, PickSlot(s)
    PROVE  DraftInv'
  <1>1. stage = "picking" /\ slots[s] = "available" /\ SelectMap(slots, s)
    BY DEF PickSlot
  <1>2. s # TB
    BY <1>1 DEF SlotInv, TiebreakerDiscipline
  <1>3. CASE MapIsGone(slots)
    BY <1>3, SameDraft DEF MapIsGone, Cancel, Finish, FinalStages
  <1>4. CASE ServeMap(slots, s)
    <2>1. /\ stage' = "ready" /\ current' = s /\ nextPick' = Other(turn)
          /\ slots' = [slots EXCEPT ![s] = "picked"] /\ by' = [by EXCEPT ![s] = turn]
          /\ UNCHANGED <<bans, turn>>
      BY <1>2, <1>4 DEF ServeMap, NextPicker
    <2>2. slots \in [Slots -> Statuses] /\ by \in [Slots -> Team \cup {NoTeam}]
          /\ turn \in Team
      BY DEF TypeOK, DraftOK
    <2>3. \A t : BannedBy(t)' = BannedBy(t)
      BY <1>1, <2>1, <2>2, BannedKept
    <2>4. BansInv'
      BY <1>1, <2>1, <2>3 DEF DraftInv, BansInv, DraftOrder
    <2>5. by'[s] = turn
      BY <2>1, <2>2
    <2>6. PICK a \in Int, b \in Int :
             a = Cardinality(PickedBy(0)) /\ b = Cardinality(PickedBy(1))
      BY SlotsFinite
    <2>7. /\ Cardinality(PickedBy(0)') = a + (IF 0 = turn THEN 1 ELSE 0)
          /\ Cardinality(PickedBy(1)') = b + (IF 1 = turn THEN 1 ELSE 0)
      BY <1>1, <1>2, <1>4, <2>6, PickedGrows DEF Team
    <2>8. Lead' = IF turn = 0 THEN a - b + 1 ELSE a - b - 1
      BY <2>2, <2>6, <2>7 DEF Lead, Team
    <2>9. a - b \in {-1, 0, 1} /\ a - b # IF turn = 0 THEN 1 ELSE -1
      BY <1>1, <2>6 DEF DraftInv, PicksInv, Lead, Ahead
    <2>10. Lead' \in {-1, 0, 1} /\ Lead' # Ahead(Other(turn))
      BY <2>2, <2>6, <2>8, <2>9 DEF Ahead, Other, Team
    <2>11. PicksInv'
      BY <1>2, <2>1, <2>5, <2>10 DEF PicksInv, InRound, Ahead
    <2> QED BY <2>4, <2>11 DEF DraftInv
  <1> QED BY <1>1, <1>3, <1>4 DEF SelectMap

\* complete_round: the current map stays booked on the team that picked it,
\* whether it is played, skipped or replayed, and the tiebreaker on nobody.
LEMMA ScoringBooks ==
    ASSUME MatchInv, Open, SlotInv, DraftInv, Scoring
    PROVE  /\ UNCHANGED <<by, bans>>
           /\ \A r \in Slots :
                 \/ slots'[r] = slots[r]
                 \/ slots[r] = "picked" /\ slots'[r] \in {"picked", "played"}
                 \/ r = TB /\ slots[r] # "banned" /\ slots'[r] = "picked"
           /\ \/ stage' \in FinalStages
              \/ stage' = "ready" /\ current' \in {current, TB}
                 /\ nextPick' = Other(turn) /\ turn' = turn
              \/ stage' = "picking" /\ turn' = nextPick
  <1>1. PICK w \in Team \cup {NoTeam}, forfeit \in BOOLEAN : CompleteRound(w, forfeit)
    BY DEF Scoring
  <1>2. current \in Slots /\ Picked = {current} /\ by[TB] = NoTeam
        /\ slots[TB] \in {"tiebreaker", "picked", "played"}
    BY DEF Scoring, InRound, SlotInv, OneRoundAtATime, TiebreakerDiscipline, Final,
           FinalStages, Picked
  <1>3. by[current] = IF current = TB THEN NoTeam ELSE turn
    BY DEF Scoring, DraftInv, PicksInv
  <1>4. slots \in [Slots -> Statuses] /\ by \in [Slots -> Team \cup {NoTeam}]
    BY DEF MatchInv, TypeOK, DraftOK
  <1>5. slots[current] = "picked"
    BY <1>2 DEF Picked
  <1>6. /\ PlayedSlots \in [Slots -> Statuses]
        /\ \A r \in Slots : PlayedSlots[r] = IF r = current THEN "played" ELSE slots[r]
    BY <1>4 DEF PlayedSlots, Statuses
  <1>7. CASE slots' = PlayedSlots /\ UNCHANGED <<by, bans>>
             /\ (stage' \in FinalStages \/ (stage' = "picking" /\ turn' = nextPick))
    BY <1>5, <1>6, <1>7
  <1>8. ASSUME NEW c \in {current, TB}, ServeMap(PlayedSlots, c)
        PROVE  /\ UNCHANGED <<by, bans>>
               /\ \A r \in Slots :
                     \/ slots'[r] = slots[r]
                     \/ slots[r] = "picked" /\ slots'[r] \in {"picked", "played"}
                     \/ r = TB /\ slots[r] # "banned" /\ slots'[r] = "picked"
               /\ stage' = "ready" /\ current' \in {current, TB}
               /\ nextPick' = Other(turn) /\ turn' = turn
    <2>1. /\ slots' = [PlayedSlots EXCEPT ![c] = "picked"]
          /\ by' = [by EXCEPT ![c] = IF c = TB THEN NoTeam ELSE turn]
          /\ stage' = "ready" /\ current' = c /\ UNCHANGED <<bans, turn>>
          /\ nextPick' = Other(turn)
      BY <1>8 DEF ServeMap, NextPicker
    <2>2. \A r \in Slots : slots'[r] = IF r = c THEN "picked" ELSE PlayedSlots[r]
      BY <1>6, <2>1
    <2>3. by[c] = IF c = TB THEN NoTeam ELSE turn
      BY <1>2, <1>3
    <2>4. by' = by
      BY <1>4, <2>1, <2>3
    <2>5. \A r \in Slots : \/ slots'[r] = slots[r]
                           \/ slots[r] = "picked" /\ slots'[r] \in {"picked", "played"}
                           \/ r = TB /\ slots[r] # "banned" /\ slots'[r] = "picked"
      BY <1>2, <1>5, <1>6, <2>2
    <2> QED BY <2>1, <2>4, <2>5
  <1>9. ASSUME NEW v, NEW why, LastRound(v, why)
        PROVE  slots' = PlayedSlots /\ UNCHANGED <<by, bans>> /\ stage' \in FinalStages
    BY <1>9 DEF LastRound, Finish, FinalStages
  <1>10. CASE MapIsGone(PlayedSlots)
    BY <1>7, <1>10 DEF MapIsGone, Cancel, Finish, FinalStages
  <1>11. CASE BackToPicking
    BY <1>7, <1>11 DEF BackToPicking
  <1> QED BY <1>1, <1>7, <1>8, <1>9, <1>10, <1>11 DEF CompleteRound, SelectMap

LEMMA ScoringDraft ==
    ASSUME MatchInv, Open, SlotInv, DraftInv, Scoring
    PROVE  DraftInv'
  <1>1. UNCHANGED <<by, bans>>
    BY ScoringBooks
  <1>2. \A r \in Slots :
           \/ slots'[r] = slots[r]
           \/ slots[r] = "picked" /\ slots'[r] \in {"picked", "played"}
           \/ r = TB /\ slots[r] # "banned" /\ slots'[r] = "picked"
    BY ScoringBooks
  <1>3. by[TB] = NoTeam
    BY DEF SlotInv, TiebreakerDiscipline
  <1>4. \A t : BannedBy(t)' = BannedBy(t)
    BY <1>1, <1>2, BannedKept
  <1>5. Lead' = Lead
    <2>1. NoTeam \notin Team
      BY TeamFacts
    <2> QED BY <1>1, <1>2, <1>3, <2>1, PickedKept
  <1>6. InRound /\ stage \notin {"waiting", "banning"}
    BY DEF Scoring, InRound
  <1>7. /\ \A t \in Team : bans[t] = BansPerTeam
        /\ nextPick = Other(turn) /\ Lead # Ahead(nextPick) /\ Lead \in {-1, 0, 1}
        /\ by[current] = IF current = TB THEN NoTeam ELSE turn
    BY <1>6 DEF DraftInv, BansInv, DraftOrder, PicksInv, InRound
  <1>8. BansInv'
    <2>1. stage' \notin {"waiting", "banning"}
      BY ScoringBooks DEF FinalStages
    <2> QED BY <1>1, <1>4, <1>7, <2>1 DEF DraftInv, BansInv, DraftOrder
  <1>9. PicksInv'
    <2>1. CASE stage' \in FinalStages
      BY <1>5, <1>7, <2>1 DEF PicksInv, InRound, FinalStages
    <2>2. CASE stage' = "ready" /\ current' \in {current, TB}
               /\ nextPick' = Other(turn) /\ turn' = turn
      <3>1. by'[current'] = IF current' = TB THEN NoTeam ELSE turn'
        BY <1>1, <1>3, <1>7, <2>2
      <3>2. nextPick' = Other(turn') /\ Lead' # Ahead(nextPick')
        BY <1>5, <1>7, <2>2 DEF Ahead
      <3> QED BY <1>5, <1>7, <2>2, <3>1, <3>2 DEF PicksInv, InRound
    <2>3. CASE stage' = "picking" /\ turn' = nextPick
      BY <1>5, <1>7, <2>3 DEF PicksInv, InRound, Ahead
    <2> QED BY <2>1, <2>2, <2>3, ScoringBooks
  <1> QED BY <1>8, <1>9 DEF DraftInv

\* Every step keeps the draft in order.
LEMMA DraftStep == MatchInv /\ SlotInv /\ DraftInv /\ [Next]_vars => DraftInv'
  <1> SUFFICES ASSUME MatchInv, SlotInv, DraftInv, [Next]_vars PROVE DraftInv'
    OBVIOUS
  <1>1. CASE UNCHANGED vars
    BY <1>1, SameDraft DEF vars, draftVars, roundVars
  <1>2. CASE Open /\ (Calm \/ Advance)
    <2>1. UNCHANGED <<slots, by, bans, nextPick, turn, current>>
      BY <1>2 DEF Calm, Advance, draftVars
    <2>2. stage' = stage \/ (InRound /\ InRound')
      BY <1>2 DEF Calm, Advance, InRound
    <2> QED BY <2>1, <2>2, SameDraft
  <1>3. CASE Open /\ Opening
    BY <1>3, OpeningDraft DEF MatchInv
  <1>4. CASE Open /\ Stopped
    BY <1>4, SameDraft DEF Stopped, Finish, draftVars
  <1>5. CASE Open /\ Drafting
    BY <1>5, BanDraft, PickDraft DEF Drafting, DraftSlot, MatchInv
  <1>6. CASE Open /\ Scoring
    BY <1>6, ScoringDraft
  <1> QED BY <1>1, <1>2, <1>3, <1>4, <1>5, <1>6, StepShapes
          DEF Shapes, MatchInv, VerdictInv

\* draft_action and select_map: the teams ban in turn, up to the pool's number
\* and before any pick, and their picks alternate over the whole match, however
\* the rounds between them were resolved.
THEOREM DraftAlwaysDisciplined == Spec => []DraftDiscipline
  <1>1. DraftInv => DraftDiscipline
    BY DEF DraftInv, BansInv, PicksInv, DraftDiscipline, PicksAlternate, Lead, Ahead
  <1> QED BY <1>1, DraftInit, DraftStep, SlotAlways, PTL DEF Spec

-----------------------------------------------------------------------------
(* The walkovers.                                                          *)

\* room_event: the reconnection timer of a member who is named is taken back in
\* the same step, so no timer runs against a member who is there.
AwayInv == \A u \in Members : offline[u] # "none" => u \notin connected

LEMMA AwayStep == AwayInv /\ [Next]_vars => AwayInv'
  <1> SUFFICES ASSUME AwayInv, [Next]_vars PROVE AwayInv'
    OBVIOUS
  <1>1. CASE UNCHANGED <<connected, offline>>
    BY <1>1 DEF AwayInv
  <1>2. ASSUME NEW conn, NEW avail, NEW same, Hear(conn, avail, same) PROVE AwayInv'
    <2>1. connected' = conn /\ offline' = AwayTimers(conn)
      BY <1>2 DEF Hear
    <2>2. \A u \in Members : u \in conn => AwayTimers(conn)[u] = "none"
      BY DEF AwayTimers
    <2> QED BY <2>1, <2>2 DEF AwayInv
  <1>3. ASSUME NEW u \in Members, ReconnectExpires(u) PROVE AwayInv'
    <2>1. offline[u] = "running" /\ offline' = [offline EXCEPT ![u] = "due"]
          /\ connected' = connected
      BY <1>3 DEF ReconnectExpires
    <2>2. \A m \in Members : offline'[m] # "none" => offline[m] # "none"
      BY <2>1
    <2> QED BY <2>1, <2>2 DEF AwayInv
  <1>4. ASSUME NEW s, DraftSlot(s) PROVE UNCHANGED <<connected, offline>>
    BY <1>4 DEF DraftSlot, BanSlot, PickSlot, netVars
  <1>5. CASE PlayerActs
    BY <1>1, <1>4, <1>5
       DEF PlayerActs, Accept, StartDraft, Decline, LeaveMatch, SetReady, SubmitScore,
           CaptainDrafts, CustomStart, netVars
  <1>6. CASE ServerReports
    BY <1>1, <1>2, <1>6
       DEF ServerReports, Pulse, Completed, Started, Aborted, BotResults, netVars
  <1>7. CASE Tick
    <2>1. CASE \E s \in Slots : TickBotDraft(s)
      BY <1>1, <1>4, <2>1 DEF TickBotDraft
    <2>2. CASE TickDraft
      <3>1. CASE \E s \in Slots : DraftSlot(s)
        BY <1>1, <1>4, <3>1
      <3>2. CASE UNCHANGED netVars
        BY <1>1, <3>2 DEF netVars
      <3> QED BY <2>2, <3>1, <3>2 DEF TickDraft
    <2>3. CASE TickServerLost \/ TickOffline \/ TickResults \/ TickWaiting
      <3>1. UNCHANGED netVars
        BY <2>3 DEF TickServerLost, TickOffline, TickResults, TickWaiting
      <3> QED BY <1>1, <3>1 DEF netVars
    <2>4. CASE TickReady \/ TickPlaying
      <3>1. UNCHANGED netVars
        BY <2>4 DEF TickReady, TickPlaying
      <3> QED BY <1>1, <3>1 DEF netVars
    <2> QED BY <1>7, <2>1, <2>2, <2>3, <2>4 DEF Tick
  <1>8. CASE Time
    BY <1>1, <1>3, <1>8 DEF Time, DeadlinePasses, ServerGoesSilent, netVars
  <1>9. CASE UNCHANGED vars
    BY <1>1, <1>9 DEF vars, netVars
  <1> QED BY <1>5, <1>6, <1>7, <1>8, <1>9 DEF Next

\* No handler but the offline branch of the tick gives the reconnection verdict.
LEMMA OnlyTickOffline ==
    ASSUME Next, reason = "", reason' = "reconnection"
    PROVE  TickOffline
  <1>1. ASSUME NEW w, NEW final, NEW why, Finish(w, final, why), why # "reconnection"
        PROVE  FALSE
    BY <1>1 DEF Finish
  <1>2. ASSUME NEW statuses, NEW s, SelectMap(statuses, s) PROVE FALSE
    BY <1>1, <1>2 DEF SelectMap, ServeMap, MapIsGone, Cancel, verdictVars
  <1>3. ASSUME NEW s, DraftSlot(s) PROVE FALSE
    BY <1>2, <1>3 DEF DraftSlot, BanSlot, PickSlot, verdictVars
  <1>4. ASSUME NEW w, NEW forfeit, CompleteRound(w, forfeit) PROVE FALSE
    BY <1>1, <1>2, <1>4 DEF CompleteRound, LastRound, BackToPicking, verdictVars
  <1>5. CASE PlayerActs
    BY <1>1, <1>3, <1>5
       DEF PlayerActs, Accept, Decline, Cancel, LeaveMatch, SetReady, SubmitScore,
           CaptainDrafts, CustomStart, verdictVars
  <1>6. CASE ServerReports
    BY <1>4, <1>6
       DEF ServerReports, Pulse, Completed, Started, Aborted, BotResults, verdictVars
  <1>7. CASE Tick
    BY <1>1, <1>3, <1>4, <1>7
       DEF Tick, TickServerLost, TickResults, TickWaiting, TickDraft, TickReady,
           TickPlaying, TickBotDraft, Cancel, verdictVars
  <1>8. CASE Time
    BY <1>8 DEF Time, DeadlinePasses, ServerGoesSilent, ReconnectExpires, verdictVars
  <1> QED BY <1>5, <1>6, <1>7, <1>8 DEF Next

\* tick_match, offline: a match is lost by, or cancelled for, a reconnection that
\* did not happen only against a team one of whose members the last report of
\* the game server did not name.
THEOREM WalkoversAlwaysJust == Spec => WalkoversAreJust
  <1> DEFINE Just == reason' = "reconnection" /\ reason = "" =>
                        \A t \in Team : (stage' = "cancelled" \/ winner' = Other(t)) =>
                            \E u \in Roster(t) : u \notin connected
  <1>1. Init => AwayInv
    BY DEF Init, AwayInv
  <1>2. AwayInv /\ [Next]_vars => [Just]_vars
    <2> SUFFICES ASSUME AwayInv, Next, reason = "", reason' = "reconnection",
                        NEW t \in Team, stage' = "cancelled" \/ winner' = Other(t)
                 PROVE  \E u \in Roster(t) : u \notin connected
      OBVIOUS
    <2>1. TickOffline
      BY OnlyTickOffline
    <2>2. t \in GoneTeams
      <3>1. CASE GoneTeams = Team
        BY <3>1
      <3>2. ASSUME NEW g \in Team, GoneTeams = {g}, Finish(Other(g), "ended", "reconnection")
            PROVE  t \in GoneTeams
        <4>1. Other(t) = Other(g)
          BY <3>2 DEF Finish
        <4> QED BY <3>2, <4>1, TeamFacts
      <3> QED BY <2>1, <3>1, <3>2 DEF TickOffline
    <2>3. PICK u \in Roster(t) : offline[u] = "due"
      BY <2>2 DEF GoneTeams
    <2>4. u \in Members
      BY DEF Roster, Members
    <2> QED BY <2>3, <2>4 DEF AwayInv
  <1> HIDE DEF Just
  <1>3. Spec => [][Just]_vars
    BY <1>1, <1>2, AwayStep, PTL DEF Spec
  <1> QED BY <1>3 DEF Just, WalkoversAreJust

-----------------------------------------------------------------------------
(* The match implements its contract.                                      *)

\* A step that the contract does not see.
LEMMA Unseen ==
    ASSUME Open, UNCHANGED <<games, wins, drawn, skipped>>,
           \/ stage' = stage
           \/ stage # "waiting" /\ stage' \notin FinalStages \cup {"waiting"}
    PROVE  UNCHANGED Contract!contractVars
  BY DEF Contract!contractVars, Phase, Champion, Blanks, Open, Final, FinalStages

\* What a verdict looks like to the contract.
LEMMA SeenVerdict ==
    ASSUME games = 0, NEW w \in Team \cup {NoTeam}, NEW final \in FinalStages,
           NEW why \in Reasons, Finish(w, final, why), Open
    PROVE  /\ final = "ended" => Contract!Decide(w)
           /\ final = "cancelled" => Contract!Annul
  <1>1. stage' = final /\ winner' = w /\ RatedOnce'
    BY FinishVerdict
  <1>2. CASE final = "ended"
    <2>1. games' = IF Ranked THEN 1 ELSE 0
      BY <1>1, <1>2 DEF RatedOnce
    <2>2. Phase' = "decided" /\ Champion' = w
      BY <1>1, <1>2 DEF Phase, Champion
    <2> QED BY <1>2, <2>1, <2>2 DEF Contract!Decide
  <1>3. CASE final = "cancelled"
    <2>1. games' = 0
      BY <1>1, <1>3 DEF RatedOnce
    <2>2. Phase' = "annulled" /\ Champion' = Champion
      BY <1>1, <1>3 DEF Phase, Champion, Open, Final, FinalStages
    <2> QED BY <1>3, <2>1, <2>2 DEF Contract!Annul
  <1> QED BY <1>2, <1>3

\* A completed round is a point, or a round without a winner.
LEMMA ScoringSeen ==
    ASSUME MatchInv, Open, Scoring
    PROVE  Contract!ContractNext
  <1>1. PICK w \in Team \cup {NoTeam}, forfeit \in BOOLEAN : CompleteRound(w, forfeit)
    BY DEF Scoring
  <1>2. CountRound(w, forfeit)
    BY <1>1 DEF CompleteRound
  <1>3. TypeOK /\ games = 0 /\ \A t \in Team : wins[t] <= Level
    BY DEF MatchInv, VerdictInv, Undecided
  <1>4. /\ \A t \in Team : TargetReached(wins'[t]) <=> wins'[t] = Target
        /\ \A t \in Team : TargetReached(wins'[t]) => w = t
    BY <1>2, <1>3, RoundScore
  <1>5. Phase = "live"
    BY DEF Scoring, InRound, Phase
  <1>6. ASSUME NEW statuses, NEW s, SelectMap(statuses, s)
        PROVE  Contract!GoOn \/ Contract!Annul
    <2>1. CASE ServeMap(statuses, s)
      <3>1. Phase' = "live" /\ Champion' = Champion /\ games' = games
        BY <2>1 DEF ServeMap, Phase, Champion, verdictVars, Scoring, InRound
      <3> QED BY <1>5, <3>1 DEF Contract!GoOn
    <2>2. CASE MapIsGone(statuses)
      <3>1. Finish(NoTeam, "cancelled", "beatmap gone")
        BY <2>2 DEF MapIsGone, Cancel
      <3> QED BY <1>3, <3>1, SeenVerdict DEF FinalStages, Reasons
    <2> QED BY <1>6, <2>1, <2>2 DEF SelectMap
  <1>7. ASSUME BackToPicking PROVE Contract!GoOn
    <2>1. Phase' = "live" /\ Champion' = Champion /\ games' = games
      BY <1>7 DEF BackToPicking, Phase, Champion, verdictVars, Scoring, InRound
    <2> QED BY <1>5, <2>1 DEF Contract!GoOn
  <1>8. ASSUME NEW v \in Team \cup {NoTeam}, NEW why \in Reasons, LastRound(v, why)
        PROVE  Contract!Decide(v)
    BY <1>3, <1>8, SeenVerdict DEF LastRound, FinalStages
  <1>9. CASE w \in Team
    <2>1. wins' = [wins EXCEPT ![w] = @ + 1] /\ UNCHANGED <<drawn, skipped>>
      BY <1>2, <1>9, TeamFacts DEF CountRound
    <2>2. CASE TargetReached(wins'[w])
      <3>1. LastRound(w, "")
        BY <1>1, <1>9, <2>2 DEF CompleteRound
      <3>2. Contract!Decide(w)
        BY <1>8, <3>1 DEF Reasons
      <3>3. wins'[w] = Target
        BY <1>4, <1>9, <2>2
      <3>4. Contract!Point(w)
        BY <1>5, <2>1, <3>2, <3>3 DEF Contract!Point, Blanks
      <3> QED BY <1>9, <3>4 DEF Contract!ContractNext, Contract!Sides, Team
    <2>3. CASE ~TargetReached(wins'[w])
      <3>1. \A t \in Team : ~TargetReached(wins'[t])
        BY <1>4, <2>3
      <3>2. Contract!GoOn \/ Contract!Annul
        BY <1>1, <1>6, <1>7, <1>9, <3>1, TeamFacts DEF CompleteRound
      <3>3. wins'[w] # Target
        BY <1>4, <1>9, <2>3
      <3>4. Contract!Point(w)
        BY <1>5, <2>1, <3>2, <3>3 DEF Contract!Point, Blanks
      <3> QED BY <1>9, <3>4 DEF Contract!ContractNext, Contract!Sides, Team
    <2> QED BY <2>2, <2>3
  <1>10. CASE w = NoTeam
    <2>1. \A t \in Team : ~TargetReached(wins'[t])
      BY <1>4, <1>10, TeamFacts
    <2>2. wins' = wins
      BY <1>2, <1>10 DEF CountRound
    <2>3. Blanks' \in {Blanks, Blanks + 1}
      <3>1. \/ drawn' = drawn /\ skipped' = skipped
            \/ drawn' = drawn + 1 /\ skipped' = skipped
            \/ drawn' = drawn /\ skipped' = skipped + 1
        BY <1>2 DEF CountRound
      <3>2. drawn \in Nat /\ skipped \in Nat
        BY <1>3 DEF TypeOK, TallyOK
      <3> QED BY <3>1, <3>2 DEF Blanks
    <2>4. CASE ~forfeit /\ DrawnOut
      <3>1. Contract!Decide(NoTeam)
        BY <1>1, <1>8, <1>10, <2>1, <2>4 DEF CompleteRound, Reasons
      <3>2. drawn' = drawn + 1 /\ skipped' = skipped
        BY <1>2, <1>10, <2>4 DEF CountRound
      <3>3. drawn \in Nat /\ skipped \in Nat
        BY <1>3 DEF TypeOK, TallyOK
      <3>4. Blanks' >= DrawLimit
        BY <2>4, <3>2, <3>3 DEF Blanks, DrawnOut, DrawLimit
      <3>5. Contract!Decide(Contract!Nobody)
        BY <3>1 DEF Contract!Nobody, NoTeam
      <3>6. Contract!Blank
        BY <1>5, <2>2, <2>3, <3>4, <3>5 DEF Contract!Blank
      <3> QED BY <3>6 DEF Contract!ContractNext
    <2>5. CASE forfeit \/ ~DrawnOut
      <3>1. Contract!GoOn \/ Contract!Annul
        BY <1>1, <1>6, <1>7, <2>1, <2>5 DEF CompleteRound
      <3>2. Contract!Blank
        BY <1>5, <2>2, <2>3, <3>1 DEF Contract!Blank
      <3> QED BY <3>2 DEF Contract!ContractNext
    <2> QED BY <2>4, <2>5
  <1> QED BY <1>9, <1>10

\* Every step is a step of the contract, or none at all.
LEMMA StepSeen ==
    MatchInv /\ [Next]_vars => [Contract!ContractNext]_(Contract!contractVars)
  <1> SUFFICES ASSUME MatchInv, [Next]_vars
               PROVE  Contract!ContractNext \/ UNCHANGED Contract!contractVars
    OBVIOUS
  <1>1. CASE UNCHANGED vars
    BY <1>1 DEF vars, Contract!contractVars, Phase, Champion, Blanks, verdictVars,
                tallyVars
  <1>2. ASSUME Open PROVE games = 0
    BY <1>2 DEF MatchInv, VerdictInv, Undecided
  <1>3. CASE Open /\ (Calm \/ Advance)
    <2>1. UNCHANGED <<games, wins, drawn, skipped>>
      BY <1>3 DEF Calm, Advance, verdictVars, tallyVars
    <2>2. \/ stage' = stage
          \/ stage # "waiting" /\ stage' \notin FinalStages \cup {"waiting"}
      BY <1>3 DEF Calm, Advance, FinalStages
    <2> QED BY <1>3, <2>1, <2>2, Unseen
  <1>4. CASE Open /\ Opening
    <2>1. Phase = "offered" /\ Phase' = "live"
      BY <1>4 DEF Opening, FirstStage, Phase
    <2>2. Champion' = Champion
      BY <1>4 DEF Opening, FirstStage, Champion
    <2>3. UNCHANGED <<games, wins, Blanks>>
      BY <1>4 DEF Opening, verdictVars, tallyVars, Blanks
    <2> QED BY <2>1, <2>2, <2>3 DEF Contract!Begin, Contract!ContractNext
  <1>5. CASE Open /\ Stopped
    <2>1. PICK w \in Team \cup {NoTeam}, final \in FinalStages, why \in Reasons :
             Finish(w, final, why) /\ (final = "ended" => w \in Team /\ stage # "waiting")
      BY <1>5 DEF Stopped
    <2>2. UNCHANGED <<wins, Blanks>>
      BY <1>5 DEF Stopped, tallyVars, Blanks
    <2>3. CASE final = "ended"
      <3>1. Contract!Decide(w) /\ Phase = "live"
        BY <1>2, <1>5, <2>1, <2>3, SeenVerdict DEF Phase, Open, Final, FinalStages
      <3>2. Other(w) \in Team /\ Contract!Opponent(Other(w)) = w
        BY <2>1, <2>3 DEF Team, Other, Contract!Opponent
      <3>3. Contract!GiveUp(Other(w))
        BY <2>2, <3>1, <3>2 DEF Contract!GiveUp
      <3> QED BY <3>2, <3>3 DEF Contract!ContractNext, Contract!Sides, Team
    <2>4. CASE final = "cancelled"
      <3>1. Contract!Annul /\ Phase \in {"offered", "live"}
        BY <1>2, <1>5, <2>1, <2>4, SeenVerdict DEF Phase, Open, Final, FinalStages
      <3> QED BY <2>2, <3>1 DEF Contract!CallOff, Contract!ContractNext
    <2> QED BY <2>1, <2>3, <2>4 DEF FinalStages
  <1>6. CASE Open /\ Drafting
    <2>1. PICK s \in Slots : DraftSlot(s)
      BY <1>6 DEF Drafting
    <2>2. UNCHANGED <<wins, drawn, skipped>> /\ Phase = "live"
      BY <2>1 DEF DraftSlot, BanSlot, PickSlot, tallyVars, Phase
    <2>3. CASE BanSlot(s) \/ ServeMap(slots, s)
      <3>1. UNCHANGED <<games, wins, drawn, skipped>>
        BY <2>2, <2>3 DEF BanSlot, ServeMap, verdictVars
      <3>2. stage # "waiting" /\ stage' \notin FinalStages \cup {"waiting"}
        BY <2>1, <2>3 DEF DraftSlot, BanSlot, PickSlot, ServeMap, FinalStages
      <3> QED BY <1>6, <3>1, <3>2, Unseen
    <2>4. CASE MapIsGone(slots)
      <3>1. Finish(NoTeam, "cancelled", "beatmap gone")
        BY <2>4 DEF MapIsGone, Cancel
      <3>2. Contract!Annul
        BY <1>2, <1>6, <3>1, SeenVerdict DEF FinalStages, Reasons
      <3> QED BY <2>2, <3>2 DEF Contract!CallOff, Contract!ContractNext, Blanks
    <2> QED BY <2>1, <2>3, <2>4 DEF DraftSlot, PickSlot, SelectMap
  <1>7. CASE Open /\ Scoring
    BY <1>7, ScoringSeen
  <1> QED BY <1>1, <1>3, <1>4, <1>5, <1>6, <1>7, StepShapes
          DEF Shapes, MatchInv, VerdictInv

\* A match is offered, then live, and ends once: decided by the point that reaches
\* the target, by a walkover or by the draw limit, and rated exactly then, or
\* annulled; whatever the players, the game server and the tick do in between.
THEOREM MatchKeepsContract == Spec => KeepsContract
  <1>1. Init => Contract!ContractInit
    <2> SUFFICES ASSUME Init PROVE Contract!ContractInit
      OBVIOUS
    <2>1. Phase \in {"offered", "live"} /\ Champion = NoTeam
      BY DEF Init, FirstStage, Phase, Champion
    <2>2. games = 0 /\ wins = [t \in Team |-> 0] /\ Blanks = 0
      <3>1. drawn = 0 /\ skipped = 0 /\ games = 0 /\ wins = [t \in Team |-> 0]
        BY DEF Init
      <3> QED BY <3>1 DEF Blanks
    <2> QED BY <2>1, <2>2
            DEF Contract!ContractInit, Contract!Nobody, Contract!Sides, NoTeam, Team
  <1> QED BY <1>1, StepSeen, SlotAlways, PTL
          DEF Spec, KeepsContract, Contract!ContractSpec

=============================================================================
