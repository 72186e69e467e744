SPECIFICATION FairSpec
CONSTANTS
  m1 = m1
  m2 = m2
  Maps = {m1}
  Plays <- MCTwoPlays
  Statuses = {"Qualified", "Ranked"}
  FirstStatus = "Qualified"
  MaxScores = 2
  MaxChanges = 2
  MaxCrashes = 1
  MaxAdmin = 1
  StaleViews = FALSE
INVARIANTS TypeOK RankedScoreIsSum StandingsAreCurrent PlaysCountedOnce OwedPpIsRecorded
CHECK_DEADLOCK FALSE
 
