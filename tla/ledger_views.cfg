SPECIFICATION Spec
CONSTANTS
  m1 = m1
  m2 = m2
  Maps = {m1}
  Plays <- MCTwoPlays
  Statuses = {"Graveyard", "Ranked"}
  FirstStatus = "Ranked"
  MaxScores = 2
  MaxChanges = 0
  MaxCrashes = 0
  MaxAdmin = 1
  StaleViews = TRUE
INVARIANT NoLostUpdates
CHECK_DEADLOCK FALSE
