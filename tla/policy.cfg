SPECIFICATION FairSpec
CONSTANTS
  Maps = {1, 2}
  Revisions = {1, 2}
  UpStatuses = {"Pending", "Ranked"}
  FirstStatus = "Pending"
  MaxUp = 2
  MaxAdmin = 1
  MaxCrashes = 1
INVARIANTS TypeOK LocalRanksAreTracked RowsMatchPolicy
PROPERTIES NoRankByItself LostRanksAreReported 
CHECK_DEADLOCK FALSE
