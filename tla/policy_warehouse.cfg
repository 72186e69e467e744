SPECIFICATION WarehouseSpec
CONSTANTS
  Maps = {1}
  Revisions = {1, 2}
  UpStatuses = {"Pending", "Ranked"}
  FirstStatus = "Pending"
  MaxUp = 2
  MaxAdmin = 1
  MaxCrashes = 0
PROPERTY EditsAreNotInherited
CHECK_DEADLOCK FALSE
