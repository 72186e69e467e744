SPECIFICATION FairSpec
CONSTANTS
    r1 = r1
    b1 = b1
    Red <- Red1
    Blue <- Blue1
    RedCaptain = r1
    BlueCaptain = b1
    Bots <- NoBots
    SlotCount = 2
    BestOf = 3
    BansPerTeam = 0
    Ranked = TRUE
    Scores = {0, 1}
    Connections <- BlueMayDrop
INVARIANTS
    PenaltiesDeserved
PROPERTIES
    PointsAreEarned
    WalkoversAreJust
    KeepsContract
    EveryWaitEnds
    TerminatesOrRepeatsTiebreaker
CHECK_DEADLOCK FALSE
