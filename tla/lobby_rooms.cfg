SPECIFICATION FairSpec
CONSTANTS
    p1 = p1
    p2 = p2
    p3 = p3
    p4 = p4
    n1 = n1
    Nobody = Nobody
    None = None
    Players <- Two
    Restrictable <- Two
    Sizes <- Solo
    Rooms <- OneRoom
    Parties <- TwoIds
    Resvs <- ThreeIds
    Matches <- TwoIds
    Customs = FALSE
    LateLeaves = FALSE
    SearchersRoam = FALSE
INVARIANTS
    PointersAgree
    LeasesExcludeReservations
PROPERTIES
    StaleSearchesAreRemoved
    ClosedIdleGameLeavesParty
CHECK_DEADLOCK FALSE
