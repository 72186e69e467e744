SPECIFICATION Spec
CONSTANTS
    p1 = p1
    p2 = p2
    p3 = p3
    p4 = p4
    n1 = n1
    Nobody = Nobody
    None = None
    Players <- Two
    Restrictable <- Noone
    Sizes <- Solo
    Rooms <- OneRoom
    Parties <- OneId
    Resvs <- ThreeIds
    Matches <- OneId
    Customs = FALSE
    LateLeaves = TRUE
    SearchersRoam = TRUE
SYMMETRY PlayerSymmetry
INVARIANTS
    RoomsExcludeQueue
CHECK_DEADLOCK FALSE
