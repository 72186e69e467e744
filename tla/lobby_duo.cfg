SPECIFICATION Spec
CONSTANTS
    p1 = p1
    p2 = p2
    p3 = p3
    p4 = p4
    n1 = n1
    Nobody = Nobody
    None = None
    Players <- Four
    Restrictable <- Noone
    Sizes <- Duo
    Rooms <- Noone
    Parties <- OneId
    Resvs <- ThreeIds
    Matches <- OneId
    Customs = FALSE
    LateLeaves = FALSE
    SearchersRoam = FALSE
SYMMETRY PlayerSymmetry
INVARIANTS
    TypeOK
    TeamsAreWhole
PROPERTIES
    BusyPartiesAreStable
CHECK_DEADLOCK FALSE
