SPECIFICATION Spec
CONSTANTS
    p1 = p1
    p2 = p2
    p3 = p3
    p4 = p4
    n1 = n1
    Nobody = Nobody
    None = None
    Players <- Three
    Restrictable <- Noone
    Sizes <- Duo
    Rooms <- Noone
    Parties <- OneId
    Resvs <- ThreeIds
    Matches <- OneId
    Customs = TRUE
    LateLeaves = FALSE
    SearchersRoam = FALSE
SYMMETRY PlayerSymmetry
INVARIANTS
    ReservationsAreOwned
    OneThingAtATime
CHECK_DEADLOCK FALSE
