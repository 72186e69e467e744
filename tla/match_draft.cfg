SPECIFICATION Spec
CONSTANTS
    r1 = r1
    b1 = b1
    Red <- Red1
    Blue <- Blue1
    RedCaptain = r1
    BlueCaptain = b1
    Bots <- Blue1
    SlotCount = 4
    BestOf = 3
    BansPerTeam = 1
    Ranked = FALSE
    Scores = {0, 1}
    Connections <- Everybody
INVARIANTS
    TypeOK
    VerdictExplained
    OneRoundAtATime
    TiebreakerDiscipline
    DraftDiscipline
CHECK_DEADLOCK FALSE
