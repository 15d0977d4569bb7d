SPECIFICATION MCSpec
CONSTANTS
    Nil = Nil
    Voters = {v1, v2, v3}
    v1 = v1
    v2 = v2
    v3 = v3
    Redelivers = FALSE
    FetchesOverlap = TRUE
    Scenarios = {"overlap"}
SYMMETRY VoterSymmetry
PROPERTIES CommittedIsNeverCut
CHECK_DEADLOCK FALSE
