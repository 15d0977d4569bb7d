SPECIFICATION MCSpec
CONSTANTS
    Nil = Nil
    Voters = {v1, v2, v3}
    v1 = v1
    v2 = v2
    v3 = v3
    Redelivers = FALSE
    FetchesOverlap = TRUE
    MaxEpoch = 1
    MaxInFlight = 4
    MaxTimeouts = 2
    MaxRestarts = 1
SYMMETRY VoterSymmetry
INVARIANT OneVoteAcrossRestarts
CHECK_DEADLOCK FALSE
