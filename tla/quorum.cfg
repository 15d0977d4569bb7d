SPECIFICATION MCSpec
CONSTANTS
    Nil = Nil
    Voters = {v1, v2, v3}
    v1 = v1
    v2 = v2
    v3 = v3
    Redelivers = TRUE
    FetchesOverlap = FALSE
    Scenarios = {"race", "crash", "announce", "replication", "delay", "resignation"}
SYMMETRY VoterSymmetry
INVARIANTS TypeOK VoteInv ElectionSafety LogMatching LeaderCompleteness CommittedAgree
           AcknowledgedIsHeld KnownLeaderWasElected
PROPERTIES VoteIsFinal CommittedIsNeverCut
CHECK_DEADLOCK FALSE
