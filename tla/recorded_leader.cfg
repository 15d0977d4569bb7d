SPECIFICATION MCSpec
CONSTANTS
    Brokers = {1, 2, 3}
    NoBroker = NoBroker
    MinIsr = 2
    ExpansionsSettle = FALSE
    ReadsSettle = TRUE
    Scenarios = {"leaderless"}
INVARIANTS AckedIsEligible
CHECK_DEADLOCK FALSE
