SPECIFICATION MCSpec
CONSTANTS
    Brokers = {1, 2, 3}
    NoBroker = NoBroker
    MinIsr = 2
    ExpansionsSettle = TRUE
    ReadsSettle = TRUE
    Scenarios = {"failover", "lag", "overlap", "truncation", "divergence",
                 "late", "joining", "leaderless"}
INVARIANTS TypeOK AckedIsEligible LogsMatch
PROPERTIES AckedIsNeverCut
CHECK_DEADLOCK FALSE
