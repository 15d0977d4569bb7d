SPECIFICATION MCSpec
CONSTANTS
    Brokers = {1, 2, 3}
    NoBroker = NoBroker
    MinIsr = 2
    ExpansionsSettle = TRUE
    ReadsSettle = FALSE
    Scenarios = {"refill"}
INVARIANTS LogsMatch
CHECK_DEADLOCK FALSE
