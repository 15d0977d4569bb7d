SPECIFICATION MCFairSpec
CONSTANTS
    Brokers = {1, 2}
    NoBroker = NoBroker
    MinIsr = 2
    ExpansionsSettle = TRUE
    ReadsSettle = TRUE
    Scenarios = {"recovery"}
PROPERTIES EveryReplicaRejoins EveryWaitEnds
CHECK_DEADLOCK FALSE
