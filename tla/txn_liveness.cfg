SPECIFICATION MCFairSpec
CONSTANTS
    Brokers = {1, 2}
    Partitions = {p}
    MaxEpoch = 3
    MaxPid = 1
    Scenarios = {"handover", "restart", "stopped"}
CHECK_DEADLOCK FALSE
PROPERTIES EveryTransactionEnds EveryPreparedCompletes
