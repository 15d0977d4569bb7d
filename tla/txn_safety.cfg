SPECIFICATION MCSpec
CONSTANTS
    Brokers = {1, 2}
    Partitions = {p, q}
    MaxEpoch = 2
    MaxPid = 3
    Scenarios = {"start", "zombie", "next", "failover", "timeout", "crash", "refused"}
CHECK_DEADLOCK FALSE
SYMMETRY Symmetry
INVARIANTS TypeOK AtomicOutcome OnlyAskedIsCommitted ToldIsCommitted OpenIsRegistered
