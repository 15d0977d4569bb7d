SPECIFICATION MCFairSpec
CONSTANTS
    Clients = {1, 2, 3}
    Statics = {2, 3}
    Topics = {t1, t2}
    t1 = t1
    t2 = t2
    PerTopic = 1
    WritesSettle = TRUE
    Scenarios = {"handoff", "grow", "missed", "topics", "expire", "reload", "return", "retry", "static"}
CHECK_DEADLOCK FALSE
INVARIANTS TypeOK OneHolder OwnedIsHeld
PROPERTIES EveryPartitionIsConsumed
