SPECIFICATION MCSpec
CONSTANTS
    Clients = {1, 2, 3}
    Statics = {2, 3}
    Topics = {t1, t2}
    t1 = t1
    t2 = t2
    PerTopic = 1
    WritesSettle = FALSE
    Scenarios = {"repeated"}
CHECK_DEADLOCK FALSE
INVARIANTS AdvertisedToOne
