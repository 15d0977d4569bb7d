SPECIFICATION MCSpec
CONSTANTS
    Nil = Nil
    NoOp = NoOp
    Voters = {v1, v2, v3}
    v1 = v1
    v2 = v2
    v3 = v3
    Names = {n1, n2}
    n1 = n1
    n2 = n2
    Redelivers = FALSE
    FetchesOverlap = FALSE
    Scenarios = {"plan", "crash", "loss", "idle", "quit"}
SYMMETRY Symmetry
INVARIANTS AdmittedIsAccepted PlansCommitOnTheirImage NoWaiterIsStranded
PROPERTIES ImplementsOneLog
CHECK_DEADLOCK FALSE
