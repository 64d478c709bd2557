\* Commands run one at a time under fair scheduling, without crashes.
SPECIFICATION FairSpec
CONSTANTS
    p1 = p1
    p2 = p2
    h1 = h1
    h2 = h2
    h3 = h3
    h4 = h4
    q1 = q1
    q2 = q2
    None = None
    PlanIds = {p1}
    PlanHashes = {h1}
    Procs = {q1}
    Terms <- OnePlan
    ProviderFlags <- QuietOrFailed
    Observable = {"UNAVAILABLE", "ZERO"}
    CloseSigns <- GainOrLoss
    DayLength = 1
    MaxClock = 2
    Serialized = TRUE
    MayCrash = FALSE
PROPERTIES
    HumanReached
CHECK_DEADLOCK FALSE
