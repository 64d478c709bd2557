\* One identity issued four times, each plan short of another gate; one command at a time, crashes.
SPECIFICATION Spec
CONSTANTS
    p1 = p1
    p2 = p2
    h1 = h1
    h2 = h2
    h3 = h3
    h4 = h4
    q1 = q1
    q2 = q2
    None = None
    PlanIds = {p1}
    PlanHashes = {h1, h2, h3, h4}
    Procs = {q1}
    Terms <- GatedPlans
    ProviderFlags <- Quiet
    Observable = {"UNAVAILABLE", "ZERO"}
    CloseSigns <- GainOnly
    DayLength = 1
    MaxClock = 2
    Serialized = TRUE
    MayCrash = TRUE
INVARIANTS
    TypeOK
    OpenAuthorized
    OpensKept
    DecisionFinal
    HistoryConsistent
    OutcomeRecordedOnce
PROPERTIES
    CloseOnlyWhenOpen
CHECK_DEADLOCK FALSE
