\* Two commands at a time, interleaved step by step.
SPECIFICATION Spec
CONSTANTS
    p1 = p1
    p2 = p2
    h1 = h1
    h2 = h2
    h3 = h3
    h4 = h4
    q1 = q1
    q2 = q2
    None = None
    PlanIds = {p1}
    PlanHashes = {h1}
    Procs = {q1, q2}
    Terms <- ShortPlan
    ProviderFlags <- Quiet
    Observable = {"ZERO"}
    CloseSigns <- GainOnly
    DayLength = 1
    MaxClock = 1
    Serialized = FALSE
    MayCrash = FALSE
SYMMETRY Processes
INVARIANT
    DecisionFinal
CHECK_DEADLOCK FALSE
