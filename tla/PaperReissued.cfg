\* Two plans, one of them issued again, and a lifecycle provider that raises; one command at a time, crashes.
SPECIFICATION Spec
CONSTANTS
    p1 = p1
    p2 = p2
    h1 = h1
    h2 = h2
    h3 = h3
    h4 = h4
    q1 = q1
    q2 = q2
    None = None
    PlanIds = {p1, p2}
    PlanHashes = {h1, h2, h3}
    Procs = {q1}
    Terms <- TwoPlans
    ProviderFlags <- Failing
    Observable = {}
    CloseSigns <- GainOnly
    DayLength = 1
    MaxClock = 1
    Serialized = TRUE
    MayCrash = TRUE
PROPERTIES
    ImplementsPosition
    ClosedStaysClosed
    EscalationsKept
CHECK_DEADLOCK FALSE
