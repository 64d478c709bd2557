\* The roster and the broker link, one at a time.  The GP waits for each answer; everyone else may call at any time.
SPECIFICATION AccountsSpec
CONSTANTS
    Emails = {gp, ann, bob}
    GpEmail = gp
    ann = ann
    bob = bob
    MaxLpMembers = 1
    Threads = {t1, t2}
    GpSerial = TRUE
    Genesis = Genesis
    MaxTrail = 2
    BrokerThreads = {s1, s2}
    Grants = {g1, g2}
    MaxAge = 2
    MaxClock = 2
    MaxIssued = 4
SYMMETRY Alike
INVARIANTS
    TypeOK
    BrokerTypeOK
    LpCapRespected
    TrailSound
    LiveTokenKept
    LockedUsesPersisted
PROPERTIES
    RoleNeverLowered
    ImplementsStore
    UnlinkKept
    AgeNotRenewed
