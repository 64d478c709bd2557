\* Two of the GP's requests at a time: the cap named in membership.py:8.
SPECIFICATION Spec
CONSTANTS
    Emails = {gp, ann, bob}
    GpEmail = gp
    MaxLpMembers = 1
    Threads = {t1, t2}
    GpSerial = FALSE
    Genesis = Genesis
    MaxTrail = 2
INVARIANTS
    LpCapRespected
