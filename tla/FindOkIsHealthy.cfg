\* One evening after another, a bar of the day before and a BLOCKED company among them.
SPECIFICATION NightlySpec
CONSTANTS
    Evenings <- MCEvenings
    MaxNights = 1
    MaxDate = 1
    MaxSheets = 1
INVARIANT
    OkIsHealthy
CHECK_DEADLOCK FALSE
