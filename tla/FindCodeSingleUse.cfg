\* Two overlapping verifications of one code; either store.
SPECIFICATION SignInSpec
CONSTANTS
    Addresses = {e1, i1}
    Emails = {e1}
    ClientIps = {i1}
    Operator = e1
    NoEmail = NoEmail
    Handlers = {x1, x2}
    Limit <- MCLimit
    Window = 3
    MaxKeys = 1
    OtpTtl = 1
    GuestTtl = 3
    Newest = 1
    MaxDelay = 1
    MaxNow = 2
    MaxCodes = 1
INVARIANT
    CodeSingleUse
CHECK_DEADLOCK FALSE
