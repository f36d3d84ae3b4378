SPECIFICATION Spec
CONSTANTS
    address = address
    alice = alice
    aliceToken = aliceToken
    otherToken = otherToken
    basic = basic
    None = None
    Anonymous = Anonymous
    AuthSkip = FALSE
    Requests = {q1, q2, q3}
    Bearers = {aliceToken}
    BearerOf <- Tokens
    Malformed = {basic}
    Inputs <- TestInputs
    Max <- Limits
    TimeWindow = 2
    MaxTime = 3
INVARIANTS
    TypeOK
    WindowQuota
    BurstBound
    RefusalsAreEarned
    PassesAreCounted
PROPERTIES
    LimitsAreIdeal
SYMMETRY RequestSymmetry
CHECK_DEADLOCK FALSE
