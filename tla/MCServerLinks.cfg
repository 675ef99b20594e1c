SPECIFICATION FairSpec
CONSTANTS
    Logins = {l1}
    Accounts = {d1}
    Sessions = {k1, k2, k3}
    None = none
    MaxLosses = 1
    MaxCounts = 1
    MaxFails = 1
    MaxDbLosses = 1
INVARIANTS OneRegistration NobodyForgotten
PROPERTIES AllLinked
CHECK_DEADLOCK FALSE
