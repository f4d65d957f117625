SPECIFICATION Spec
CONSTANTS
    T = t
    Faulty = TRUE
    MaxAttempts = 3
    ConnInfo = ConnInfo
CHECK_DEADLOCK FALSE
INVARIANT TypeOK
INVARIANT PassesOnHonestStore
