SPECIFICATION AuthSpec
CONSTANTS
    c1 = c1
    c2 = c2
    User = {c1, c2}
    Valid = {c1, c2}
    REQUESTS = 4
    MAX_ATTEMPTS = 2
CHECK_DEADLOCK FALSE
INVARIANT NonceAcceptedOnce
INVARIANT RefusedOnlyIfUsed
