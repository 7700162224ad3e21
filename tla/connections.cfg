SPECIFICATION Spec
CONSTANTS
    p = p
    q = q
    r = r
    Nobody = Nobody
    Auths = {p, q, r}
    Slots = {1, 2}
    Admins = {r}
    Refused = {q}
    ApiTimeout = 2
    ReconnectDelay = 3
    FloodTime = 2
    FloodRepeat = 3
    FloodNext = 3
    MaxRequests = 2
    MaxTime = 8
INVARIANTS ChatRate RefusalPending
PROPERTIES RefusedLeave RetryWaits
CHECK_DEADLOCK FALSE
