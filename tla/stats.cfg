SPECIFICATION Spec
CONSTANTS
    a1 = a1
    a2 = a2
    b1 = b1
    Clients = {a1, a2, b1}
    Terrorists = {a1, a2}
    Health = 2
    MaxRounds = 3
    Events = {"Leave", "Restart"}
INVARIANTS SharesFit FirstHalfCounted
CHECK_DEADLOCK FALSE
