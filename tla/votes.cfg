SPECIFICATION Spec
CONSTANTS
    Clients = {p1, p2, p3}
    Terrorists = {p1, p2}
    Maps = {de_a}
    None = None
    PlayersMin = 2
    VotePercentage = 100
    VoteRestartLimit = 1
    Topics = {"stop", "restart", "level", "kick", "ready", "session"}
    LeaveIn = {"stop", "restart", "level", "kick", "ready", "session"}
    JoinIn = {"stop", "restart", "level", "kick", "ready", "session"}
    HalvesIn = {"stop", "restart", "ready"}
INVARIANTS
    VotesArePresent
    NominationHeard
PROPERTIES
    VoteIsBacked
    OneElection
