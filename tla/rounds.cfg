SPECIFICATION FairSpec
CONSTANTS
    Clients = {p1, p2, p3}
    Terrorists = {p1, p2}
    Off = Off
    VotePauseTime = 2
    VotePauseLimit = 1
    VotePauseFreezetime = TRUE
    VotePercentage = 100
    PauseCount = 1
    VoteDelay = 2
    KnifeRoundPlay = TRUE
    KnifeRoundEndType = TRUE
    FreezeTime = 1
    RoundTime = 3
    RoundDelay = 1
    ResetDelay = 1
    Events = {"Pause", "Leave"}
PROPERTIES
    PlayResumes
    PauseServed
    KnifeWinnersChoose
