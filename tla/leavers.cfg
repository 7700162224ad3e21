SPECIFICATION Spec
CONSTANTS
    PlayRounds = 4
    PlayRoundsOvertime = 2
    OvertimeType = 2
    OvertimeSwap = FALSE
    PlayersMin = 2
    PlayersMax = 2
    PlayCheckPlayers = TRUE
    AutoStartDelay = 2
    VoteDelay = 6
    VoteMapType = 1
    VoteMapFailType = 0
    VoteMapEnd = FALSE
    VoteTeamType <- Voted
    KnifeRoundPlay = FALSE
    KnifeRoundEndType = TRUE
    ReadyType = TRUE
    CaptainQuorum = 1
    TeamModes = {0,3,4,5}
    RoundDelay = 5
    FreezeTime = 2
    MaxRounds = 8
    Requests = {"EarlyEnd","Leave"}
INVARIANTS
    TypeOK
    RoundsAreScores
    SetupPending
