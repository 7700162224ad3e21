SPECIFICATION Spec
CONSTANTS
    PlayRounds = 2
    PlayRoundsOvertime = 2
    OvertimeType = 3
    OvertimeSwap = FALSE
    PlayersMin = 1
    PlayersMax = 2
    PlayCheckPlayers = FALSE
    AutoStartDelay = 1
    VoteDelay = 2
    VoteMapType = 1
    VoteMapFailType = 2
    VoteMapEnd = FALSE
    VoteTeamType = 2
    KnifeRoundPlay = FALSE
    KnifeRoundEndType = FALSE
    ReadyType = TRUE
    CaptainQuorum = 1
    TeamModes = {2}
    RoundDelay = 5
    FreezeTime = 2
    MaxRounds = 3
    Requests = {"EarlyEnd","StartVoteMap","ChangeMap"}
INVARIANTS
    SetupPending
    ReadyIsPolled
