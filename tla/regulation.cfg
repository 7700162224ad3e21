SPECIFICATION PlayedSpec
CONSTANTS
    PlayRounds = 4
    PlayRoundsOvertime = 2
    OvertimeType = 2
    OvertimeSwap = FALSE
    PlayersMin = 2
    PlayersMax = 4
    PlayCheckPlayers = FALSE
    AutoStartDelay = 2
    VoteDelay = 6
    VoteMapType = 2
    VoteMapFailType = 2
    VoteMapEnd = FALSE
    VoteTeamType <- Voted
    KnifeRoundPlay = FALSE
    KnifeRoundEndType = FALSE
    ReadyType = TRUE
    CaptainQuorum = 1
    TeamModes = {0,2,4}
    RoundDelay = 5
    FreezeTime = 2
    MaxRounds = 8
    Requests = {"EarlyEnd","StopMatch"}
INVARIANTS
    ScoreFollowsRoster
    SidesSwapped
    NextIsFresh
PROPERTIES
    HalftimeOnSchedule
    LiveWhileLive
    ImplementsScoreboard
    SetupEnds
    MatchCompletes
