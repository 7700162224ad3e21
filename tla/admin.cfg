SPECIFICATION Spec
CONSTANTS
    PlayRounds = 4
    PlayRoundsOvertime = 2
    OvertimeType = 2
    OvertimeSwap = FALSE
    PlayersMin = 2
    PlayersMax = 2
    PlayCheckPlayers = FALSE
    AutoStartDelay = 2
    VoteDelay = 6
    VoteMapType = 1
    VoteMapFailType = 0
    VoteMapEnd = FALSE
    VoteTeamType <- Voted
    KnifeRoundPlay = FALSE
    KnifeRoundEndType = FALSE
    ReadyType = TRUE
    CaptainQuorum = 1
    TeamModes = {2,5}
    RoundDelay = 5
    FreezeTime = 2
    MaxRounds = 8
    Requests = {"EarlyEnd","StopMatch","RestartPeriod","Surrender","StartMatch","StartVoteTeam","ToggleReady"}
INVARIANTS
    SetupPending
PROPERTIES
    SwapBeforeLive
    FinishedHalfStands
