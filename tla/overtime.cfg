SPECIFICATION Spec
CONSTANTS
    PlayRounds = 4
    PlayRoundsOvertime = 4
    OvertimeType = 1
    OvertimeSwap = FALSE
    PlayersMin = 2
    PlayersMax = 2
    PlayCheckPlayers = FALSE
    AutoStartDelay = 2
    VoteDelay = 6
    VoteMapType = 1
    VoteMapFailType = 0
    VoteMapEnd = FALSE
    VoteTeamType <- Voted
    KnifeRoundPlay = FALSE
    KnifeRoundEndType = FALSE
    ReadyType = TRUE
    CaptainQuorum = 1
    TeamModes = {2}
    RoundDelay = 5
    FreezeTime = 2
    MaxRounds = 8
    Requests = {"EarlyEnd","Surrender"}
INVARIANTS
    ScoreFollowsRoster
PROPERTIES
    EndHasWinner
    ImplementsScoreboard
    OvertimeNeedsTie
