-------------------------------- MODULE PugMod --------------------------------
(***************************************************************************)
(* The match controller of the plugin: the phase machine of CPugMod with   *)
(* the timers, votes and rounds that drive it.  One state variable or one  *)
(* action per field, handler or timer callback; what the handlers of       *)
(* CReady, CVoteMap, CVoteTeam, CVoteOvertime, CCaptain and CKnifeRound do *)
(* to the match is part of the actions, while ballots, ready marks and     *)
(* picks are choices of the players (existential quantifiers).             *)
(*                                                                         *)
(* The game engine (ReGameDLL) is external: "game" says whether a round is *)
(* frozen, played, over and waiting for its restart, or waiting for the    *)
(* complete reset that sv_restart asks for, "gameIn" how many seconds      *)
(* remain until it moves on, and "ended" that the current round has been   *)
(* decided (m_iRoundWinStatus): the engine decides a round only once.      *)
(***************************************************************************)
EXTENDS Task

CONSTANTS
    PlayRounds, PlayRoundsOvertime,     \* pug_play_rounds, pug_play_overtime_rounds
    OvertimeType, OvertimeSwap,         \* pug_play_overtime, pug_play_overtime_swap
    PlayersMin, PlayersMax,             \* pug_players_min, pug_players_max
    PlayCheckPlayers,                   \* pug_play_check_players
    AutoStartDelay, VoteDelay,          \* pug_auto_start_delay, pug_vote_delay
    VoteMapType, VoteMapFailType,       \* pug_vote_map_type, pug_vote_map_fail_type
    VoteMapEnd,                         \* pug_vote_map_end
    VoteTeamType,                       \* pug_vote_team_type, as pugmod.cfg sets it
    KnifeRoundPlay, KnifeRoundEndType,  \* pug_knife_round_play, pug_knife_round_end_type
    ReadyType,                          \* pug_ready_type: marks, or a head count
    CaptainQuorum,                      \* the 5 of CCaptain::Init
    TeamModes,                          \* game modes the players may elect, within 0..5
    RoundDelay, FreezeTime,             \* the engine's tmDelay and mp_freezetime
    MaxRounds,                          \* bound: no round is decided beyond this count
    Requests                            \* which optional events happen in this instance

Team == {"T", "CT"}
Roster == {"A", "B"}
Live == {"FIRST_HALF", "SECOND_HALF", "OVERTIME"}
Phases == {"DEAD", "WARMUP", "START", "HALFTIME", "END"} \cup Live
InMatch == Live \cup {"HALFTIME"}

RequestNames == {"StartVoteMap", "StartVoteTeam", "StartMatch", "StopMatch", "RestartPeriod",
                 "Surrender", "ToggleReady", "ChangeMap", "Leave", "EarlyEnd"}

ASSUME MatchAssumption ==
    /\ PlayRounds \in Nat /\ PlayRounds >= 2
    /\ PlayRoundsOvertime \in Nat /\ PlayRoundsOvertime >= 2
    /\ OvertimeType \in 0..3
    /\ MaxRounds \in Nat
ASSUME PlayersAssumption ==
    /\ PlayersMin \in Nat /\ PlayersMax \in Nat /\ PlayersMax >= 2
    /\ CaptainQuorum \in Nat /\ CaptainQuorum >= 1
ASSUME SwitchAssumption ==
    {OvertimeSwap, PlayCheckPlayers, VoteMapEnd, KnifeRoundPlay, KnifeRoundEndType, ReadyType}
        \subseteq BOOLEAN
ASSUME VoteAssumption ==
    /\ VoteMapType \in 0..2 /\ VoteMapFailType \in 0..2
    /\ VoteTeamType \in -1..5 /\ TeamModes \subseteq 0..5
ASSUME TimeAssumption ==
    /\ AutoStartDelay \in Nat
    /\ {VoteDelay, RoundDelay, FreezeTime} \subseteq Nat \ {0}
ASSUME RequestAssumption == Requests \subseteq RequestNames

VARIABLES
    state,      \* CPugMod::m_State
    round,      \* CPugMod::m_Round, by live period (no other entry is ever written)
    score,      \* CPugMod::m_Score
    task,       \* CTask::m_Data
    ready,      \* CReady::m_Running
    knife,      \* CKnifeRound::m_Running
    picking,    \* the captains are choosing (CCaptain::m_Captain is set)
    voteMap,    \* pug_vote_map: a map vote is owed before the teams are chosen
    voteTeam,   \* pug_vote_team_type
    inGame,     \* gPlayer.GetNum(): players in one of the two teams
    game,       \* the engine's round: "freeze", "play", "over" or "reset"
    gameIn,     \* seconds until the engine leaves "freeze", "over" or "reset"
    ended,      \* the engine has decided the current round
    endless,    \* mp_round_infinite, as the cfg of the phase sets it: no round ends
    rosterT,    \* history: the roster that plays the Terrorists
    credit      \* history: rounds won by each roster, by live period

scoreVars == <<round, score, credit>>
gameVars == <<game, gameIn, ended, endless>>
voteVars == <<voteMap, voteTeam>>
setupVars == <<knife, picking, inGame, voteMap, voteTeam>>
vars == <<state, round, score, task, ready, knife, picking, voteMap, voteTeam,
          inGame, game, gameIn, ended, endless, rosterT, credit>>

-------------------------------------------------------------------------------
(* Rosters and scores.                                                     *)

Other(r) == IF r = "A" THEN "B" ELSE "A"
Playing(team, t) == IF team = "T" THEN t ELSE Other(t)   \* roster on that side when t plays T

NoRounds == [p \in Live |-> 0]
NoScore == [p \in Live |-> [t \in Team |-> 0]]
NoCredit == [p \in Live |-> [r \in Roster |-> 0]]

Half == PlayRounds \div 2
HalfOvertime == PlayRoundsOvertime \div 2
Rounds(rd) == rd["FIRST_HALF"] + rd["SECOND_HALF"] + rd["OVERTIME"]
Points(sc, t) == sc["FIRST_HALF"][t] + sc["SECOND_HALF"][t] + sc["OVERTIME"][t]
GetRound == Rounds(round)
GetScores(t) == Points(score, t)
Tied(sc) == Points(sc, "T") = Points(sc, "CT")

\* Ratio > 0.5: more than half of an overtime has been played, with a lead above 2.
OvertimeWinner(rd, sc) ==
    LET lead == sc["OVERTIME"]["T"] - sc["OVERTIME"]["CT"] IN
    /\ 2 * (rd["OVERTIME"] % PlayRoundsOvertime) > PlayRoundsOvertime
    /\ lead > 2 \/ -lead > 2

\* A mutant: the restart of any period wipes the whole match.
ClearedAll(f, zero, p) == zero

\* RestarPeriod clears the period, and SetState(FIRST_HALF) then clears them all;
\* rosters are named anew when a match starts.
Cleared(f, zero, p) == IF p = "FIRST_HALF" THEN zero ELSE [f EXCEPT ![p] = zero[p]]

ClearPeriod(p, t) ==
    /\ round' = Cleared(round, NoRounds, p)
    /\ score' = Cleared(score, NoScore, p)
    /\ credit' = Cleared(credit, NoCredit, p)
    /\ rosterT' = IF p = "FIRST_HALF" THEN "A" ELSE t

-------------------------------------------------------------------------------
(* What the sessions do to the timers when they open.                      *)

\* The first poll comes half a second later: in the next second.
ReadyLoad(tk, p) == Create(tk, "LIST", "Ready.List", 0, 1, p)

OpenVote(tk, stop, p) ==
    Create(Create(tk, "VOTE", stop, 0, VoteDelay, p), "LIST", "Vote.List", 0, 0, p)

ArmNext(tk, delay, p) == Create(tk, "NEXT", "RunState", 0, delay, p)

ChangelevelDelay(tk, p) ==
    IF Exists(tk, "CMAP") THEN tk ELSE Create(tk, "CMAP", "Changelevel", 0, 5, p)

-------------------------------------------------------------------------------
(* SetState(p), one operator per phase.  tk and rdy are the timers and the *)
(* ready flag at the call.  An operator leaves to its caller the variables *)
(* that some callers change themselves.                                    *)

\* External: the engine notices sv_restart.
SvRestart(delay) == game' = "reset" /\ gameIn' = delay

EnterWarmup(tk) ==
    /\ state' = "WARMUP"
    /\ ready' = TRUE
    /\ task' = ReadyLoad(tk, "WARMUP")
    /\ SvRestart(1) /\ endless' = TRUE             \* warmup.cfg

\* A mutant: the teams change sides after twelve seconds.
ArmSwapLate(tk) == Create(tk, "EXEC", "SwapTeams", 0, 12, "HALFTIME")

ArmSwap(tk) == Create(tk, "EXEC", "SwapTeams", 0, 5, "HALFTIME")

EnterHalftime(tk, rdy) ==
    /\ state' = "HALFTIME"
    /\ IF inGame >= PlayersMin
       THEN task' = ArmNext(ArmSwap(tk), 7, "HALFTIME") /\ ready' = rdy
       ELSE task' = ReadyLoad(ArmSwap(tk), "HALFTIME") /\ ready' = TRUE
    /\ endless' = TRUE                              \* halftime.cfg

\* CheckBalanceTeams; who sits where, and what BalanceTeams achieves, is external.
MayBalance == PlayCheckPlayers => inGame >= 2 * (PlayersMin \div 2)
MayFail == PlayCheckPlayers

\* The first of the three restarts: LO3("1").
StartLO3(tk, p) == Create(tk, "LO3R", "LO3", 2, 2, p)

EnterPeriod(p, tk) ==
    LET quiet == Remove(tk, "LIST") IN
    \/ /\ MayBalance
       /\ state' = p
       /\ ready' = FALSE
       /\ task' = StartLO3(quiet, p)
       /\ SvRestart(1) /\ endless' = FALSE         \* esl.cfg, esl-ot.cfg
    \/ /\ MayFail /\ p = "FIRST_HALF"
       /\ EnterWarmup(quiet)
    \/ /\ MayFail /\ p # "FIRST_HALF"
       /\ EnterHalftime(quiet, FALSE)
       /\ UNCHANGED <<game, gameIn>>

EnterEnd(tk, rdy) ==
    /\ state' = "END"
    /\ ready' = rdy
    /\ voteMap' = TRUE
    /\ task' = ArmNext(tk, 5, "END")
    /\ UNCHANGED <<gameVars, voteTeam>>

\* A mutant: nothing follows the captains.
CaptainStopSilent(tk, p) ==
    /\ picking' = FALSE
    /\ knife' = (knife \/ KnifeRoundPlay)
    /\ task' = Remove(tk, "LIST")

\* CCaptain::Stop: the choice of the players is over.
CaptainStop(tk, p) ==
    /\ picking' = FALSE
    /\ knife' = (knife \/ KnifeRoundPlay)
    /\ task' = ArmNext(Remove(tk, "LIST"), 3, p)

\* CVoteTeam::SetMode: 0 captains, 1 and 3 shuffle and restart the round, 4 swaps
\* the players, 5 is the knife round.
SetMode(mode, tk, p) ==
    \/ /\ mode = 0 /\ inGame > CaptainQuorum
       /\ picking' = TRUE
       /\ inGame' = 2
       /\ task' = Create(tk, "LIST", "Captain.List", 0, 0, p)
       /\ rosterT' \in Roster
       /\ UNCHANGED <<knife, gameVars>>
    \/ /\ mode = 0 /\ ~(inGame > CaptainQuorum)
       /\ CaptainStop(tk, p)
       /\ UNCHANGED <<inGame, rosterT, gameVars>>
    \/ /\ mode \in 1..5
       /\ knife' = (knife \/ mode = 5 \/ KnifeRoundPlay)
       /\ task' = ArmNext(tk, 3, p)
       /\ rosterT' \in CASE mode \in {1, 3} -> Roster
                        [] mode = 4 -> {Other(rosterT)}
                        [] OTHER -> {rosterT}
       /\ IF mode \in {1, 3}
          THEN game' = "freeze" /\ gameIn' = FreezeTime /\ ended' = FALSE
          ELSE UNCHANGED <<game, gameIn, ended>>
       /\ UNCHANGED <<endless, picking, inGame>>

\* vm and vt: the two cvars at the call.
EnterStart(tk, vm, vt) ==
    LET quiet == Remove(tk, "LIST")
        mapFirst == vm /\ VoteMapType # 0
    IN  /\ state' = "START"
        /\ ready' = FALSE
        /\ voteTeam' = vt
        /\ voteMap' = (vm /\ ~mapFirst)
        /\ \/ /\ mapFirst /\ VoteMapType = 1
              /\ task' = OpenVote(quiet, "VoteMap.Stop", "START")
              /\ UNCHANGED <<knife, picking, inGame, rosterT, gameVars>>
           \/ /\ mapFirst /\ VoteMapType = 2
              /\ task' = ChangelevelDelay(quiet, "START")
              /\ UNCHANGED <<knife, picking, inGame, rosterT, gameVars>>
           \/ /\ ~mapFirst /\ vt = -1
              /\ task' = OpenVote(quiet, "VoteTeam.Stop", "START")
              /\ UNCHANGED <<knife, picking, inGame, rosterT, gameVars>>
           \/ /\ ~mapFirst /\ vt # -1
              /\ SetMode(vt, quiet, "START")

-------------------------------------------------------------------------------
(* RunState: the phase that follows, and its SetState.                     *)

\* A mutant: half of the rounds already ends the regular time.
AfterHalftimeEarly == IF GetRound < Half THEN "SECOND_HALF" ELSE "OVERTIME"

AfterHalftime == IF GetRound < PlayRounds THEN "SECOND_HALF" ELSE "OVERTIME"

\* A mutant: every tied match goes to overtime, whatever pug_play_overtime says.
AfterSecondHalfAlways ==
    IF GetScores("T") = Half /\ GetScores("CT") = Half THEN "HALFTIME" ELSE "END"

AfterSecondHalf ==
    IF GetScores("T") = Half /\ GetScores("CT") = Half /\ OvertimeType = 1
    THEN "HALFTIME" ELSE "END"

NextPhase ==
    CASE state = "DEAD" -> "WARMUP"
      [] state = "WARMUP" -> "START"
      [] state = "START" -> "FIRST_HALF"
      [] state = "FIRST_HALF" -> "HALFTIME"
      [] state = "HALFTIME" -> AfterHalftime
      [] state = "SECOND_HALF" -> AfterSecondHalf
      [] state = "OVERTIME" -> IF OvertimeWinner(round, score) THEN "END" ELSE "HALFTIME"
      [] state = "END" -> IF VoteMapEnd /\ VoteMapType = 1 THEN "START" ELSE "WARMUP"

RunState(tk, rdy) ==
    \/ /\ NextPhase = "WARMUP"
       /\ EnterWarmup(tk)
       /\ UNCHANGED <<scoreVars, rosterT, setupVars, ended>>
    \/ /\ NextPhase = "START"
       /\ EnterStart(tk, voteMap, voteTeam)
       /\ UNCHANGED scoreVars
    \/ /\ NextPhase = "FIRST_HALF"
       /\ ClearPeriod("FIRST_HALF", rosterT)
       /\ EnterPeriod("FIRST_HALF", tk)
       /\ UNCHANGED <<setupVars, ended>>
    \/ /\ NextPhase = "HALFTIME"
       /\ EnterHalftime(tk, rdy)
       /\ UNCHANGED <<scoreVars, rosterT, game, gameIn, ended, setupVars>>
    \/ /\ NextPhase \in {"SECOND_HALF", "OVERTIME"}
       /\ EnterPeriod(NextPhase, tk)
       /\ UNCHANGED <<scoreVars, rosterT, setupVars, ended>>
    \/ /\ NextPhase = "END"
       /\ EnterEnd(tk, rdy)
       /\ UNCHANGED <<scoreVars, rosterT, knife, picking, inGame>>

-------------------------------------------------------------------------------
(* Start of a map: ServerActivate.                                         *)

BootPhase == IF AutoStartDelay = 0 THEN "WARMUP" ELSE "DEAD"

BootTasks ==
    IF AutoStartDelay = 0 THEN ReadyLoad(NoTasks, "WARMUP")
    ELSE ArmNext(NoTasks, AutoStartDelay, "DEAD")

Init ==
    /\ state = BootPhase
    /\ task = BootTasks
    /\ ready = (BootPhase = "WARMUP")
    /\ round = NoRounds /\ score = NoScore /\ credit = NoCredit /\ rosterT = "A"
    /\ knife = FALSE /\ picking = FALSE
    /\ voteMap = FALSE /\ voteTeam = VoteTeamType
    /\ inGame = 0
    /\ game = "play" /\ gameIn = 0 /\ ended = FALSE /\ endless = (BootPhase = "WARMUP")

\* ServerDeactivate, then ServerActivate: the timers and the captains go, a match
\* that was on owes a map vote, everything else survives in its globals.
MapChange ==
    /\ Due(task, "CMAP")
    /\ state' = BootPhase
    /\ task' = BootTasks
    /\ ready' = (ready \/ BootPhase = "WARMUP")
    /\ picking' = FALSE
    /\ voteMap' = (voteMap \/ state \in InMatch)
    /\ voteTeam' = VoteTeamType
    /\ inGame' = 0
    /\ game' = "play" /\ gameIn' = 0 /\ ended' = FALSE
    /\ endless' = (endless \/ BootPhase = "WARMUP")
    /\ UNCHANGED <<scoreVars, rosterT, knife>>

-------------------------------------------------------------------------------
(* The engine and the clock.                                               *)

RoundRestart ==
    /\ game \in {"over", "reset"} /\ gameIn = 0
    /\ game' = "freeze" /\ gameIn' = FreezeTime /\ ended' = FALSE
    /\ UNCHANGED <<state, task, ready, scoreVars, rosterT, setupVars, endless>>

FreezeEnd ==
    /\ game = "freeze" /\ gameIn = 0
    /\ game' = "play"
    /\ UNCHANGED <<state, task, ready, scoreVars, rosterT, setupVars, gameIn, ended, endless>>

\* A second passes once every callback of this frame has run.
Tick ==
    /\ \A s \in OneShots : ~Due(task, s)
    /\ game = "play" \/ gameIn > 0
    /\ task' = Elapse(task)
    /\ gameIn' = IF gameIn > 0 THEN gameIn - 1 ELSE 0
    /\ UNCHANGED <<state, ready, scoreVars, rosterT, setupVars, game, ended, endless>>

-------------------------------------------------------------------------------
(* RoundEnd: the knife round first, then the match.                        *)

\* A mutant: the first half ends one round early.
PeriodOverEarly(p, rd, sc) ==
    \/ p = "FIRST_HALF" /\ Rounds(rd) >= Half - 1
    \/ p = "SECOND_HALF" /\ \E t \in Team : Points(sc, t) >= Half

\* The period has run its rounds (rd, sc: after this one).
PeriodOver(p, rd, sc) ==
    \/ p = "FIRST_HALF" /\ Rounds(rd) >= Half
    \/ p = "SECOND_HALF" /\ \E t \in Team : Points(sc, t) > Half
    \/ /\ p = "SECOND_HALF" /\ OvertimeType \in {1, 2}
       /\ \A t \in Team : Points(sc, t) = Half
    \/ /\ p = "OVERTIME"
       /\ OvertimeWinner(rd, sc) \/ Rounds(rd) % HalfOvertime = 0

\* CVoteOvertime::Init is called.
TieVote(p, sc) ==
    p = "SECOND_HALF" /\ OvertimeType = 3 /\ \A t \in Team : Points(sc, t) = Half

AfterRound(p, rd, sc, tk) ==
    IF PeriodOver(p, rd, sc) THEN ArmNext(tk, RoundDelay, p)
    ELSE IF TieVote(p, sc) THEN OpenVote(tk, "VoteOvertime.Stop", p)
    ELSE tk

\* A win counts unless the engine is in freeze time or about to reset.
Wins(win) == win \in Team /\ game = "play"

\* A mutant: draws count as rounds.
WithRoundDrawn(win, rd, p) == IF game = "play" THEN [rd EXCEPT ![p] = @ + 1] ELSE rd

WithRound(win, rd, p) == IF Wins(win) THEN [rd EXCEPT ![p] = @ + 1] ELSE rd
WithPoint(win, sc, p, who) == IF Wins(win) THEN [sc EXCEPT ![p][who] = @ + 1] ELSE sc

\* External: the engine decides the round and will restart it; EarlyEnd: before it is
\* played too, when a team has left or the restart is already under way.
MayEnd ==
    /\ game = "play" \/ "EarlyEnd" \in Requests
    /\ ~ended /\ ~endless /\ GetRound < MaxRounds

Terminate(delay) ==
    /\ ended' = TRUE
    /\ game' = IF game = "reset" THEN "reset" ELSE "over"
    /\ gameIn' = delay

\* With a knife round on: one that an extermination ended.
RoundEnd(win) ==
    LET tk == IF knife THEN OpenVote(task, "Knife.VoteEnd", state) ELSE task
        rd == WithRound(win, round, state)
        sc == WithPoint(win, score, state, win)
        vote == knife \/ (state \in Live /\ TieVote(state, sc))
    IN  /\ MayEnd
        /\ knife => win \in Team
        /\ Terminate(IF vote THEN VoteDelay ELSE RoundDelay)
        /\ IF state \in Live
           THEN /\ round' = rd
                /\ score' = sc
                /\ credit' = WithPoint(win, credit, state, Playing(win, rosterT))
                /\ task' = AfterRound(state, rd, sc, tk)
           ELSE task' = tk /\ UNCHANGED scoreVars
        /\ UNCHANGED <<state, ready, rosterT, endless, setupVars>>

\* A knife round that ended in another way: the period restarts, and the round
\* that has just ended counts in the restarted period if it went live.
KnifeRoundFailed(win) ==
    LET quiet == Remove(task, "LIST")
        rd == WithRound(win, Cleared(round, NoRounds, state), state)
        sc == WithPoint(win, Cleared(score, NoScore, state), state, win)
        t == IF state = "FIRST_HALF" THEN "A" ELSE rosterT
        cr == WithPoint(win, Cleared(credit, NoCredit, state), state, Playing(win, t))
    IN  /\ MayEnd /\ knife
        /\ knife' = KnifeRoundEndType
        /\ ended' = TRUE
        /\ \/ /\ state \notin Live
              /\ Terminate(RoundDelay)
              /\ UNCHANGED <<state, task, ready, scoreVars, rosterT, endless>>
           \/ /\ state \in Live /\ MayBalance
              /\ round' = rd /\ score' = sc /\ credit' = cr /\ rosterT' = t
              /\ task' = AfterRound(state, rd, sc, StartLO3(quiet, state))
              /\ ready' = FALSE
              /\ SvRestart(1)
              /\ UNCHANGED <<state, endless>>
           \/ /\ state = "FIRST_HALF" /\ MayFail
              /\ ClearPeriod(state, rosterT)
              /\ EnterWarmup(quiet)
           \/ /\ state \in {"SECOND_HALF", "OVERTIME"} /\ MayFail
              /\ ClearPeriod(state, rosterT)
              /\ EnterHalftime(quiet, FALSE)
              /\ Terminate(RoundDelay)
        /\ UNCHANGED <<picking, inGame, voteMap, voteTeam>>

-------------------------------------------------------------------------------
(* Timer callbacks.                                                        *)

\* CReady::List, in whatever phase it is polled.
ReadyDone ==
    /\ Due(task, "LIST") /\ task["LIST"].run = "Ready.List"
    /\ IF ReadyType THEN inGame >= PlayersMin ELSE inGame = PlayersMin
    /\ RunState(Remove(task, "LIST"), FALSE)

\* A mutant: the task of NEXT is not removed before it is called.
NextDueKept ==
    /\ Due(task, "NEXT") /\ task["NEXT"].run = "RunState"
    /\ RunState(task, ready)

NextDue ==
    /\ Due(task, "NEXT") /\ task["NEXT"].run = "RunState"
    /\ RunState(Remove(task, "NEXT"), ready)

\* CVoteMap::Fail.
VoteMapFail ==
    LET tk == Remove(task, "NEXT") IN
    /\ Due(task, "NEXT") /\ task["NEXT"].run = "VoteMap.Fail"
    /\ \/ /\ VoteMapFailType = 0
          /\ RunState(tk, ready)
       \/ /\ VoteMapFailType # 0
          /\ task' = IF VoteMapFailType = 1 THEN OpenVote(tk, "VoteMap.Stop", state)
                     ELSE ChangelevelDelay(tk, state)
          /\ UNCHANGED <<state, ready, scoreVars, gameVars, rosterT, setupVars>>

\* LO3: two more restarts, then the period is live with a clean slate.
LO3 ==
    LET tk == Remove(task, "LO3R")
        n == task["LO3R"].arg
    IN  /\ Due(task, "LO3R")
        /\ IF n <= 3
           THEN /\ SvRestart(n) /\ UNCHANGED <<ended, endless>>
                /\ task' = Create(tk, "LO3R", "LO3", n + 1, n + 1, state)
                /\ UNCHANGED scoreVars
           ELSE /\ task' = tk
                /\ IF state \in Live
                   THEN /\ round' = [round EXCEPT ![state] = 0]
                        /\ score' = [score EXCEPT ![state] = NoScore[state]]
                        /\ credit' = [credit EXCEPT ![state] = NoCredit[state]]
                   ELSE UNCHANGED scoreVars
                /\ UNCHANGED gameVars
        /\ UNCHANGED <<state, ready, rosterT, setupVars>>

\* Mutants: the points of one period stay with their side.
SwapScoresNotFirst(sc) ==
    [p \in Live |-> [t \in Team |->
        IF p = "FIRST_HALF" THEN sc[p][t] ELSE sc[p][IF t = "T" THEN "CT" ELSE "T"]]]

SwapScoresNotOvertime(sc) ==
    [p \in Live |-> [t \in Team |->
        IF p = "OVERTIME" THEN sc[p][t] ELSE sc[p][IF t = "T" THEN "CT" ELSE "T"]]]

SwapScores(sc) == [p \in Live |-> [t \in Team |-> sc[p][IF t = "T" THEN "CT" ELSE "T"]]]

\* A mutant: a tied score is enough, at any halftime.
StayPutTied == Tied(score) /\ ~OvertimeSwap

\* Before an overtime the teams stay where they are.
StayPut == GetRound >= PlayRounds /\ Tied(score) /\ ~OvertimeSwap

SwapTeams ==
    /\ Due(task, "EXEC")
    /\ task' = Remove(task, "EXEC")
    /\ IF StayPut
       THEN UNCHANGED <<score, rosterT>>
       ELSE score' = SwapScores(score) /\ rosterT' = Other(rosterT)
    /\ UNCHANGED <<state, ready, round, credit, gameVars, setupVars>>

-------------------------------------------------------------------------------
(* Vote sessions: Stop runs when the timer expires or, from a menu, when   *)
(* the last player has voted.  The elected item is the players' choice; no *)
(* vote at all can only be the outcome of an expired timer.                *)

VoteOpen(stop) == task["VOTE"].run = stop
Expired == task["VOTE"].left = 0
VoteClosed == Remove(task, "VOTE")
VoteAndListClosed == Remove(VoteClosed, "LIST")

\* A mutant: a map vote without votes is forgotten.
VoteMapStopForgotten ==
    /\ VoteOpen("VoteMap.Stop")
    /\ \/ task' = ChangelevelDelay(VoteClosed, state)
       \/ Expired /\ task' = VoteAndListClosed
    /\ UNCHANGED <<state, ready, scoreVars, gameVars, rosterT, setupVars>>

VoteMapStop ==
    /\ VoteOpen("VoteMap.Stop")
    /\ \/ task' = ChangelevelDelay(VoteClosed, state)
       \/ Expired /\ task' = Create(VoteAndListClosed, "NEXT", "VoteMap.Fail", 0, 5, state)
    /\ UNCHANGED <<state, ready, scoreVars, gameVars, rosterT, setupVars>>

\* A mutant: a team vote without votes is forgotten.
VoteTeamStopForgotten ==
    /\ VoteOpen("VoteTeam.Stop")
    /\ \/ \E mode \in TeamModes : SetMode(mode, VoteAndListClosed, state)
       \/ /\ Expired
          /\ task' = VoteAndListClosed
          /\ UNCHANGED <<knife, picking, inGame, rosterT, gameVars>>
    /\ UNCHANGED <<state, ready, scoreVars, voteVars>>

VoteTeamStop ==
    /\ VoteOpen("VoteTeam.Stop")
    /\ \/ \E mode \in TeamModes : SetMode(mode, VoteAndListClosed, state)
       \/ /\ Expired
          /\ task' = ArmNext(VoteAndListClosed, 3, state)
          /\ UNCHANGED <<knife, picking, inGame, rosterT, gameVars>>
    /\ UNCHANGED <<state, ready, scoreVars, voteVars>>

\* Play overtime, end tied, or play on (sudden death, or no vote).
VoteOvertimeStop ==
    /\ VoteOpen("VoteOvertime.Stop")
    /\ \/ EnterPeriod("OVERTIME", VoteAndListClosed) /\ UNCHANGED <<ended, voteVars>>
       \/ EnterEnd(VoteAndListClosed, ready)
       \/ /\ task' = VoteAndListClosed
          /\ UNCHANGED <<state, ready, gameVars, voteVars>>
    /\ UNCHANGED <<scoreVars, rosterT, knife, picking, inGame>>

\* CKnifeRound::Stop(true): the winners keep or change their side.  The players
\* move, the scores do not.
KnifeVoteEnd ==
    /\ VoteOpen("Knife.VoteEnd")
    /\ knife' = FALSE
    /\ \E t \in {rosterT, Other(rosterT)} :
          IF state \in Live
          THEN ClearPeriod(state, t) /\ EnterPeriod(state, VoteAndListClosed) /\ UNCHANGED ended
          ELSE /\ rosterT' = t
               /\ task' = VoteAndListClosed
               /\ UNCHANGED <<state, ready, scoreVars, gameVars>>
    /\ UNCHANGED <<picking, inGame, voteVars>>

\* CCaptain::GetPlayer: a captain takes a spectator; the last pick ends it, when both
\* teams have half of pug_players_min or no spectator is left (which one is a choice).
CaptainPick(last) ==
    /\ picking /\ inGame < PlayersMax
    /\ inGame + 1 = PlayersMax => last
    /\ inGame' = inGame + 1
    /\ IF last THEN CaptainStop(task, state) ELSE UNCHANGED <<picking, knife, task>>
    /\ UNCHANGED <<state, ready, scoreVars, gameVars, rosterT, voteVars>>

-------------------------------------------------------------------------------
(* Players.                                                                *)

\* ClientJoinTeam: no one joins while the teams are being chosen.
Join ==
    /\ state # "START" /\ inGame < PlayersMax
    /\ inGame' = inGame + 1
    /\ UNCHANGED <<state, task, ready, scoreVars, gameVars, rosterT, knife, picking, voteVars>>

\* SV_DropClient calls the handlers before the client is gone, so inGame still
\* counts it.  captain: a captain left and no spectator can replace him.
Disconnect(inTeam, captain) ==
    LET tk == IF captain THEN ArmNext(Remove(task, "LIST"), 3, state) ELSE task IN
    /\ "Leave" \in Requests
    /\ inTeam => inGame > 0
    /\ captain => inTeam /\ picking
    /\ inGame' = IF inTeam THEN inGame - 1 ELSE inGame
    /\ picking' = (picking /\ ~captain)
    /\ knife' = (knife \/ (captain /\ KnifeRoundPlay))
    /\ IF state \in InMatch /\ 2 * inGame < PlayersMin
       THEN EnterEnd(tk, ready)
       ELSE task' = tk /\ UNCHANGED <<state, ready, gameVars, voteVars>>
    /\ UNCHANGED <<scoreVars, rosterT>>

-------------------------------------------------------------------------------
(* Requests of administrators, and of votes that act like them.            *)

\* A mutant: the ready system stays on.
StartVoteMapReady ==
    /\ "StartVoteMap" \in Requests
    /\ state \notin {"DEAD", "START", "END"}
    /\ task' = OpenVote(task, "VoteMap.Stop", state)
    /\ UNCHANGED <<state, ready, scoreVars, gameVars, rosterT, setupVars>>

StartVoteMap ==
    /\ "StartVoteMap" \in Requests
    /\ state \notin {"DEAD", "START", "END"}
    /\ ready' = FALSE
    /\ task' = OpenVote(task, "VoteMap.Stop", state)
    /\ UNCHANGED <<state, scoreVars, gameVars, rosterT, setupVars>>

StartVoteTeam ==
    /\ "StartVoteTeam" \in Requests
    /\ state = "WARMUP"
    /\ EnterStart(task, FALSE, -1)
    /\ UNCHANGED scoreVars

StartMatch ==
    /\ "StartMatch" \in Requests
    /\ state \in {"WARMUP", "HALFTIME"}
    /\ task' = ArmNext(task, 1, state)
    /\ UNCHANGED <<state, ready, scoreVars, gameVars, rosterT, setupVars>>

\* A mutant: the restarts go on.
StopMatchAnnounced ==
    /\ "StopMatch" \in Requests
    /\ state \in InMatch
    /\ EnterEnd(task, ready)
    /\ UNCHANGED <<scoreVars, rosterT, knife, picking, inGame>>

StopMatch ==
    /\ "StopMatch" \in Requests
    /\ state \in InMatch
    /\ EnterEnd(Remove(task, "LO3R"), ready)
    /\ UNCHANGED <<scoreVars, rosterT, knife, picking, inGame>>

\* The administrator's command and the players' vote.
RestarPeriod ==
    /\ "RestartPeriod" \in Requests
    /\ state \in Live
    /\ ClearPeriod(state, rosterT)
    /\ EnterPeriod(state, task)
    /\ UNCHANGED <<setupVars, ended>>

\* A mutant: a level score is not declared.
MustDeclareBehind(winner) == \E t \in Team \ {winner} : GetScores(winner) < GetScores(t)

\* The winner of a surrender does not lead: the score must be declared.
MustDeclare(winner) == \E t \in Team \ {winner} : GetScores(winner) <= GetScores(t)

\* EndGame, when the other side surrenders; history credits the declared score to
\* the roster of the winner.
EndGame(winner) ==
    LET rounds(p) == IF p = "FIRST_HALF" THEN Half ELSE IF p = "SECOND_HALF" THEN 1 ELSE 0
        declared == [p \in Live |-> [t \in Team |-> IF t = winner THEN rounds(p) ELSE 0]]
    IN  /\ "Surrender" \in Requests
        /\ state \in Live /\ ~Exists(task, "EXEC")
        /\ IF MustDeclare(winner)
           THEN /\ round' = [p \in Live |-> rounds(p)]
                /\ score' = declared
                /\ credit' = [p \in Live |-> [r \in Roster |->
                                  IF r = Playing(winner, rosterT) THEN rounds(p) ELSE 0]]
           ELSE UNCHANGED scoreVars
        /\ EnterEnd(task, ready)
        /\ UNCHANGED <<rosterT, knife, picking, inGame>>

ToggleReady ==
    /\ "ToggleReady" \in Requests
    /\ state = "WARMUP"
    /\ ready' = ~ready
    /\ task' = IF ready THEN Remove(task, "LIST") ELSE ReadyLoad(task, state)
    /\ UNCHANGED <<state, scoreVars, gameVars, rosterT, setupVars>>

ChangeMap ==
    /\ "ChangeMap" \in Requests
    /\ task' = ChangelevelDelay(task, state)
    /\ UNCHANGED <<state, ready, scoreVars, gameVars, rosterT, setupVars>>

-------------------------------------------------------------------------------
EngineStep == RoundRestart \/ FreezeEnd
RoundOver == \E win \in Team \cup {"DRAW"} : RoundEnd(win) \/ KnifeRoundFailed(win)
VoteStop == VoteMapStop \/ VoteTeamStop \/ VoteOvertimeStop \/ KnifeVoteEnd
Callback == NextDue \/ VoteMapFail \/ LO3 \/ SwapTeams \/ MapChange
Player ==
    \/ Join
    \/ \E inTeam, captain \in BOOLEAN : Disconnect(inTeam, captain)
    \/ \E last \in BOOLEAN : CaptainPick(last)
Admin ==
    \/ StartVoteMap \/ StartVoteTeam \/ StartMatch \/ StopMatch \/ RestarPeriod
    \/ ToggleReady \/ ChangeMap
    \/ \E winner \in Team : EndGame(winner)

Next == EngineStep \/ RoundOver \/ Tick \/ Callback \/ VoteStop \/ ReadyDone \/ Player \/ Admin

Spec == Init /\ [][Next]_vars

(* The clock of the server runs, StartFrame polls the timers and the engine in   *)
(* every frame, a captain who does not choose is answered by his 10 seconds, and  *)
(* a timer that has expired is called.                                            *)
Fairness ==
    /\ WF_vars(Tick)
    /\ WF_vars(EngineStep)
    /\ WF_vars(Callback)
    /\ WF_vars(Expired /\ VoteStop)
    /\ WF_vars(\E last \in BOOLEAN : CaptainPick(last))

(* Players keep coming and get ready, and they win rounds: the round time of the  *)
(* engine gives every round a winner, so that no match is drawn round by round.   *)
RoundWon == game = "play" /\ \E win \in Team : RoundEnd(win)
Attendance == WF_vars(Join) /\ SF_vars(ReadyDone) /\ SF_vars(RoundWon)

FairSpec == Spec /\ Fairness
PlayedSpec == FairSpec /\ Attendance

-------------------------------------------------------------------------------
Callbacks == {"none", "Ready.List", "Vote.List", "Captain.List", "VoteMap.Stop", "VoteTeam.Stop",
              "VoteOvertime.Stop", "Knife.VoteEnd", "VoteMap.Fail", "RunState", "LO3",
              "SwapTeams", "Changelevel"}
TaskType == [run : Callbacks, arg : 0..4, left : Nat, from : Phases \cup {"none"}]

\* Every variable holds a value its C++ type and its writers allow.
TypeOK ==
    /\ state \in Phases
    /\ round \in [Live -> Nat]
    /\ score \in [Live -> [Team -> Nat]]
    /\ credit \in [Live -> [Roster -> Nat]]
    /\ rosterT \in Roster
    /\ task \in [Slots -> TaskType]
    /\ ready \in BOOLEAN /\ knife \in BOOLEAN /\ picking \in BOOLEAN /\ voteMap \in BOOLEAN
    /\ voteTeam \in -1..5
    /\ inGame \in 0..PlayersMax
    /\ game \in {"freeze", "play", "over", "reset"} /\ gameIn \in Nat
    /\ ended \in BOOLEAN /\ endless \in BOOLEAN

\* Every round the match counts belongs to one of the teams, in every period: what
\* GetRound schedules by and what GetScores decides by cannot drift apart.
RoundsAreScores == \A p \in Live : round[p] = score[p]["T"] + score[p]["CT"]

\* During a match, the points of a side are the rounds won by the players who sit
\* on it: scores and players change sides together (SwapTeams, LO3, restarts).
ScoreFollowsRoster ==
    state \in InMatch =>
        \A p \in Live, t \in Team : score[p][t] = credit[p][Playing(t, rosterT)]

\* The timer that will advance the match was set by the phase it will leave: none
\* survives a change of phase to cut the next one short.
NextIsFresh == Exists(task, "NEXT") => task["NEXT"].from = state

\* Team selection and the end of a match always have something to end them.
SetupPending ==
    state \in {"START", "END"} => picking \/ \E s \in {"NEXT", "VOTE", "CMAP"} : Exists(task, s)

\* While the ready system runs, CReady::List is polled, so that players who are
\* ready can start the match.
ReadyIsPolled == ready /\ state \in {"WARMUP", "HALFTIME"} => task["LIST"].run = "Ready.List"

\* Once the second half is live, each roster has changed sides (SwapTeams ran, once).
SidesSwapped ==
    state = "SECOND_HALF" /\ ~Exists(task, "LO3R") => rosterT = "B"

\* A match that ends by its rounds or by a surrender has a winner, unless its rules
\* let it end tied.
EndHasWinner ==
    [][(NextDue \/ \E winner \in Team : EndGame(winner)) /\ state' = "END"
          /\ OvertimeType \in {0, 1} => ~Tied(score')]_vars

\* The first half ends when its rounds have been played, not before.
HalftimeOnSchedule ==
    [][state = "FIRST_HALF" /\ state' = "HALFTIME" => GetRound >= Half]_vars

FirstHalfKept ==
    /\ round'["FIRST_HALF"] = round["FIRST_HALF"]
    /\ credit'["FIRST_HALF"] = credit["FIRST_HALF"]

\* While the match goes on, nothing rewrites the rounds of the half that is over:
\* restarts and LO3 touch the period being played, and SwapTeams moves the points.
FinishedHalfStands ==
    [][{state, state'} \subseteq InMatch \ {"FIRST_HALF"} => FirstHalfKept]_vars

\* The teams change sides before the period is live, however the halftime was left.
SwapBeforeLive == [][SwapTeams /\ state \in Live => Exists(task, "LO3R")]_vars

\* "Match is live" is announced, and the counters are cleared, only in a live period.
LiveWhileLive == [][LO3 => state \in Live]_vars

\* An overtime is entered from the halftime or the vote that a tied match leads to;
\* the later overtimes follow halftimes too.
OvertimeNeedsTie ==
    [][state # "OVERTIME" /\ state' = "OVERTIME" =>
          state \in {"SECOND_HALF", "HALFTIME"} /\ (round["OVERTIME"] = 0 => Tied(score))]_vars

\* Team selection comes to an end, whoever votes or picks.
SetupEnds == state = "START" ~> state # "START"

\* A match that is played is finished: with players who attend, get ready and win
\* rounds, and rounds that are not all decided before they are played, RunState takes a
\* live period to END.
RoundsArePlayed == []<>(game = "freeze") => []<>(game = "play")
MatchCompletes == RoundsArePlayed => (state \in Live ~> state = "END")

\* An overtime that one side wins round by round comes to an end.
OneSided == [](credit["OVERTIME"]["B"] = 0)
OvertimeIsWon == OneSided /\ RoundsArePlayed => (state = "OVERTIME" ~> state = "END")

===============================================================================
