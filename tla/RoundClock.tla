------------------------------ MODULE RoundClock ------------------------------
(***************************************************************************)
(* The components that move the engine's round clock during a half: team   *)
(* timeouts (CVotePause), the pause of an administrator (PauseMatch and    *)
(* RoundRestart of CPugMod), which share the timer slot PAUS, and the knife*)
(* round with the vote of its winners (CKnifeRound), which puts off the    *)
(* restart of the round.  PugMod has the phases around this and the scores;*)
(* the phases here are only those between which pauses are counted, and     *)
(* nobody joins: a client without votes only changes the head counts.      *)
(*                                                                         *)
(* The engine (ReGameDLL) is external.  "freeze", "elapsed" and "length"   *)
(* are m_bFreezePeriod, the seconds since m_fRoundStartTime and            *)
(* m_iRoundTimeSecs; "restartIn" counts down to m_flRestartRoundTime,      *)
(* "reset" is m_bCompleteReset, "winStatus" m_iRoundWinStatus.  In a frame *)
(* the engine acts before the timers of the plugin (DLL_POST_StartFrame).  *)
(***************************************************************************)
EXTENDS Integers, FiniteSets, FiniteSetsExt

CONSTANTS
    Clients, Terrorists,                \* entity indexes, all human; those who start as T
    Off,                                \* a clock that does not run
    VotePauseTime, VotePauseLimit,      \* pug_vote_pause_time, pug_vote_pause_limit
    VotePauseFreezetime,                \* pug_vote_pause_freezetime
    VotePercentage,                     \* pug_vote_percentage, in percent
    PauseCount,                         \* pug_pause_count
    VoteDelay,                          \* pug_vote_delay
    KnifeRoundPlay, KnifeRoundEndType,  \* pug_knife_round_play, pug_knife_round_end_type
    FreezeTime, RoundTime, RoundDelay, ResetDelay,  \* the engine's times
    Events                              \* "Pause", "Leave": an administrator, and people who go

Team == {"T", "CT"}
NoTeam == "UNASSIGNED"
Other(t) == IF t = "T" THEN "CT" ELSE "T"
Halves == {"FIRST_HALF", "SECOND_HALF"}
Phases == Halves \cup {"HALFTIME"}

ASSUME TimesAssumption ==
    /\ {FreezeTime, RoundTime, RoundDelay, ResetDelay, VoteDelay} \subseteq Nat \ {0}
    /\ {VotePauseTime, VotePauseLimit, PauseCount, VotePercentage} \subseteq Nat
    /\ Off \notin Nat /\ Off \notin {"VotePauseTimer", "PauseTimer"}
ASSUME ClientsAssumption == IsFiniteSet(Clients) /\ Terrorists \subseteq Clients
ASSUME SwitchAssumption ==
    /\ {VotePauseFreezetime, KnifeRoundPlay, KnifeRoundEndType} \subseteq BOOLEAN
    /\ Events \subseteq {"Pause", "Leave"}

VARIABLES
    state,      \* CPugMod::m_State, as far as it matters here
    seat,       \* m_iTeam of every client, or "OUT"
    freeze, elapsed, length, restartIn, reset, winStatus,
    paus,       \* the callback of slot PAUS, or Off
    adminPause, \* CPugMod::m_Pause
    pause,      \* CVotePause::m_Pause
    pauseVotes, \* CVotePause::m_Votes, as pairs of client and team
    count,      \* CVotePause::m_Count
    knife,      \* CKnifeRound::m_Running
    vote,       \* seconds to CKnifeRound::VoteEnd in slot VOTE
    sideVotes,  \* CKnifeRound::m_Votes
    asked,      \* clients with the menu of the knife vote on the screen
    knifeWon,   \* history: the side that won the knife round
    refrozen    \* history: the freeze was begun in a round that was being played

clockVars == <<freeze, elapsed, length, refrozen>>
roundVars == <<restartIn, reset, winStatus>>
pauseVars == <<paus, adminPause, pause, pauseVotes, count>>
knifeVars == <<knife, vote, sideVotes, asked, knifeWon>>
vars == <<state, seat, clockVars, roundVars, pauseVars, knifeVars>>

Members(t) == {c \in Clients : seat[c] = t}
Present == {c \in Clients : seat[c] # "OUT"}
IsLive == state \in Halves
NoVotes == [t \in Team |-> 0]
NoCount == [t \in Team |-> [h \in Halves |-> 0]]

Init ==
    /\ state = "FIRST_HALF"
    /\ seat = [c \in Clients |-> IF c \in Terrorists THEN "T" ELSE "CT"]
    /\ freeze = TRUE /\ elapsed = 0 /\ length = FreezeTime /\ refrozen = FALSE
    /\ restartIn = ResetDelay /\ reset = TRUE /\ winStatus = "NONE"
    /\ paus = Off /\ adminPause = FALSE /\ pause = NoTeam /\ pauseVotes = {} /\ count = NoCount
    /\ knife = KnifeRoundPlay /\ vote = Off /\ sideVotes = NoVotes /\ asked = {} /\ knifeWon = NoTeam

-------------------------------------------------------------------------------
(* CUtil::SetRoundTime, CVotePause::Clear and CPugMod::RestarPeriod.  The  *)
(* three restarts of LO3 are one complete reset here.                      *)

SetRoundTime(time) ==
    IF reset THEN UNCHANGED clockVars
    ELSE freeze' = TRUE /\ elapsed' = 0 /\ length' = time /\ refrozen' = ~freeze

\* The mp_freezetime of the configuration of the phase.
MpFreezeTime == IF IsLive THEN FreezeTime ELSE 0

RestarPeriod ==
    /\ reset' = TRUE /\ restartIn' = ResetDelay
    /\ IF state = "FIRST_HALF"
       THEN pause' = NoTeam /\ pauseVotes' = {} /\ count' = NoCount
       ELSE UNCHANGED <<pause, pauseVotes, count>>

-------------------------------------------------------------------------------
(* The engine, with the hooks of the plugin.                               *)

\* A restarted round freezes; a pause that waits for it makes the freeze longer, the
\* team's after the administrator's.
RestartRound ==
    /\ restartIn = 0
    /\ restartIn' = Off /\ reset' = FALSE /\ winStatus' = "NONE"
    /\ freeze' = TRUE /\ elapsed' = 0 /\ refrozen' = FALSE
    /\ LET admin == IsLive /\ PauseCount > 0 /\ adminPause
           team == IsLive /\ VotePauseTime > 0 /\ pause # NoTeam
       IN /\ adminPause' = (adminPause /\ ~admin)
          /\ length' = IF admin \/ team THEN VotePauseTime ELSE MpFreezeTime
          /\ paus' = CASE team -> "VotePauseTimer" [] admin /\ ~team -> "PauseTimer"
                       [] OTHER -> paus
          /\ pauseVotes' = IF team THEN {} ELSE pauseVotes
    /\ UNCHANGED <<state, seat, pause, count, knifeVars>>

FreezeDue == freeze /\ elapsed >= length

FreezeEnd ==
    /\ FreezeDue
    /\ freeze' = FALSE /\ elapsed' = 0 /\ length' = RoundTime /\ refrozen' = FALSE
    /\ pause' = NoTeam
    /\ UNCHANGED <<state, seat, roundVars, paus, adminPause, pauseVotes, count, knifeVars>>

Played == IsLive /\ ~freeze /\ restartIn = Off
RoundDue == Played /\ elapsed >= RoundTime

\* CKnifeRound::StartVote.
StartVote(w) ==
    /\ sideVotes' = NoVotes /\ asked' = Members(w) /\ vote' = VoteDelay /\ knifeWon' = w
    /\ restartIn' = VoteDelay
    /\ UNCHANGED <<knife, reset, pause, pauseVotes, count>>

\* A knife round without a winner is replayed, or given up.
KnifeRoundFailed ==
    /\ knife' = KnifeRoundEndType
    /\ sideVotes' = IF KnifeRoundEndType THEN NoVotes ELSE sideVotes
    /\ RestarPeriod
    /\ UNCHANGED <<vote, asked, knifeWon>>

RoundEnd(w) ==
    /\ Played
    /\ winStatus' = w
    /\ CASE knife /\ w \in Team -> StartVote(w)
         [] knife /\ w \notin Team -> KnifeRoundFailed
         [] OTHER -> restartIn' = RoundDelay
                     /\ UNCHANGED <<reset, pause, pauseVotes, count, knifeVars>>
    /\ UNCHANGED <<state, seat, clockVars, paus, adminPause>>

\* The timer NEXT ends the half after its last round, and the halftime after a while; the
\* second half starts with the sides swapped and a complete reset.
NextState ==
    /\ ~knife /\ vote = Off
    /\ \/ /\ state = "FIRST_HALF" /\ winStatus # "NONE" /\ ~reset
          /\ state' = "HALFTIME" /\ UNCHANGED <<seat, roundVars>>
       \/ /\ state = "HALFTIME" /\ restartIn = Off /\ ~freeze
          /\ state' = "SECOND_HALF" /\ reset' = TRUE /\ restartIn' = ResetDelay
          /\ seat' = [c \in Clients |-> IF seat[c] = "OUT" THEN "OUT" ELSE Other(seat[c])]
          /\ UNCHANGED winStatus
    /\ UNCHANGED <<clockVars, pauseVars, knifeVars>>

-------------------------------------------------------------------------------
(* Slot PAUS: CVotePause::VotePauseTimer and CPugMod::PauseTimer.          *)

\* A mutant: both callbacks wait for the administrator's time.
PausLimitShared == PauseCount

PausLimit == IF paus = "PauseTimer" THEN PauseCount ELSE VotePauseTime
PausDue == paus # Off /\ elapsed >= PausLimit

PausTimer ==
    /\ PausDue /\ ~FreezeDue /\ restartIn # 0
    /\ paus' = Off
    /\ SetRoundTime(MpFreezeTime)
    /\ UNCHANGED <<state, seat, roundVars, adminPause, pause, pauseVotes, count, knifeVars>>

-------------------------------------------------------------------------------
(* Players and administrators.                                             *)

VotesNeed(t) == (Cardinality(Members(t)) * VotePercentage) \div 100

\* Who may vote for a timeout: CVotePause::Check, and the tests of VotePause on the other
\* team's pause and on the freeze time.
MayVotePause(t) ==
    /\ IsLive /\ VotePauseTime > 0 /\ vote = Off
    /\ count[t][state] < VotePauseLimit
    /\ pause \in {NoTeam, t}
    /\ freeze /\ pause # t => VotePauseFreezetime

\* A mutant: timeouts in freeze time do not count.
CountedLive(t) == IF freeze THEN count ELSE [count EXCEPT ![t][state] = @ + 1]

Counted(t) == [count EXCEPT ![t][state] = @ + 1]

VotePause(c) ==
    LET t == seat[c]
        votes == pauseVotes \cup {<<c, t>>}
        voters == {d \in Clients : <<d, t>> \in votes}
    IN /\ t \in Team /\ MayVotePause(t) /\ <<c, t>> \notin pauseVotes
       /\ IF Cardinality(voters) # VotesNeed(t)
          THEN pauseVotes' = votes /\ UNCHANGED <<clockVars, paus, pause, count>>
          ELSE /\ pause' = t /\ count' = Counted(t)
               /\ IF freeze
                  THEN /\ pauseVotes' = {} /\ paus' = "VotePauseTimer"
                       /\ SetRoundTime(VotePauseTime)
                  ELSE pauseVotes' = votes /\ UNCHANGED <<clockVars, paus>>
       /\ UNCHANGED <<state, seat, roundVars, adminPause, knifeVars>>

PauseMatch ==
    /\ "Pause" \in Events
    /\ IsLive /\ ~adminPause /\ pause = NoTeam
    /\ adminPause' = TRUE
    /\ UNCHANGED <<state, seat, clockVars, roundVars, paus, pause, pauseVotes, count, knifeVars>>

\* CKnifeRound::Stop(true) compares the ballots by m_iRoundWinStatus: whoever is not known
\* to be the Counter-Terrorists' winner is taken for the Terrorists'.
KnifeWinner == IF winStatus = "CT" THEN "CT" ELSE "T"

\* A mutant: a tie changes the teams.
ChangeTeamsTied(votes) == votes[Other(KnifeWinner)] >= votes[KnifeWinner]

ChangeTeams(votes) == votes[Other(KnifeWinner)] > votes[KnifeWinner]

VoteEnd(votes) ==
    /\ vote' = Off /\ asked' = {} /\ knife' = FALSE
    /\ seat' = IF ChangeTeams(votes)
               THEN [c \in Clients |-> IF seat[c] = "OUT" THEN "OUT" ELSE Other(seat[c])]
               ELSE seat
    /\ RestarPeriod

\* An answer in the menu; half of the players in the game are enough to end the vote.
MenuHandle(c, t) ==
    LET votes == [sideVotes EXCEPT ![t] = @ + 1]
    IN /\ c \in asked
       /\ sideVotes' = votes
       /\ IF votes["T"] + votes["CT"] >= Cardinality(Present) \div 2
          THEN VoteEnd(votes)
          ELSE /\ asked' = asked \ {c}
               /\ UNCHANGED <<seat, restartIn, reset, pause, pauseVotes, count, knife, vote>>
       /\ UNCHANGED <<state, clockVars, winStatus, paus, adminPause, knifeWon>>

VoteTimeout ==
    /\ vote = 0 /\ ~FreezeDue /\ restartIn # 0
    /\ VoteEnd(sideVotes)
    /\ UNCHANGED <<state, clockVars, winStatus, paus, adminPause, sideVotes, knifeWon>>

Disconnect(c) ==
    /\ "Leave" \in Events
    /\ seat[c] # "OUT"
    /\ seat' = [seat EXCEPT ![c] = "OUT"]
    /\ pauseVotes' = {v \in pauseVotes : v[1] # c}
    /\ asked' = asked \ {c}
    /\ UNCHANGED <<state, clockVars, roundVars, paus, adminPause, pause, count, knife, vote,
                   sideVotes, knifeWon>>

-------------------------------------------------------------------------------

Horizon == Max({FreezeTime, RoundTime, VotePauseTime, PauseCount})
Down(clock) == IF clock = Off THEN Off ELSE clock - 1

\* A second passes when nothing is due.  No comparison looks beyond the Horizon.
Tick ==
    /\ ~FreezeDue /\ ~RoundDue /\ ~PausDue /\ restartIn # 0 /\ vote # 0
    /\ elapsed' = Min({elapsed + 1, Horizon})
    /\ restartIn' = Down(restartIn) /\ vote' = Down(vote)
    /\ UNCHANGED <<state, seat, freeze, length, refrozen, reset, winStatus, pauseVars, knife,
                   sideVotes, asked, knifeWon>>

Engine == RestartRound \/ FreezeEnd \/ \E w \in Team \cup {"DRAW"} : RoundEnd(w)
Timers == PausTimer \/ VoteTimeout \/ NextState
Players ==
    \/ \E c \in Clients : VotePause(c) \/ Disconnect(c) \/ \E t \in Team : MenuHandle(c, t)
    \/ PauseMatch

Next == Engine \/ Timers \/ Players \/ Tick
Spec == Init /\ [][Next]_vars

\* The clock runs, the engine ends what is over, and Think calls what is due.
FairSpec ==
    /\ Spec
    /\ WF_vars(Tick) /\ WF_vars(RestartRound) /\ WF_vars(FreezeEnd)
    /\ WF_vars(PausTimer) /\ WF_vars(VoteTimeout)
    /\ WF_vars(RoundDue /\ \E w \in Team \cup {"DRAW"} : RoundEnd(w))

-------------------------------------------------------------------------------
(* Properties.                                                             *)

\* The freeze of a round always comes to an end, however often a team extends its timeout:
\* in freeze time VotePause grants another one and starts the freeze anew.
PlayResumes == []<>~freeze

\* A timeout that a team has been granted, and that counts against its limit, is given: the
\* round is not played before the freeze has lasted pug_vote_pause_time.  VotePause promises
\* "Match will pause for %d seconds on next round", and the next end of a freeze forgets it.
\* The promise is broken in two cases only: slot PAUS comes due in a round that is longer than
\* the pause before it and freezes that round again, or the timeout is granted in a freeze
\* that a complete reset cuts short, where SetRoundTime does nothing.
PauseServed ==
    [][freeze /\ ~freeze' /\ IsLive /\ pause # NoTeam =>
        elapsed >= VotePauseTime \/ refrozen \/ reset]_vars

\* The winners of the knife round get the side most of them asked for, and keep theirs in a
\* tie.  The code knows the winner by the engine's win status, which the restart of the round
\* has erased when the vote expires: then only Terrorists get what they chose.
KnifeWinnersChoose ==
    [][vote # Off /\ vote' = Off /\ (winStatus # "NONE" \/ knifeWon = "T") =>
        \A c \in Members(knifeWon) :
            (seat'[c] # knifeWon) <=> sideVotes'[Other(knifeWon)] > sideVotes'[knifeWon]]_vars

===============================================================================
