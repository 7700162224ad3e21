--------------------------- MODULE RoundClockProofs ---------------------------
(***************************************************************************)
(* Proofs about RoundClock.  The winners of the knife round get what they  *)
(* chose: the win status is read when their vote ends, seconds after the   *)
(* round; the invariant says why no other round can have ended by then: the*)
(* restart is put off as long as the vote lasts, and a round that has just *)
(* restarted is frozen.  And a timeout is given in full, but in the two    *)
(* cases its property names: the callback that an administrator's pause    *)
(* leaves in slot PAUS, which all pauses share, is never due in the freeze *)
(* of a timeout, and that of the timeout never before its end.             *)
(***************************************************************************)
EXTENDS RoundClock, TLAPS

ClocksTyped == vote \in Nat \cup {Off} /\ restartIn \in Nat \cup {Off}
SeatsTyped == seat \in [Clients -> Team \cup {"OUT"}]

\* Nobody has the menu after the vote, and the winner on record is the engine's or erased.
Voting == vote # Off
WinnerKnown ==
    /\ asked # {} => Voting
    /\ Voting => knifeWon \in Team /\ winStatus \in {"NONE", knifeWon} /\ IsLive

\* No round is played during the vote.
RoundWaits ==
    Voting => \/ restartIn = vote
              \/ vote = 0 /\ restartIn = Off /\ freeze /\ elapsed = 0 /\ length \in Nat \ {0}

KnifeInv == ClocksTyped /\ SeatsTyped /\ WinnerKnown /\ RoundWaits

LEMMA TimesType ==
    /\ FreezeTime \in Nat \ {0} /\ RoundDelay \in Nat /\ ResetDelay \in Nat
    /\ VoteDelay \in Nat /\ VotePauseTime \in Nat /\ Off \notin Nat
    BY TimesAssumption

LEMMA KnifeInit == Init => KnifeInv
    BY TimesType, ClientsAssumption
    DEF Init, KnifeInv, ClocksTyped, SeatsTyped, WinnerKnown, RoundWaits, Voting, Team

\* While the winners vote nothing is due that would play a round.
LEMMA NotPlayed ==
    ASSUME KnifeInv, Voting
    PROVE  ~Played /\ (restartIn = Off => ~FreezeDue)
    BY TimesType DEF KnifeInv, ClocksTyped, RoundWaits, Voting, Played, FreezeDue

\* Each operation keeps the invariant.
LEMMA EngineKeeps ==
    ASSUME VotePauseTime > 0, KnifeInv, Engine
    PROVE  KnifeInv'
    <1> USE TimesType
    <1>1. CASE RestartRound
        <2>1. /\ restartIn = 0 /\ restartIn' = Off /\ winStatus' = "NONE" /\ freeze' = TRUE
              /\ elapsed' = 0 /\ UNCHANGED <<state, seat, vote, asked, knifeWon>>
            BY <1>1 DEF RestartRound, knifeVars
        <2>2. Voting => length' \in Nat \ {0}
            <3>1. length' \in {VotePauseTime, MpFreezeTime}
                BY <1>1, Zenon DEF RestartRound
            <3>2. Voting => MpFreezeTime = FreezeTime
                BY DEF KnifeInv, WinnerKnown, MpFreezeTime
            <3> QED  BY <3>1, <3>2
        <2> QED
            BY <2>1, <2>2 DEF KnifeInv, ClocksTyped, SeatsTyped, WinnerKnown, RoundWaits, Voting, IsLive
    <1>2. CASE FreezeEnd
        <2>1. FreezeDue /\ UNCHANGED <<state, seat, restartIn, winStatus, vote, asked, knifeWon>>
            BY <1>2 DEF FreezeEnd, roundVars, knifeVars
        <2>2. Voting => restartIn = vote
            BY <2>1, NotPlayed DEF KnifeInv, RoundWaits
        <2> QED
            BY <2>1, <2>2 DEF KnifeInv, ClocksTyped, SeatsTyped, WinnerKnown, RoundWaits, Voting, IsLive
    <1>3. ASSUME NEW w \in Team \cup {"DRAW"}, RoundEnd(w) PROVE KnifeInv'
        <2>1. ~Voting /\ IsLive /\ winStatus' = w /\ UNCHANGED <<state, seat>>
            BY <1>3, NotPlayed DEF RoundEnd, Played
        <2>2. CASE knife /\ w \in Team
            <3>1. asked' = Members(w) /\ vote' = VoteDelay /\ knifeWon' = w /\ restartIn' = VoteDelay
                BY <1>3, <2>2, Zenon DEF RoundEnd, StartVote
            <3> QED
                BY <2>1, <2>2, <3>1
                DEF KnifeInv, ClocksTyped, SeatsTyped, WinnerKnown, RoundWaits, Voting, IsLive
        <2>3. CASE ~(knife /\ w \in Team)
            <3>1. restartIn' \in {ResetDelay, RoundDelay} /\ UNCHANGED <<vote, asked, knifeWon>>
                <4>1. CASE knife /\ w \notin Team
                    BY <1>3, <4>1, Zenon DEF RoundEnd, KnifeRoundFailed, RestarPeriod
                <4>2. CASE ~knife
                    BY <1>3, <4>2 DEF RoundEnd, knifeVars
                <4> QED  BY <2>3, <4>1, <4>2
            <3> QED
                BY <2>1, <3>1
                DEF KnifeInv, ClocksTyped, SeatsTyped, WinnerKnown, RoundWaits, Voting
        <2> QED  BY <2>2, <2>3
    <1> QED  BY <1>1, <1>2, <1>3 DEF Engine

\* The end of the vote leaves no menu behind.
LEMMA VoteEndKeeps ==
    ASSUME KnifeInv, NEW votes, VoteEnd(votes), UNCHANGED <<state, knifeWon>>
    PROVE  KnifeInv'
    <1>1. /\ vote' = Off /\ asked' = {} /\ restartIn' = ResetDelay
          /\ seat' = [c \in Clients |-> IF seat[c] = "OUT" THEN "OUT" ELSE Other(seat[c])]
             \/ seat' = seat
        BY DEF VoteEnd, RestarPeriod
    <1> QED
        BY <1>1, TimesType
        DEF KnifeInv, ClocksTyped, SeatsTyped, WinnerKnown, RoundWaits, Voting, Other, Team

LEMMA TimersKeep ==
    ASSUME KnifeInv, Timers
    PROVE  KnifeInv'
    <1> USE TimesType
    <1>1. CASE PausTimer
        <2>1. UNCHANGED <<state, seat, restartIn, winStatus, vote, asked, knifeWon>>
            BY <1>1 DEF PausTimer, roundVars, knifeVars
        <2>2. \/ UNCHANGED <<freeze, elapsed, length>>
              \/ freeze' = TRUE /\ elapsed' = 0 /\ length' = MpFreezeTime
            BY <1>1, Zenon DEF PausTimer, SetRoundTime, clockVars
        <2>3. Voting => MpFreezeTime = FreezeTime
            BY DEF KnifeInv, WinnerKnown, MpFreezeTime
        <2> QED
            BY <2>1, <2>2, <2>3
            DEF KnifeInv, ClocksTyped, SeatsTyped, WinnerKnown, RoundWaits, Voting, IsLive
    <1>2. CASE VoteTimeout
        BY <1>2, VoteEndKeeps DEF VoteTimeout
    <1>3. CASE NextState
        <2>1. /\ ~Voting /\ UNCHANGED <<vote, asked, knifeWon>>
              /\ restartIn' \in {restartIn, ResetDelay}
              /\ seat' = [c \in Clients |-> IF seat[c] = "OUT" THEN "OUT" ELSE Other(seat[c])]
                 \/ seat' = seat
            BY <1>3 DEF NextState, roundVars, knifeVars, Voting
        <2> QED
            BY <2>1 DEF KnifeInv, ClocksTyped, SeatsTyped, WinnerKnown, RoundWaits, Voting, Other, Team
    <1> QED  BY <1>1, <1>2, <1>3 DEF Timers

LEMMA PlayersKeep ==
    ASSUME KnifeInv, Players
    PROVE  KnifeInv'
    <1>1. ASSUME NEW c \in Clients, VotePause(c) PROVE KnifeInv'
        <2>1. ~Voting /\ UNCHANGED <<state, seat, restartIn, vote, asked, knifeWon>>
            BY <1>1 DEF VotePause, MayVotePause, Voting, roundVars, knifeVars
        <2> QED
            BY <2>1 DEF KnifeInv, ClocksTyped, SeatsTyped, WinnerKnown, RoundWaits, Voting
    <1>2. ASSUME NEW c \in Clients, Disconnect(c) PROVE KnifeInv'
        BY <1>2 DEF Disconnect, clockVars, roundVars, KnifeInv, ClocksTyped, SeatsTyped,
                    WinnerKnown, RoundWaits, Voting, IsLive
    <1>3. ASSUME NEW c \in Clients, NEW t \in Team, MenuHandle(c, t) PROVE KnifeInv'
        <2> DEFINE votes == [sideVotes EXCEPT ![t] = @ + 1]
        <2>1. CASE votes["T"] + votes["CT"] >= Cardinality(Present) \div 2
            BY <1>3, <2>1, VoteEndKeeps DEF MenuHandle
        <2>2. CASE ~(votes["T"] + votes["CT"] >= Cardinality(Present) \div 2)
            <3>1. /\ c \in asked /\ asked' = asked \ {c}
                  /\ UNCHANGED <<state, seat, freeze, elapsed, length, restartIn, winStatus, vote,
                                 knifeWon>>
                BY <1>3, <2>2 DEF MenuHandle, clockVars
            <3> QED
                BY <3>1 DEF KnifeInv, ClocksTyped, SeatsTyped, WinnerKnown, RoundWaits, Voting, IsLive
        <2> QED  BY <2>1, <2>2
    <1>4. CASE PauseMatch
        BY <1>4 DEF PauseMatch, clockVars, roundVars, knifeVars, KnifeInv, ClocksTyped,
                    SeatsTyped, WinnerKnown, RoundWaits, Voting, IsLive
    <1> QED  BY <1>1, <1>2, <1>3, <1>4 DEF Players

\* The two clocks of the vote run together.
LEMMA TickKeeps ==
    ASSUME KnifeInv, Tick
    PROVE  KnifeInv'
    <1>1. /\ restartIn' = Down(restartIn) /\ vote' = Down(vote) /\ restartIn # 0 /\ vote # 0
          /\ UNCHANGED <<state, seat, winStatus, asked, knifeWon>>
        BY DEF Tick
    <1>2. ClocksTyped'
        BY <1>1, TimesType DEF Down, KnifeInv, ClocksTyped
    <1>3. Voting' <=> Voting
        BY <1>1, TimesType DEF Down, KnifeInv, ClocksTyped, Voting
    <1>4. RoundWaits'
        BY <1>1, <1>3 DEF Down, KnifeInv, RoundWaits, Voting
    <1> QED  BY <1>1, <1>2, <1>3, <1>4 DEF KnifeInv, SeatsTyped, WinnerKnown, IsLive

LEMMA KnifeNext ==
    ASSUME VotePauseTime > 0, KnifeInv, [Next]_vars
    PROVE  KnifeInv'
    <1>1. CASE UNCHANGED vars
        BY <1>1 DEF vars, clockVars, roundVars, pauseVars, knifeVars, KnifeInv, ClocksTyped,
                    SeatsTyped, WinnerKnown, RoundWaits, Voting, IsLive
    <1> QED  BY <1>1, EngineKeeps, TimersKeep, PlayersKeep, TickKeeps DEF Next

\* What the ballots decide when the vote ends.
Chosen ==
    \A c \in Members(knifeWon) :
        (seat'[c] # knifeWon) <=> sideVotes'[Other(knifeWon)] > sideVotes'[knifeWon]

LEMMA VoteEndChooses ==
    ASSUME KnifeInv, Voting, winStatus # "NONE" \/ knifeWon = "T",
           NEW votes, VoteEnd(votes), sideVotes' = votes
    PROVE  Chosen
    <1>1. KnifeWinner = knifeWon /\ knifeWon \in Team
        BY DEF KnifeInv, WinnerKnown, KnifeWinner, Team
    <1>2. CASE votes[Other(knifeWon)] > votes[knifeWon]
        <2>1. seat' = [c \in Clients |-> IF seat[c] = "OUT" THEN "OUT" ELSE Other(seat[c])]
            BY <1>1, <1>2 DEF VoteEnd, ChangeTeams
        <2> QED  BY <1>1, <1>2, <2>1 DEF Chosen, Members, Other, Team
    <1>3. CASE ~(votes[Other(knifeWon)] > votes[knifeWon])
        <2>1. seat' = seat
            BY <1>1, <1>3 DEF VoteEnd, ChangeTeams
        <2> QED  BY <1>3, <2>1 DEF Chosen, Members
    <1> QED  BY <1>2, <1>3

LEMMA KnifeStep ==
    ASSUME KnifeInv, [Next]_vars, Voting, vote' = Off, winStatus # "NONE" \/ knifeWon = "T"
    PROVE  Chosen
    <1>1. CASE VoteTimeout
        BY <1>1, VoteEndChooses DEF VoteTimeout
    <1>2. ASSUME NEW c \in Clients, NEW t \in Team, MenuHandle(c, t) PROVE Chosen
        <2> DEFINE votes == [sideVotes EXCEPT ![t] = @ + 1]
        <2>1. sideVotes' = votes /\ (VoteEnd(votes) \/ vote' = vote)
            BY <1>2 DEF MenuHandle
        <2> QED  BY <2>1, VoteEndChooses DEF Voting
    <1>3. ASSUME Tick PROVE FALSE
        BY <1>3, TimesType DEF Tick, Down, KnifeInv, ClocksTyped, Voting
    <1>4. ASSUME NEW w \in Team \cup {"DRAW"}, RoundEnd(w) PROVE FALSE
        BY <1>4, NotPlayed DEF RoundEnd
    <1>5. ASSUME \/ RestartRound \/ FreezeEnd \/ PausTimer \/ NextState \/ PauseMatch
                 \/ (\E c \in Clients : VotePause(c) \/ Disconnect(c)) \/ UNCHANGED vars
          PROVE  vote' = vote
        BY <1>5 DEF RestartRound, FreezeEnd, PausTimer, NextState, PauseMatch, VotePause,
                    Disconnect, knifeVars, vars
    <1> QED
        BY <1>1, <1>2, <1>3, <1>4, <1>5 DEF Next, Engine, Timers, Players, Voting

\* For any number of players, ballots and times, with players who leave during the vote and
\* timeouts before it: the winners get the side that most of them asked for, and keep theirs
\* in a tie, save Counter-Terrorists whose vote is ended by the clock.
THEOREM KnifeCorrect ==
    ASSUME VotePauseTime > 0
    PROVE  Spec => KnifeWinnersChoose
    <1>1. KnifeInv /\ [Next]_vars
          => [vote # Off /\ vote' = Off /\ (winStatus # "NONE" \/ knifeWon = "T") => Chosen]_vars
        BY KnifeStep DEF Voting
    <1>2. KnifeInv /\ [Next]_vars => KnifeInv'
        BY KnifeNext
    <1> QED  BY <1>1, <1>2, KnifeInit, PTL DEF Spec, KnifeWinnersChoose, Chosen

-------------------------------------------------------------------------------
(* The timeouts.                                                           *)

\* Timeouts are granted only where they have a length.
PauseTimed == pause # NoTeam => VotePauseTime > 0

\* A freeze in which a team has a timeout is that timeout, with a callback of its own, unless
\* it was begun by slot PAUS or a complete reset is under way.
PauseRuns ==
    freeze /\ IsLive /\ ~reset /\ ~refrozen /\ pause # NoTeam =>
        length = VotePauseTime /\ paus # "PauseTimer"

\* The callback that froze a round again has given its slot back.
RefrozenOnce == refrozen /\ ~reset => paus = Off

PauseInv == PauseTimed /\ PauseRuns /\ RefrozenOnce

LEMMA PauseInit == Init => PauseInv
    BY DEF Init, PauseInv, PauseTimed, PauseRuns, RefrozenOnce

\* What leaves the clock and slot PAUS alone, and grants no timeout, keeps the invariant; a
\* half begins with a reset.
LEMMA QuietKeeps ==
    ASSUME PauseInv, UNCHANGED <<freeze, length, refrozen, paus>>, pause' \in {pause, NoTeam},
           reset' = TRUE \/ (reset' = reset /\ (IsLive' => IsLive))
    PROVE  PauseInv'
    BY DEF PauseInv, PauseTimed, PauseRuns, RefrozenOnce

\* A restarted round begins with the timeout, if there is one.
LEMMA RestartKeepsPauses ==
    ASSUME PauseInv, RestartRound
    PROVE  PauseInv'
    <1> DEFINE admin == IsLive /\ PauseCount > 0 /\ adminPause
               team == IsLive /\ VotePauseTime > 0 /\ pause # NoTeam
    <1>1. ~refrozen' /\ UNCHANGED <<state, pause>>
        BY DEF RestartRound
    <1>2. length' = IF admin \/ team THEN VotePauseTime ELSE MpFreezeTime
        BY Zenon DEF RestartRound
    <1>3. paus' = IF team THEN "VotePauseTimer" ELSE IF admin THEN "PauseTimer" ELSE paus
        BY DEF RestartRound
    <1>4. IsLive' = IsLive
        BY <1>1 DEF IsLive
    <1>5. PauseTimed' /\ RefrozenOnce'
        BY <1>1 DEF PauseInv, PauseTimed, RefrozenOnce
    <1>6. PauseRuns'
        BY <1>1, <1>2, <1>3, <1>4 DEF PauseInv, PauseTimed, PauseRuns
    <1> QED  BY <1>5, <1>6 DEF PauseInv

LEMMA EngineKeepsPauses ==
    ASSUME PauseInv, Engine
    PROVE  PauseInv'
    <1>1. CASE FreezeEnd
        BY <1>1 DEF FreezeEnd, PauseInv, PauseTimed, PauseRuns, RefrozenOnce
    <1>2. ASSUME NEW w \in Team \cup {"DRAW"}, RoundEnd(w) PROVE PauseInv'
        <2>1. UNCHANGED <<state, freeze, length, refrozen, paus>>
            BY <1>2 DEF RoundEnd, clockVars
        <2>2. pause' \in {pause, NoTeam} /\ (reset' = TRUE \/ reset' = reset)
            <3>1. CASE knife /\ w \in Team
                BY <1>2, <3>1 DEF RoundEnd, StartVote
            <3>2. CASE knife /\ w \notin Team
                BY <1>2, <3>2 DEF RoundEnd, KnifeRoundFailed, RestarPeriod
            <3>3. CASE ~knife
                BY <1>2, <3>3 DEF RoundEnd
            <3> QED  BY <3>1, <3>2, <3>3
        <2> QED  BY <2>1, <2>2, QuietKeeps DEF IsLive
    <1> QED  BY <1>1, <1>2, RestartKeepsPauses DEF Engine

\* The end of the vote of the knife round is a complete reset.
LEMMA VoteEndKeepsPauses ==
    ASSUME PauseInv, NEW votes, VoteEnd(votes), UNCHANGED <<freeze, length, refrozen, paus>>
    PROVE  PauseInv'
    BY QuietKeeps DEF VoteEnd, RestarPeriod

\* The callback of a timeout is not due before its freeze is, and that of an administrator's
\* pause is not there.
LEMMA PausTimerKeepsPauses ==
    ASSUME PauseInv, PausTimer
    PROVE  PauseInv'
    <1>1. /\ PausDue /\ ~FreezeDue /\ paus' = Off
          /\ UNCHANGED <<state, reset, pause>>
        BY DEF PausTimer, roundVars
    <1>2. PauseTimed' /\ RefrozenOnce'
        BY <1>1 DEF PauseInv, PauseTimed, RefrozenOnce
    <1>3. CASE reset
        BY <1>1, <1>2, <1>3 DEF PauseInv, PauseRuns
    <1>4. CASE ~reset
        <2>1. refrozen' = ~freeze
            BY <1>4 DEF PausTimer, SetRoundTime
        <2>2. ~(freeze /\ IsLive /\ pause # NoTeam)
            <3> SUFFICES ASSUME freeze, IsLive, pause # NoTeam PROVE FALSE
                OBVIOUS
            <3>1. ~refrozen
                BY <1>1, <1>4 DEF PauseInv, RefrozenOnce, PausDue
            <3>2. length = VotePauseTime /\ paus # "PauseTimer"
                BY <1>4, <3>1 DEF PauseInv, PauseRuns
            <3> QED  BY <1>1, <3>2 DEF PausDue, PausLimit, FreezeDue
        <2> QED  BY <1>1, <1>2, <2>1, <2>2 DEF PauseInv, PauseRuns, IsLive
    <1> QED  BY <1>3, <1>4

LEMMA TimersKeepPauses ==
    ASSUME PauseInv, Timers
    PROVE  PauseInv'
    <1>1. CASE VoteTimeout
        BY <1>1, VoteEndKeepsPauses DEF VoteTimeout, clockVars
    <1>2. CASE NextState
        <2>1. UNCHANGED <<freeze, length, refrozen, paus, pause>>
            BY <1>2 DEF NextState, clockVars, pauseVars
        <2>2. reset' = TRUE \/ (reset' = reset /\ ~IsLive')
            BY <1>2 DEF NextState, roundVars, IsLive, Halves
        <2> QED  BY <2>1, <2>2, QuietKeeps
    <1> QED  BY <1>1, <1>2, PausTimerKeepsPauses DEF Timers

\* A timeout granted in freeze time starts the freeze anew, if no reset is under way.
LEMMA VotePauseKeepsPauses ==
    ASSUME PauseInv, NEW c \in Clients, VotePause(c)
    PROVE  PauseInv'
    <1>1. UNCHANGED <<state, reset>> /\ VotePauseTime > 0
        BY DEF VotePause, MayVotePause, roundVars
    <1>2. CASE UNCHANGED <<freeze, length, refrozen, paus>> /\ pause' = pause
        BY <1>1, <1>2, QuietKeeps DEF IsLive
    <1>3. CASE UNCHANGED <<freeze, length, refrozen, paus>> /\ ~freeze
        BY <1>1, <1>3 DEF PauseInv, PauseTimed, PauseRuns, RefrozenOnce
    <1>4. CASE freeze /\ paus' = "VotePauseTimer" /\ SetRoundTime(VotePauseTime)
        BY <1>1, <1>4 DEF SetRoundTime, PauseInv, PauseTimed, PauseRuns, RefrozenOnce
    <1> QED  BY <1>2, <1>3, <1>4 DEF VotePause, clockVars

LEMMA PlayersKeepPauses ==
    ASSUME PauseInv, Players
    PROVE  PauseInv'
    <1>1. ASSUME NEW c \in Clients, Disconnect(c) PROVE PauseInv'
        BY <1>1, QuietKeeps DEF Disconnect, clockVars, roundVars, IsLive
    <1>2. ASSUME NEW c \in Clients, NEW t \in Team, MenuHandle(c, t) PROVE PauseInv'
        <2> DEFINE votes == [sideVotes EXCEPT ![t] = @ + 1]
        <2>1. UNCHANGED <<state, freeze, length, refrozen, paus>>
            BY <1>2 DEF MenuHandle, clockVars
        <2>2. CASE VoteEnd(votes)
            BY <2>1, <2>2, VoteEndKeepsPauses
        <2>3. CASE UNCHANGED <<reset, pause>>
            BY <2>1, <2>3, QuietKeeps DEF IsLive
        <2> QED  BY <1>2, <2>2, <2>3 DEF MenuHandle
    <1>3. CASE PauseMatch
        BY <1>3, QuietKeeps DEF PauseMatch, clockVars, roundVars, IsLive
    <1> QED  BY <1>1, <1>2, <1>3, VotePauseKeepsPauses DEF Players

LEMMA PauseNext == PauseInv /\ [Next]_vars => PauseInv'
    <1> SUFFICES ASSUME PauseInv, [Next]_vars PROVE PauseInv'
        OBVIOUS
    <1>1. CASE Tick
        BY <1>1, QuietKeeps DEF Tick, pauseVars, IsLive
    <1>2. CASE UNCHANGED vars
        BY <1>2, QuietKeeps DEF vars, clockVars, roundVars, pauseVars, IsLive
    <1> QED  BY <1>1, <1>2, EngineKeepsPauses, TimersKeepPauses, PlayersKeepPauses DEF Next

\* Only the engine ends a freeze.
LEMMA FreezeStep ==
    ASSUME PauseInv, [Next]_vars, freeze, ~freeze', IsLive, pause # NoTeam
    PROVE  elapsed >= VotePauseTime \/ refrozen \/ reset
    <1>1. FreezeEnd
        <2>1. ASSUME PausTimer \/ \E c \in Clients : VotePause(c) PROVE FALSE
            <3>1. freeze' = TRUE \/ freeze' = freeze
                BY <2>1 DEF PausTimer, VotePause, SetRoundTime, clockVars
            <3> QED  BY <3>1
        <2>2. ~RestartRound
            BY DEF RestartRound
        <2>3. ASSUME \/ VoteTimeout \/ NextState \/ PauseMatch \/ Tick \/ UNCHANGED vars
                     \/ \E w \in Team \cup {"DRAW"} : RoundEnd(w)
                     \/ \E c \in Clients : Disconnect(c) \/ \E t \in Team : MenuHandle(c, t)
              PROVE  freeze' = freeze
            BY <2>3 DEF VoteTimeout, NextState, PauseMatch, Tick, RoundEnd, Disconnect, MenuHandle,
                        clockVars, vars
        <2> QED  BY <2>1, <2>2, <2>3 DEF Next, Engine, Timers, Players
    <1>2. elapsed >= length
        BY <1>1 DEF FreezeEnd, FreezeDue
    <1>3. refrozen \/ reset \/ length = VotePauseTime
        BY DEF PauseInv, PauseRuns
    <1> QED  BY <1>2, <1>3

\* For any number of players and any times: a timeout that a team was granted, in the freeze or
\* in the round before, is given in full, with an administrator's pause at the same time, with
\* restarts, and whoever leaves - unless slot PAUS has frozen the round a second time, or a
\* reset is under way.
THEOREM PauseIsServed == Spec => PauseServed
    <1>1. PauseInv /\ [Next]_vars
          => [freeze /\ ~freeze' /\ IsLive /\ pause # NoTeam =>
                elapsed >= VotePauseTime \/ refrozen \/ reset]_vars
        BY FreezeStep
    <1> QED  BY <1>1, PauseInit, PauseNext, PTL DEF Spec, PauseServed
===============================================================================
