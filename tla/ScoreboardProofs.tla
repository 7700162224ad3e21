--------------------------- MODULE ScoreboardProofs ---------------------------
(***************************************************************************)
(* The match controller implements the scoreboard of its rosters, for all  *)
(* lengths, timings and requests, when the teams stay as they are seated:  *)
(* no captains, shuffles, knife rounds nor votes for an overtime, which    *)
(* move players (or the phase) without the points.  Each action is a step  *)
(* of Scoreboard or changes nothing on it.  A later part has the same for  *)
(* any way of making the teams, in a server that is Orderly (TimersProofs),*)
(* and the last one the points of a side, when the teams stay as seated.   *)
(***************************************************************************)
EXTENDS PugModScoreboard, TimersProofs

\* The cvars under which the teams stay as they are seated.
PlainTeams ==
    /\ TeamModes \subseteq {2} /\ VoteTeamType \in {-1, 2}
    /\ KnifeRoundPlay = FALSE
    /\ OvertimeType # 3

SideVotes == {"Knife.VoteEnd", "VoteOvertime.Stop"}

NoSideVote(tk) == tk["VOTE"].run \notin SideVotes

\* The other periods are empty while the first half is played.
FirstHalfAlone ==
    state = "FIRST_HALF" => \A p \in Live \ {"FIRST_HALF"} : score[p] = NoScore[p]

Seated == knife = FALSE /\ picking = FALSE /\ voteTeam \in {-1, 2}

SeatedInv == MatchInv /\ Seated /\ NoSideVote(task) /\ FirstHalfAlone

(* -------------------- no vote on sides or overtime ---------------------- *)

LEMMA RemoveNoSideVote ==
    ASSUME NEW tk \in TaskTable, NoSideVote(tk), NEW slot \in Slots
    PROVE  NoSideVote(Remove(tk, slot))
  BY DEF Remove, Idle, NoSideVote, SideVotes, TaskTable

LEMMA CreateNoSideVote ==
    ASSUME NEW tk \in TaskTable, NoSideVote(tk), NEW slot \in Slots, NEW run, run \notin SideVotes,
           NEW arg, NEW delay, NEW from
    PROVE  NoSideVote(Create(tk, slot, run, arg, delay, from))
  BY DEF Create, NoSideVote, TaskTable

LEMMA ArmNoSideVote ==
    ASSUME NEW tk \in TaskTable, NoSideVote(tk), NEW p \in Phases
    PROVE  /\ NoSideVote(ReadyLoad(tk, p))
           /\ NoSideVote(OpenVote(tk, "VoteMap.Stop", p))
           /\ NoSideVote(OpenVote(tk, "VoteTeam.Stop", p))
           /\ \A delay \in Nat : NoSideVote(ArmNext(tk, delay, p))
           /\ NoSideVote(ChangelevelDelay(tk, p))
           /\ NoSideVote(ArmSwap(tk))
           /\ NoSideVote(StartLO3(tk, p))
  <1>1. {"Ready.List", "Vote.List", "RunState", "Changelevel", "SwapTeams", "LO3",
         "VoteMap.Stop", "VoteTeam.Stop"} \cap SideVotes = {}
    BY DEF SideVotes
  <1>2. \A stop \in {"VoteMap.Stop", "VoteTeam.Stop"} : NoSideVote(OpenVote(tk, stop, p))
    <2> TAKE stop \in {"VoteMap.Stop", "VoteTeam.Stop"}
    <2>1. VoteDelay \in Nat /\ p \in Origins /\ stop \in Callbacks /\ 0 \in 0..4
      BY TimeAssumption DEF Origins, Callbacks
    <2>2. Create(tk, "VOTE", stop, 0, VoteDelay, p) \in TaskTable
      BY <2>1, CreateType, SlotNames
    <2>3. NoSideVote(Create(tk, "VOTE", stop, 0, VoteDelay, p))
      BY <1>1, CreateNoSideVote, SlotNames
    <2> QED
      BY <1>1, <2>2, <2>3, CreateNoSideVote, SlotNames DEF OpenVote
  <1> QED
    BY <1>1, <1>2, CreateNoSideVote, SlotNames
       DEF ReadyLoad, ArmNext, ChangelevelDelay, ArmSwap, StartLO3

(* ------------------------ steps of the scoreboard ----------------------- *)

\* The points as a roster sees them, when t plays the Terrorists.
Shown(sc, t) == [p \in Live |-> [r \in Roster |-> sc[p][IF r = t THEN "T" ELSE "CT"]]]

BoardStep == [Board!Next]_<<BoardPhase, BoardTally>>

LEMMA BoardShown ==
    /\ state \in IdlePhases => BoardPhase = "IDLE" /\ BoardTally = Board!NoTally
    /\ state \notin IdlePhases => BoardPhase = state /\ BoardTally = Shown(score, rosterT)
  BY DEF BoardPhase, BoardTally, SideOf, Shown, Board!NoTally, Board!Played, Board!Roster,
         Live, Roster

LEMMA BoardShownNext ==
    /\ state' \in IdlePhases => BoardPhase' = "IDLE" /\ BoardTally' = Board!NoTally
    /\ state' \notin IdlePhases => BoardPhase' = state' /\ BoardTally' = Shown(score', rosterT')
  BY DEF BoardPhase, BoardTally, SideOf, Shown, Board!NoTally, Board!Played, Board!Roster,
         Live, Roster

LEMMA PeriodNames ==
    /\ Live = Board!Played /\ Live \cap IdlePhases = {}
    /\ InMatch = Live \cup {"HALFTIME"} /\ InMatch \cap IdlePhases = {}
    /\ "END" \notin IdlePhases /\ "IDLE" \notin Phases
    /\ Phases = IdlePhases \cup InMatch \cup {"END"}
  BY DEF Live, Board!Played, IdlePhases, InMatch, Phases

\* Nothing the scoreboard shows changes.
LEMMA QuietStep ==
    ASSUME UNCHANGED <<state, score, rosterT>>
    PROVE  BoardStep
  <1>1. UNCHANGED <<BoardPhase, BoardTally>>
    BY DEF BoardPhase, BoardTally, SideOf
  <1> QED
    BY <1>1 DEF BoardStep

\* Between two matches nothing is shown; leaving a match clears it.
LEMMA IdleStep ==
    ASSUME state \in Phases, state' \in IdlePhases
    PROVE  BoardStep
  <1>1. CASE state \in IdlePhases
    <2>1. UNCHANGED <<BoardPhase, BoardTally>>
      BY <1>1, BoardShown, BoardShownNext
    <2> QED
      BY <2>1 DEF BoardStep
  <1>2. CASE state \notin IdlePhases
    <2>1. Board!Leave
      BY <1>2, BoardShown, BoardShownNext, PeriodNames DEF Board!Leave
    <2> QED
      BY <2>1 DEF BoardStep, Board!Next
  <1> QED
    BY <1>1, <1>2

\* A change of phase within the match, the points as they are.
LEMMA PhaseStep ==
    ASSUME UNCHANGED <<score, rosterT>>,
           \/ state \in Live /\ state' = "HALFTIME"
           \/ state = "HALFTIME" /\ state' \in {"HALFTIME", "SECOND_HALF", "OVERTIME"}
           \/ state \in InMatch /\ state' = "END"
    PROVE  BoardStep
  <1>1. /\ BoardPhase = state /\ BoardTally = Shown(score, rosterT)
        /\ BoardPhase' = state' /\ BoardTally' = Shown(score, rosterT)
    BY BoardShown, BoardShownNext, PeriodNames DEF Live
  <1>2. CASE state \in Live /\ state' = "HALFTIME"
    BY <1>1, <1>2, PeriodNames DEF Board!Break, Board!Next, BoardStep
  <1>3. CASE state = "HALFTIME" /\ state' = "HALFTIME"
    BY <1>1, <1>3 DEF BoardStep
  <1>4. CASE state = "HALFTIME" /\ state' \in {"SECOND_HALF", "OVERTIME"}
    BY <1>1, <1>4 DEF Board!Resume, Board!Next, BoardStep
  <1>5. CASE state \in InMatch /\ state' = "END"
    BY <1>1, <1>5, PeriodNames DEF Board!Finish, Board!Next, BoardStep
  <1> QED
    BY <1>2, <1>3, <1>4, <1>5

\* The period is wiped for both rosters, and goes on or is given up.
LEMMA WipeStep ==
    ASSUME ScoreType, state \in Live, rosterT' = rosterT,
           score' = [score EXCEPT ![state] = NoScore[state]],
           state' \in {state, "HALFTIME"}
    PROVE  BoardStep
  <1>1. /\ BoardPhase = state /\ BoardTally = Shown(score, rosterT)
        /\ BoardPhase' = state' /\ BoardTally' = Shown(score', rosterT)
    BY BoardShown, BoardShownNext, PeriodNames
  <1>2. Shown(score', rosterT) = [Shown(score, rosterT) EXCEPT ![state] = Board!NoTally[state]]
    BY PeriodNames DEF Shown, ScoreType, NoScore, Team, Board!NoTally, Board!Roster, Roster
  <1>3. BoardTally' = Board!Wiped(BoardPhase)
    BY <1>1, <1>2 DEF Board!Wiped
  <1>4. CASE state' = state
    BY <1>1, <1>3, <1>4, PeriodNames DEF Board!Replay, Board!Next, BoardStep
  <1>5. CASE state' = "HALFTIME"
    BY <1>1, <1>3, <1>5, PeriodNames DEF Board!Break, Board!Next, BoardStep
  <1> QED
    BY <1>4, <1>5

\* A match starts from nothing, or the first half is restarted from nothing.
LEMMA FreshStep ==
    ASSUME ScoreType, FirstHalfAlone, rosterT \in Roster, rosterT' \in Roster,
           state \in IdlePhases \cup {"FIRST_HALF"}, state' = "FIRST_HALF", score' = NoScore
    PROVE  BoardStep
  <1>1. BoardPhase' = "FIRST_HALF" /\ BoardTally' = Board!NoTally
    <2>1. state' \notin IdlePhases
      BY PeriodNames DEF Live
    <2>2. Shown(NoScore, rosterT') = Board!NoTally
      BY PeriodNames DEF Shown, NoScore, Team, Board!NoTally, Board!Roster, Roster
    <2> QED
      BY <2>1, <2>2, BoardShownNext
  <1>2. CASE state \in IdlePhases
    BY <1>1, <1>2, BoardShown DEF Board!Kickoff, Board!Next, BoardStep
  <1>3. CASE state = "FIRST_HALF"
    <2>1. BoardPhase = state /\ BoardTally = Shown(score, rosterT)
      BY <1>3, BoardShown, PeriodNames DEF Live
    <2>2. \A p \in Live \ {state}, r \in Roster : BoardTally[p][r] = 0
      BY <1>3, <2>1 DEF FirstHalfAlone, Shown, NoScore, Team
    <2>3. Board!Wiped(BoardPhase) = Board!NoTally
      BY <1>3, <2>1, <2>2, PeriodNames
         DEF Shown, Board!Wiped, Board!NoTally, Board!Roster, Roster
    <2> QED
      BY <1>1, <1>3, <2>1, <2>3, PeriodNames DEF Board!Replay, Board!Next, BoardStep, Live
  <1> QED
    BY <1>2, <1>3

\* One counter more: what EXCEPT writes, entry by entry.
LEMMA OneMore ==
    ASSUME NEW f \in [Live -> [Roster -> Nat]], NEW g \in [Live -> [Roster -> Nat]],
           NEW p0 \in Live, NEW r0 \in Roster,
           \A p \in Live, q \in Roster :
               g[p][q] = IF p = p0 /\ q = r0 THEN f[p][q] + 1 ELSE f[p][q]
    PROVE  g = [f EXCEPT ![p0][r0] = @ + 1]
  <1> DEFINE row == [f[p0] EXCEPT ![r0] = @ + 1]
  <1>1. g[p0] = row
    <2>1. g[p0] \in [Roster -> Nat] /\ row \in [Roster -> Nat]
      OBVIOUS
    <2>2. \A q \in Roster : g[p0][q] = row[q]
      OBVIOUS
    <2> QED
      BY <2>1, <2>2
  <1>2. ASSUME NEW p \in Live, p # p0 PROVE g[p] = f[p]
    BY <1>2
  <1>3. g = [f EXCEPT ![p0] = row]
    <2> HIDE DEF row
    <2> QED
      BY <1>1, <1>2
  <1> QED
    BY <1>3

\* A round that counts is a win of the roster that sits on the winning side.
LEMMA WinStep ==
    ASSUME ScoreType, rosterT \in Roster, state \in Live, UNCHANGED <<state, rosterT>>,
           NEW win \in Team, score' = [score EXCEPT ![state][win] = @ + 1]
    PROVE  BoardStep
  <1> DEFINE r == Playing(win, rosterT)
  <1>1. /\ BoardPhase = state /\ BoardTally = Shown(score, rosterT)
        /\ BoardPhase' = state /\ BoardTally' = Shown(score', rosterT)
    BY BoardShown, BoardShownNext, PeriodNames
  <1>2. r \in Roster /\ \A q \in Roster : (IF q = rosterT THEN "T" ELSE "CT") = win <=> q = r
    BY DEF Playing, Other, Roster, Team
  <1>3. Shown(score', rosterT) = [Shown(score, rosterT) EXCEPT ![state][r] = @ + 1]
    <2> DEFINE f == Shown(score, rosterT)
               g == Shown(score', rosterT)
    <2> HIDE DEF r
    <2>1. \A p \in Live, q \in Roster :
              g[p][q] = IF p = state /\ q = r THEN f[p][q] + 1 ELSE f[p][q]
      BY <1>2 DEF Shown, ScoreType, Team
    <2>2. f \in [Live -> [Roster -> Nat]] /\ g \in [Live -> [Roster -> Nat]]
      BY DEF Shown, ScoreType, Team
    <2>3. g = [f EXCEPT ![state][r] = @ + 1]
      <3> HIDE DEF f, g
      <3> QED
        BY <1>2, <2>1, <2>2, OneMore
    <2> QED
      BY <2>3
  <1>4. Board!Win(r)
    <2> HIDE DEF r
    <2> QED
      BY <1>1, <1>3, PeriodNames DEF Board!Win
  <1> QED
    BY <1>2, <1>4 DEF Board!Next, Board!Roster, Roster, BoardStep

\* A change of sides moves the points with the players: the scoreboard shows nothing.
LEMMA SidesStep ==
    ASSUME ScoreType, rosterT \in Roster, state' = state,
           score' = SwapScores(score), rosterT' = Other(rosterT)
    PROVE  BoardStep
  <1>1. Shown(SwapScores(score), Other(rosterT)) = Shown(score, rosterT)
    BY DEF Shown, SwapScores, Other, Roster, Team, ScoreType
  <1>2. UNCHANGED <<BoardPhase, BoardTally>>
    BY <1>1, BoardShown, BoardShownNext
  <1> QED
    BY <1>2 DEF BoardStep

(* ---------------- what the steps of the controller show ----------------- *)

\* What these lemmas use of the state, and what every step keeps and shows.
Showing == state \in Phases /\ ScoreType /\ rosterT \in Roster /\ FirstHalfAlone
ShownStep == FirstHalfAlone' /\ BoardStep

\* The counters stay.
LEMMA AloneKept ==
    ASSUME FirstHalfAlone, UNCHANGED score, state' = "FIRST_HALF" => state = "FIRST_HALF"
    PROVE  FirstHalfAlone'
  BY DEF FirstHalfAlone

LEMMA QuietShown == ASSUME Showing, UNCHANGED <<state, score, rosterT>> PROVE ShownStep
  BY QuietStep, AloneKept DEF Showing, ShownStep

LEMMA PeriodPhase ==
    ASSUME NEW p \in Live, NEW tk, EnterPeriod(p, tk)
    PROVE  state' \in {p, IF p = "FIRST_HALF" THEN "WARMUP" ELSE "HALFTIME"}
  BY DEF EnterPeriod, EnterWarmup, EnterHalftime

LEMMA EndShown ==
    ASSUME Showing, state \in InMatch, UNCHANGED <<score, rosterT>>, NEW tk, NEW rdy,
           EnterEnd(tk, rdy)
    PROVE  ShownStep
  BY PhaseStep, AloneKept DEF EnterEnd, Showing, ShownStep

LEMMA RunStateShown ==
    ASSUME Showing, NEW tk, NEW rdy, RunState(tk, rdy)
    PROVE  ShownStep
  <1>0. state \in Phases /\ rosterT \in Roster /\ ScoreType /\ FirstHalfAlone
    BY DEF Showing
  <1>1. CASE NextPhase \in {"WARMUP", "START"}
    <2>1. state' \in {"WARMUP", "START"} /\ UNCHANGED scoreVars
      BY <1>1 DEF RunState, EnterWarmup, EnterStart
    <2> QED
      BY <1>0, <2>1, IdleStep, AloneKept DEF ShownStep, IdlePhases, scoreVars
  <1>2. CASE NextPhase = "FIRST_HALF"
    <2>1. ClearPeriod("FIRST_HALF", rosterT) /\ EnterPeriod("FIRST_HALF", tk)
      BY <1>2 DEF RunState
    <2>2. state = "START"
      BY <1>0, <1>2 DEF NextPhase, AfterHalftime, AfterSecondHalf, Phases, Live
    <2>3. score' = NoScore /\ rosterT' \in Roster
      BY <1>0, <2>1 DEF ClearPeriod, Cleared, Roster
    <2>4. state' \in {"FIRST_HALF", "WARMUP"}
      BY <2>1, PeriodPhase DEF Live
    <2>5. BoardStep
      BY <1>0, <2>2, <2>3, <2>4, IdleStep, FreshStep DEF IdlePhases
    <2>6. FirstHalfAlone'
      BY <2>3 DEF FirstHalfAlone
    <2> QED
      BY <2>5, <2>6 DEF ShownStep
  <1>3. CASE NextPhase = "HALFTIME"
    <2>1. state' = "HALFTIME" /\ UNCHANGED <<scoreVars, rosterT>>
      BY <1>3 DEF RunState, EnterHalftime
    <2>2. state \in Live
      BY <1>0, <1>3 DEF NextPhase, AfterHalftime, AfterSecondHalf, Phases, Live
    <2> QED
      BY <1>0, <2>1, <2>2, PhaseStep, AloneKept DEF ShownStep, scoreVars
  <1>4. CASE NextPhase \in {"SECOND_HALF", "OVERTIME"}
    <2>1. EnterPeriod(NextPhase, tk) /\ UNCHANGED <<scoreVars, rosterT>>
      BY <1>4 DEF RunState
    <2>2. state' \in {NextPhase, "HALFTIME"}
      BY <1>4, <2>1, PeriodPhase DEF Live
    <2>3. state = "HALFTIME"
      BY <1>0, <1>4 DEF NextPhase, AfterHalftime, AfterSecondHalf, Phases, Live
    <2> QED
      BY <1>0, <1>4, <2>1, <2>2, <2>3, PhaseStep, AloneKept DEF ShownStep, scoreVars
  <1>5. CASE NextPhase = "END"
    <2>1. EnterEnd(tk, rdy) /\ UNCHANGED <<scoreVars, rosterT>>
      BY <1>5 DEF RunState
    <2>2. state \in InMatch
      BY <1>0, <1>5 DEF NextPhase, AfterHalftime, AfterSecondHalf, Phases, Live, InMatch
    <2> QED
      BY <2>1, <2>2, EndShown DEF scoreVars
  <1> QED
    BY <1>1, <1>2, <1>3, <1>4, <1>5 DEF RunState

\* A round: a win in the period being played, or nothing.
LEMMA RoundShown ==
    ASSUME Showing, ~knife, RoundOver
    PROVE  ShownStep
  <1>1. PICK win \in Team \cup {"DRAW"} : RoundEnd(win)
    BY DEF RoundOver, KnifeRoundFailed
  <1>2. UNCHANGED <<state, rosterT>>
    BY <1>1 DEF RoundEnd
  <1>3. CASE state \in Live /\ Wins(win)
    <2>1. win \in Team /\ score' = [score EXCEPT ![state][win] = @ + 1]
      BY <1>1, <1>3 DEF RoundEnd, WithPoint, Wins
    <2>2. BoardStep
      BY <1>2, <1>3, <2>1, WinStep DEF Showing
    <2>3. FirstHalfAlone'
      BY <1>2, <2>1 DEF Showing, FirstHalfAlone, ScoreType, Live
    <2> QED
      BY <2>2, <2>3 DEF ShownStep
  <1>4. CASE ~(state \in Live /\ Wins(win))
    <2>1. score' = score
      BY <1>1, <1>4 DEF RoundEnd, WithPoint, scoreVars
    <2> QED
      BY <1>2, <2>1, QuietShown
  <1> QED
    BY <1>3, <1>4

LEMMA LO3Shown == ASSUME Showing, LO3 PROVE ShownStep
  <1>1. UNCHANGED <<state, rosterT>>
    BY DEF LO3
  <1>2. \/ score' = score
        \/ state \in Live /\ score' = [score EXCEPT ![state] = NoScore[state]]
    BY DEF LO3, scoreVars
  <1>3. CASE score' = score
    BY <1>1, <1>3, QuietShown
  <1>4. CASE state \in Live /\ score' = [score EXCEPT ![state] = NoScore[state]]
    <2>1. BoardStep
      BY <1>1, <1>4, WipeStep DEF Showing
    <2>2. FirstHalfAlone'
      BY <1>1, <1>4 DEF Showing, FirstHalfAlone, ScoreType, Live
    <2> QED
      BY <2>1, <2>2 DEF ShownStep
  <1> QED
    BY <1>2, <1>3, <1>4

LEMMA SwapShown == ASSUME Showing, SwapTeams PROVE ShownStep
  <1>1. /\ state' = state
        /\ \/ UNCHANGED <<score, rosterT>>
           \/ score' = SwapScores(score) /\ rosterT' = Other(rosterT)
    BY DEF SwapTeams
  <1>2. CASE UNCHANGED <<score, rosterT>>
    BY <1>1, <1>2, QuietShown
  <1>3. CASE score' = SwapScores(score) /\ rosterT' = Other(rosterT)
    <2>1. BoardStep
      BY <1>1, <1>3, SidesStep DEF Showing
    <2>2. FirstHalfAlone'
      BY <1>1, <1>3 DEF Showing, FirstHalfAlone, SwapScores, NoScore, Team, Live
    <2> QED
      BY <2>1, <2>2 DEF ShownStep
  <1> QED
    BY <1>1, <1>2, <1>3

\* A surrender ends the match with a lead of the winner's roster.
LEMMA EndGameShown ==
    ASSUME Showing, NEW winner \in Team, EndGame(winner)
    PROVE  ShownStep
  <1> DEFINE rounds(p) == IF p = "FIRST_HALF" THEN Half ELSE IF p = "SECOND_HALF" THEN 1 ELSE 0
             r == Playing(winner, rosterT)
  <1>1. /\ state \in Live /\ rosterT' = rosterT /\ EnterEnd(task, ready)
    BY DEF EndGame
  <1>2. state' = "END"
    BY <1>1 DEF EnterEnd
  <1>3. FirstHalfAlone'
    BY <1>2 DEF FirstHalfAlone
  <1>4. BoardStep
    <2>1. CASE ~MustDeclare(winner)
      <3>1. score' = score
        BY <2>1 DEF EndGame, scoreVars
      <3> QED
        BY <1>1, <1>2, <3>1, PhaseStep, PeriodNames
    <2>2. CASE MustDeclare(winner)
      <3>1. score' = [p \in Live |-> [t \in Team |-> IF t = winner THEN rounds(p) ELSE 0]]
        BY <2>2 DEF EndGame
      <3>2. /\ BoardPhase = state /\ BoardPhase' = "END" /\ BoardTally' = Shown(score', rosterT)
        BY <1>1, <1>2, BoardShown, BoardShownNext, PeriodNames
      <3>3. r \in Roster /\ \A q \in Roster : (IF q = rosterT THEN "T" ELSE "CT") = winner <=> q = r
        BY DEF Showing, Playing, Other, Roster, Team
      <3>4. Half \in Nat
        BY MatchAssumption DEF Half
      <3>5. \A p \in Live, q \in Roster : BoardTally'[p][q] = IF q = r THEN rounds(p) ELSE 0
        <4> HIDE DEF r, rounds
        <4> QED
          BY <3>1, <3>2, <3>3 DEF Shown, Team
      <3>6. BoardTally' \in [Live -> [Roster -> Nat]]
        <4>1. \A p \in Live : rounds(p) \in Nat
          BY <3>4
        <4>2. BoardTally' = [p \in Live |-> [q \in Roster |-> BoardTally'[p][q]]]
          BY <3>2 DEF Shown
        <4> HIDE DEF r, rounds
        <4> QED
          BY <3>5, <4>1, <4>2
      <3>7. \A o \in Board!Roster \ {r} : Board!Total(BoardTally', r) > Board!Total(BoardTally', o)
        <4> TAKE o \in Board!Roster \ {r}
        <4>1. o \in Roster /\ o # r
          BY DEF Board!Roster, Roster
        <4>2. /\ BoardTally'["FIRST_HALF"][r] = Half /\ BoardTally'["FIRST_HALF"][o] = 0
              /\ BoardTally'["SECOND_HALF"][r] = 1 /\ BoardTally'["SECOND_HALF"][o] = 0
              /\ BoardTally'["OVERTIME"][r] = 0 /\ BoardTally'["OVERTIME"][o] = 0
          <5> HIDE DEF r
          <5> QED
            BY <3>3, <3>5, <4>1 DEF Live
        <4> HIDE DEF r
        <4> QED
          BY <3>4, <4>2 DEF Board!Total
      <3>8. Board!Declare(r)
        <4> HIDE DEF r
        <4> QED
          BY <1>1, <3>2, <3>6, <3>7, PeriodNames DEF Board!Declare, Board!Roster, Roster
      <3> HIDE DEF r
      <3> QED
        BY <3>3, <3>8 DEF Board!Next, Board!Roster, Roster, BoardStep
    <2> QED
      BY <2>1, <2>2
  <1> QED
    BY <1>3, <1>4 DEF ShownStep

\* The restart of a period that is played, or of one that cannot go on.
LEMMA RestarPeriodShown == ASSUME Showing, RestarPeriod PROVE ShownStep
  <1>1. state \in Live /\ ClearPeriod(state, rosterT) /\ EnterPeriod(state, task)
    BY DEF RestarPeriod
  <1>2. state' \in {state, IF state = "FIRST_HALF" THEN "WARMUP" ELSE "HALFTIME"}
    BY <1>1, PeriodPhase
  <1>3. CASE state = "FIRST_HALF"
    <2>1. score' = NoScore /\ rosterT' \in Roster
      BY <1>1, <1>3 DEF Showing, ClearPeriod, Cleared, Roster
    <2>2. BoardStep
      BY <1>2, <1>3, <2>1, IdleStep, FreshStep DEF Showing, IdlePhases
    <2>3. FirstHalfAlone'
      BY <2>1 DEF FirstHalfAlone
    <2> QED
      BY <2>2, <2>3 DEF ShownStep
  <1>4. CASE state # "FIRST_HALF"
    <2>1. score' = [score EXCEPT ![state] = NoScore[state]] /\ rosterT' = rosterT
      BY <1>1, <1>4 DEF ClearPeriod, Cleared
    <2>2. BoardStep
      BY <1>1, <1>2, <1>4, <2>1, WipeStep DEF Showing
    <2>3. FirstHalfAlone'
      BY <1>1, <1>2, <1>4 DEF FirstHalfAlone, Live
    <2> QED
      BY <2>2, <2>3 DEF ShownStep
  <1> QED
    BY <1>3, <1>4

(* --------------------------- SetState, seated --------------------------- *)

LEMMA EnterWarmupSeated ==
    ASSUME NEW tk \in TaskTable, NoSideVote(tk), EnterWarmup(tk)
    PROVE  NoSideVote(task') /\ state' = "WARMUP"
  BY ArmNoSideVote DEF EnterWarmup, Phases

LEMMA EnterHalftimeSeated ==
    ASSUME NEW tk \in TaskTable, NoSideVote(tk), NEW rdy, EnterHalftime(tk, rdy)
    PROVE  NoSideVote(task') /\ state' = "HALFTIME"
  <1>1. "HALFTIME" \in Phases /\ "HALFTIME" \in Origins
    BY DEF Phases, Origins
  <1>2. ArmSwap(tk) \in TaskTable /\ NoSideVote(ArmSwap(tk))
    BY <1>1, ArmType, ArmNoSideVote
  <1>3. NoSideVote(ArmNext(ArmSwap(tk), 7, "HALFTIME"))
        /\ NoSideVote(ReadyLoad(ArmSwap(tk), "HALFTIME"))
    BY <1>1, <1>2, ArmNoSideVote
  <1> QED
    BY <1>3 DEF EnterHalftime

\* A period begins, or its player check fails.
LEMMA EnterPeriodSeated ==
    ASSUME NEW tk \in TaskTable, NoSideVote(tk), NEW p \in Live, EnterPeriod(p, tk)
    PROVE  /\ NoSideVote(task')
           /\ state' \in {p, IF p = "FIRST_HALF" THEN "WARMUP" ELSE "HALFTIME"}
  <1> DEFINE quiet == Remove(tk, "LIST")
  <1>1. p \in Phases /\ quiet \in TaskTable /\ NoSideVote(quiet)
    BY RemoveType, RemoveNoSideVote, SlotNames DEF Phases
  <1>2. \/ state' = p /\ task' = StartLO3(quiet, p)
        \/ p = "FIRST_HALF" /\ EnterWarmup(quiet)
        \/ p # "FIRST_HALF" /\ EnterHalftime(quiet, FALSE)
    BY DEF EnterPeriod
  <1> HIDE DEF quiet
  <1> QED
    BY <1>1, <1>2, ArmNoSideVote, EnterWarmupSeated, EnterHalftimeSeated

LEMMA EnterEndSeated ==
    ASSUME NEW tk \in TaskTable, NoSideVote(tk), NEW rdy, EnterEnd(tk, rdy)
    PROVE  NoSideVote(task') /\ state' = "END" /\ voteTeam' = voteTeam
  <1>1. "END" \in Phases
    BY DEF Phases
  <1> QED
    BY <1>1, ArmNoSideVote DEF EnterEnd

LEMMA SetModeSeated ==
    ASSUME Seated, PlainTeams, NEW tk \in TaskTable, NoSideVote(tk), NEW p \in Phases,
           SetMode(2, tk, p)
    PROVE  /\ NoSideVote(task') /\ rosterT' = rosterT
           /\ knife' = FALSE /\ picking' = FALSE
  <1>0. 2 # 0 /\ 2 \in 1..5 /\ 2 # 5 /\ 2 \notin {1, 3} /\ 2 # 4
    OBVIOUS
  <1>1. /\ knife' = (knife \/ KnifeRoundPlay) /\ task' = ArmNext(tk, 3, p)
        /\ rosterT' \in {rosterT} /\ UNCHANGED picking
    BY <1>0 DEF SetMode
  <1>2. NoSideVote(task')
    BY <1>1, ArmNoSideVote
  <1>3. knife' = FALSE
    BY <1>1, Zenon DEF Seated, PlainTeams
  <1> QED
    BY <1>1, <1>2, <1>3 DEF Seated

LEMMA EnterStartSeated ==
    ASSUME Seated, PlainTeams, NEW tk \in TaskTable, NoSideVote(tk),
           NEW vm \in BOOLEAN, NEW vt \in {-1, 2}, EnterStart(tk, vm, vt)
    PROVE  NoSideVote(task') /\ state' = "START" /\ Seated' /\ rosterT' = rosterT
  <1> DEFINE quiet == Remove(tk, "LIST")
             mapFirst == vm /\ VoteMapType # 0
  <1>1. quiet \in TaskTable /\ NoSideVote(quiet) /\ "START" \in Phases
    BY RemoveType, RemoveNoSideVote, SlotNames DEF Phases
  <1>2. state' = "START" /\ voteTeam' = vt
    BY DEF EnterStart
  <1>3. CASE mapFirst \/ vt = -1
    <2>1. UNCHANGED <<knife, picking, inGame, rosterT, gameVars>>
          /\ \/ task' = OpenVote(quiet, "VoteMap.Stop", "START")
             \/ task' = ChangelevelDelay(quiet, "START")
             \/ task' = OpenVote(quiet, "VoteTeam.Stop", "START")
      BY <1>3 DEF EnterStart
    <2> HIDE DEF quiet
    <2> QED
      BY <1>1, <1>2, <2>1, ArmNoSideVote DEF Seated
  <1>4. CASE ~mapFirst /\ vt # -1
    <2>1. SetMode(2, quiet, "START")
      BY <1>4 DEF EnterStart
    <2> HIDE DEF quiet
    <2> QED
      BY <1>1, <1>2, <2>1, SetModeSeated DEF Seated
  <1> QED
    BY <1>3, <1>4

\* What every step of the match controller keeps, and shows.
SeatedStep == NoSideVote(task') /\ Seated' /\ ShownStep

LEMMA SeatsKept == ASSUME Seated, UNCHANGED <<knife, picking, voteTeam>> PROVE Seated'
  BY DEF Seated

LEMMA RunStateSeated ==
    ASSUME SeatedInv, PlainTeams, NEW tk \in TaskTable, NoSideVote(tk), NEW rdy \in BOOLEAN,
           RunState(tk, rdy)
    PROVE  SeatedStep
  <1>0. state \in Phases /\ Showing /\ voteMap \in BOOLEAN /\ Seated /\ voteTeam \in {-1, 2}
    BY DEF SeatedInv, MatchInv, AllTypes, FlowType, VoteType, Seated, Showing
  <1>1. ShownStep
    BY <1>0, RunStateShown
  <1>2. CASE NextPhase = "WARMUP"
    <2>1. EnterWarmup(tk) /\ UNCHANGED setupVars
      BY <1>2 DEF RunState
    <2> QED
      BY <1>0, <1>1, <2>1, EnterWarmupSeated, SeatsKept DEF SeatedStep, setupVars
  <1>3. CASE NextPhase = "START"
    <2>1. EnterStart(tk, voteMap, voteTeam)
      BY <1>3 DEF RunState
    <2> QED
      BY <1>0, <1>1, <2>1, EnterStartSeated DEF SeatedStep
  <1>4. CASE NextPhase \in Live
    <2>1. EnterPeriod(NextPhase, tk) /\ UNCHANGED setupVars
      BY <1>4 DEF RunState, Live
    <2> QED
      BY <1>0, <1>1, <1>4, <2>1, EnterPeriodSeated, SeatsKept DEF SeatedStep, setupVars
  <1>5. CASE NextPhase = "HALFTIME"
    <2>1. EnterHalftime(tk, rdy) /\ UNCHANGED setupVars
      BY <1>5 DEF RunState
    <2> QED
      BY <1>0, <1>1, <2>1, EnterHalftimeSeated, SeatsKept DEF SeatedStep, setupVars
  <1>6. CASE NextPhase = "END"
    <2>1. EnterEnd(tk, rdy) /\ UNCHANGED <<knife, picking>>
      BY <1>6 DEF RunState
    <2> QED
      BY <1>0, <1>1, <2>1, EnterEndSeated, SeatsKept DEF SeatedStep
  <1> QED
    BY <1>2, <1>3, <1>4, <1>5, <1>6 DEF RunState, Live

(* ------------------------------- actions -------------------------------- *)

\* What the lemmas below use of the invariant.
LEMMA SeatedParts ==
    ASSUME SeatedInv
    PROVE  /\ state \in Phases /\ task \in TaskTable /\ ready \in BOOLEAN
           /\ ScoreType /\ rosterT \in Roster
           /\ Seated /\ NoSideVote(task) /\ FirstHalfAlone /\ Showing
           /\ NoSideVote(VoteClosed) /\ NoSideVote(VoteAndListClosed)
           /\ VoteClosed \in TaskTable /\ VoteAndListClosed \in TaskTable
           /\ \A slot \in Slots : Remove(task, slot) \in TaskTable /\ NoSideVote(Remove(task, slot))
  <1>1. state \in Phases /\ task \in TaskTable /\ ready \in BOOLEAN /\ ScoreType
        /\ rosterT \in Roster /\ Seated /\ NoSideVote(task) /\ FirstHalfAlone
    BY DEF SeatedInv, MatchInv, AllTypes, FlowType
  <1>2. \A slot \in Slots : Remove(task, slot) \in TaskTable /\ NoSideVote(Remove(task, slot))
    BY <1>1, RemoveType, RemoveNoSideVote
  <1> QED
    BY <1>1, <1>2, RemoveType, RemoveNoSideVote, SlotNames
       DEF VoteClosed, VoteAndListClosed, Showing

\* Steps that leave the phase, the points and the players as they are.
LEMMA QuietSeated ==
    ASSUME SeatedInv, UNCHANGED <<state, score, rosterT, knife, picking, voteTeam>>,
           NoSideVote(task')
    PROVE  SeatedStep
  BY SeatedParts, QuietShown, SeatsKept DEF SeatedStep

LEMMA InitSeated == ASSUME Init, PlainTeams PROVE SeatedInv /\ Board!Init
  <1>1. NoSideVote(BootTasks)
    <2>1. NoTasks \in TaskTable /\ NoSideVote(NoTasks) /\ {"WARMUP", "DEAD"} \subseteq Phases
      BY DEF NoTasks, Idle, TaskTable, TaskType, Callbacks, NoSideVote, SideVotes, Slots, Phases
    <2> QED
      BY <2>1, ArmNoSideVote, TimeAssumption DEF BootTasks
  <1>2. Seated /\ FirstHalfAlone
    BY DEF Init, Seated, FirstHalfAlone, PlainTeams, BootPhase
  <1>3. Board!Init
    <2>1. state \in IdlePhases
      BY DEF Init, BootPhase, IdlePhases
    <2> QED
      BY <2>1, BoardShown DEF Board!Init
  <1> QED
    BY <1>1, <1>2, <1>3, InitSound DEF SeatedInv, Init

\* A round arms only RunState: ties have no vote.
LEMMA RoundOverSeated ==
    ASSUME SeatedInv, PlainTeams, RoundOver
    PROVE  SeatedStep
  <1>0. ~knife
    BY SeatedParts DEF Seated
  <1>1. PICK win \in Team \cup {"DRAW"} : RoundEnd(win)
    BY <1>0 DEF RoundOver, KnifeRoundFailed
  <1>2. ShownStep
    BY <1>0, SeatedParts, RoundShown
  <1>3. NoSideVote(task')
    <2>1. \A sc : ~TieVote(state, sc)
      BY DEF TieVote, PlainTeams
    <2>2. task' = ArmNext(task, RoundDelay, state) \/ task' = task
      BY <1>0, <1>1, <2>1 DEF RoundEnd, AfterRound
    <2>3. RoundDelay \in Nat
      BY TimeAssumption
    <2> QED
      BY <2>2, <2>3, SeatedParts, ArmNoSideVote
  <1> QED
    BY <1>1, <1>2, <1>3, SeatedParts, SeatsKept DEF SeatedStep, RoundEnd, setupVars

LEMMA MapChangeSeated ==
    ASSUME SeatedInv, PlainTeams, MapChange
    PROVE  SeatedStep
  <1>1. NoSideVote(BootTasks)
    <2>1. NoTasks \in TaskTable /\ NoSideVote(NoTasks) /\ {"WARMUP", "DEAD"} \subseteq Phases
      BY DEF NoTasks, Idle, TaskTable, TaskType, Callbacks, NoSideVote, SideVotes, Slots, Phases
    <2> QED
      BY <2>1, ArmNoSideVote, TimeAssumption DEF BootTasks
  <1>2. state' \in IdlePhases \ {"START"}
    BY DEF MapChange, BootPhase, IdlePhases
  <1>3. BoardStep /\ FirstHalfAlone'
    BY <1>2, SeatedParts, IdleStep DEF FirstHalfAlone, IdlePhases
  <1> QED
    BY <1>1, <1>3, SeatedParts DEF MapChange, SeatedStep, ShownStep, Seated, PlainTeams

LEMMA LO3Seated ==
    ASSUME SeatedInv, LO3
    PROVE  SeatedStep
  <1> DEFINE tk == Remove(task, "LO3R")
             n == task["LO3R"].arg
  <1>1. tk \in TaskTable /\ NoSideVote(tk) /\ "LO3" \notin SideVotes
    BY SeatedParts, SlotNames DEF SideVotes
  <1>2. /\ UNCHANGED <<knife, picking, voteTeam>>
        /\ task' = Create(tk, "LO3R", "LO3", n + 1, n + 1, state) \/ task' = tk
    BY DEF LO3, setupVars
  <1>3. ShownStep
    BY SeatedParts, LO3Shown
  <1> HIDE DEF tk, n
  <1> QED
    BY <1>1, <1>2, <1>3, SeatedParts, SeatsKept, CreateNoSideVote, SlotNames DEF SeatedStep

LEMMA SwapTeamsSeated ==
    ASSUME SeatedInv, SwapTeams
    PROVE  SeatedStep
  <1>1. UNCHANGED <<knife, picking, voteTeam>> /\ task' = Remove(task, "EXEC")
    BY DEF SwapTeams, setupVars
  <1> QED
    BY <1>1, SeatedParts, SwapShown, SeatsKept, SlotNames DEF SeatedStep

\* The other callbacks: the phases that follow, and a map vote that failed.
LEMMA PhaseCallbackSeated ==
    ASSUME SeatedInv, PlainTeams, NextDue \/ ReadyDone \/ VoteMapFail
    PROVE  SeatedStep
  <1>1. CASE NextDue \/ ReadyDone
    BY <1>1, SeatedParts, SlotNames, RunStateSeated DEF NextDue, ReadyDone
  <1>2. CASE VoteMapFail
    <2> DEFINE tk == Remove(task, "NEXT")
    <2>1. tk \in TaskTable /\ NoSideVote(tk)
      BY SeatedParts, SlotNames
    <2>2. CASE RunState(tk, ready)
      <3> HIDE DEF tk
      <3> QED
        BY <2>1, <2>2, SeatedParts, RunStateSeated
    <2>3. CASE /\ task' \in {OpenVote(tk, "VoteMap.Stop", state), ChangelevelDelay(tk, state)}
               /\ UNCHANGED <<state, ready, scoreVars, gameVars, rosterT, setupVars>>
      <3>1. NoSideVote(task')
        <4> HIDE DEF tk
        <4> QED
          BY <2>1, <2>3, SeatedParts, ArmNoSideVote
      <3> QED
        BY <2>3, <3>1, QuietSeated DEF scoreVars, setupVars
    <2> QED
      BY <1>2, <2>2, <2>3 DEF VoteMapFail
  <1> QED
    BY <1>1, <1>2

LEMMA VoteStopSeated ==
    ASSUME SeatedInv, PlainTeams, VoteStop
    PROVE  SeatedStep
  <1>1. CASE VoteMapStop
    <2>1. NoSideVote(task')
      <3>1. CASE task' = ChangelevelDelay(VoteClosed, state)
        BY <3>1, SeatedParts, ArmNoSideVote
      <3>2. CASE task' = Create(VoteAndListClosed, "NEXT", "VoteMap.Fail", 0, 5, state)
        <4>1. "VoteMap.Fail" \notin SideVotes
          BY DEF SideVotes
        <4> QED
          BY <3>2, <4>1, SeatedParts, CreateNoSideVote, SlotNames
      <3> QED
        BY <1>1, <3>1, <3>2 DEF VoteMapStop
    <2> QED
      BY <1>1, <2>1, QuietSeated DEF VoteMapStop, scoreVars, setupVars
  <1>2. CASE VoteTeamStop
    <2>1. UNCHANGED <<state, score, voteTeam>>
      BY <1>2 DEF VoteTeamStop, scoreVars, voteVars
    <2>2. CASE \E mode \in TeamModes : SetMode(mode, VoteAndListClosed, state)
      <3>1. SetMode(2, VoteAndListClosed, state)
        BY <2>2 DEF PlainTeams
      <3>2. NoSideVote(task') /\ rosterT' = rosterT /\ knife' = FALSE /\ picking' = FALSE
        BY <3>1, SeatedParts, SetModeSeated
      <3> QED
        BY <2>1, <3>2, SeatedParts, QuietSeated DEF Seated
    <2>3. CASE /\ task' = ArmNext(VoteAndListClosed, 3, state)
               /\ UNCHANGED <<knife, picking, inGame, rosterT, gameVars>>
      <3>1. NoSideVote(task')
        BY <2>3, SeatedParts, ArmNoSideVote
      <3> QED
        BY <2>1, <2>3, <3>1, QuietSeated
    <2> QED
      BY <1>2, <2>2, <2>3 DEF VoteTeamStop
  <1>3. ~VoteOvertimeStop /\ ~KnifeVoteEnd
    BY SeatedParts DEF VoteOvertimeStop, KnifeVoteEnd, VoteOpen, NoSideVote, SideVotes
  <1> QED
    BY <1>1, <1>2, <1>3 DEF VoteStop

LEMMA PlayerSeated ==
    ASSUME SeatedInv, PlainTeams, Player
    PROVE  SeatedStep
  <1>1. CASE Join
    BY <1>1, SeatedParts, QuietSeated DEF Join, scoreVars, voteVars
  <1>2. ASSUME NEW last \in BOOLEAN, CaptainPick(last) PROVE FALSE
    BY <1>2, SeatedParts DEF CaptainPick, Seated
  <1>3. ASSUME NEW inTeam \in BOOLEAN, NEW captain \in BOOLEAN, Disconnect(inTeam, captain)
        PROVE  SeatedStep
    <2>1. captain = FALSE /\ picking' = FALSE /\ knife' = FALSE
      <3>1. picking = FALSE /\ knife = FALSE
        BY SeatedParts DEF Seated
      <3>2. captain => picking
        BY <1>3 DEF Disconnect
      <3>3. captain = FALSE
        BY <3>1, <3>2
      <3>4. picking' = (picking /\ ~captain) /\ knife' = (knife \/ (captain /\ KnifeRoundPlay))
        BY <1>3 DEF Disconnect
      <3> QED
        BY <3>1, <3>3, <3>4, Zenon
    <2>2. UNCHANGED <<score, rosterT>>
      BY <1>3 DEF Disconnect, scoreVars
    <2>3. CASE task' = task /\ UNCHANGED <<state, voteVars>>
      BY <2>1, <2>2, <2>3, SeatedParts, QuietSeated DEF Seated, voteVars
    <2>4. CASE state \in InMatch /\ EnterEnd(task, ready)
      <3>1. NoSideVote(task') /\ voteTeam' = voteTeam
        BY <2>4, SeatedParts, EnterEndSeated
      <3>2. ShownStep
        BY <2>2, <2>4, SeatedParts, EndShown
      <3> QED
        BY <2>1, <3>1, <3>2, SeatedParts DEF SeatedStep, Seated
    <2> QED
      BY <1>3, <2>1, <2>3, <2>4 DEF Disconnect
  <1> QED
    BY <1>1, <1>2, <1>3 DEF Player

\* A surrender, and the restart of a period.
LEMMA EndGameSeated ==
    ASSUME SeatedInv, NEW winner \in Team, EndGame(winner)
    PROVE  SeatedStep
  <1>1. EnterEnd(task, ready) /\ UNCHANGED <<knife, picking>>
    BY DEF EndGame
  <1> QED
    BY <1>1, SeatedParts, EnterEndSeated, EndGameShown, SeatsKept DEF SeatedStep

LEMMA RestarPeriodSeated ==
    ASSUME SeatedInv, RestarPeriod
    PROVE  SeatedStep
  <1>1. state \in Live /\ EnterPeriod(state, task) /\ UNCHANGED <<knife, picking, voteTeam>>
    BY DEF RestarPeriod, setupVars
  <1> QED
    BY <1>1, SeatedParts, EnterPeriodSeated, RestarPeriodShown, SeatsKept DEF SeatedStep

LEMMA AdminSeated ==
    ASSUME SeatedInv, PlainTeams, Admin
    PROVE  SeatedStep
  <1>1. CASE StartVoteMap \/ StartMatch \/ ToggleReady \/ ChangeMap
    <2>1. NoSideVote(task')
      BY <1>1, SeatedParts, SlotNames, ArmNoSideVote
         DEF StartVoteMap, StartMatch, ToggleReady, ChangeMap
    <2>2. UNCHANGED <<state, score, rosterT, knife, picking, voteTeam>>
      BY <1>1 DEF StartVoteMap, StartMatch, ToggleReady, ChangeMap, scoreVars, setupVars
    <2> QED
      BY <2>1, <2>2, QuietSeated
  <1>2. CASE StartVoteTeam
    <2>1. EnterStart(task, FALSE, -1) /\ UNCHANGED score
      BY <1>2 DEF StartVoteTeam, scoreVars
    <2>2. NoSideVote(task') /\ state' = "START" /\ Seated'
      BY <2>1, SeatedParts, EnterStartSeated
    <2> QED
      BY <2>1, <2>2, SeatedParts, IdleStep, AloneKept DEF SeatedStep, ShownStep, IdlePhases
  <1>3. CASE StopMatch
    <2>1. /\ state \in InMatch /\ EnterEnd(Remove(task, "LO3R"), ready)
          /\ UNCHANGED <<score, rosterT, knife, picking>>
      BY <1>3 DEF StopMatch, scoreVars
    <2>2. NoSideVote(task') /\ voteTeam' = voteTeam
      BY <2>1, SeatedParts, SlotNames, EnterEndSeated
    <2> QED
      BY <2>1, <2>2, SeatedParts, EndShown, SeatsKept DEF SeatedStep
  <1> QED
    BY <1>1, <1>2, <1>3, EndGameSeated, RestarPeriodSeated DEF Admin

(* ------------------------------- theorems ------------------------------- *)

LEMMA NextSeated == ASSUME SeatedInv, PlainTeams, [Next]_vars PROVE SeatedStep
  <1>1. CASE EngineStep \/ Tick
    <2>1. UNCHANGED <<state, score, rosterT, knife, picking, voteTeam>>
      BY <1>1 DEF EngineStep, RoundRestart, FreezeEnd, Tick, scoreVars, setupVars
    <2>2. NoSideVote(task')
      BY <1>1, SeatedParts
         DEF EngineStep, RoundRestart, FreezeEnd, Tick, Elapse, NoSideVote, TaskTable, TaskType,
             Slots
    <2> QED
      BY <2>1, <2>2, QuietSeated
  <1>2. CASE Callback \/ ReadyDone
    BY <1>2, PhaseCallbackSeated, LO3Seated, SwapTeamsSeated, MapChangeSeated DEF Callback
  <1>3. CASE UNCHANGED vars
    BY <1>3, SeatedParts, QuietSeated DEF vars
  <1> QED
    BY <1>1, <1>2, <1>3, RoundOverSeated, VoteStopSeated, PlayerSeated, AdminSeated DEF Next

\* The match controller implements the scoreboard: whatever the timers, restarts, requests
\* and disconnections, and however often the sides change, a roster keeps the rounds it
\* has won in finished periods, gains them one at a time in the period being played, and
\* the result of a match that has ended stands.
THEOREM BoardImplemented == ASSUME PlainTeams PROVE Spec => ImplementsScoreboard
  <1>1. SeatedInv /\ [Next]_vars => SeatedInv' /\ BoardStep
    <2> SUFFICES ASSUME SeatedInv, [Next]_vars PROVE SeatedInv' /\ BoardStep
      OBVIOUS
    <2>1. SeatedStep
      BY NextSeated
    <2>2. MatchInv'
      BY NextSound, StutterSound DEF SeatedInv
    <2>3. NoSideVote(task)'
      BY <2>1 DEF SeatedStep, NoSideVote
    <2> QED
      BY <2>1, <2>2, <2>3 DEF SeatedStep, ShownStep, SeatedInv
  <1>2. Init => SeatedInv /\ Board!Init
    BY InitSeated
  <1> QED
    BY <1>1, <1>2, PTL DEF Spec, ImplementsScoreboard, Board!Spec, Board!vars, BoardStep

(* --------------------- the scoreboard, with any teams -------------------- *)

\* Captains, shuffles and swaps make the teams while the scoreboard is idle.
LEMMA SetupShown ==
    ASSUME Orderly, OrderlyInv, Showing, VoteStop \/ Player
    PROVE  ShownStep
  <1>1. CASE VoteStop
    <2>1. Exists(task, "VOTE")
      BY <1>1 DEF VoteStop, VoteMapStop, VoteTeamStop, VoteOvertimeStop, KnifeVoteEnd, VoteOpen,
                  Exists
    <2>2. state = "START" /\ task["VOTE"].run \in {"VoteMap.Stop", "VoteTeam.Stop"}
      BY <2>1 DEF OrderlyInv, Ordered, SetupOrder
    <2>3. VoteMapStop \/ VoteTeamStop
      BY <1>1, <2>2 DEF VoteStop, VoteOvertimeStop, KnifeVoteEnd, VoteOpen
    <2>4. state' = "START" /\ score' = score
      BY <2>2, <2>3 DEF VoteMapStop, VoteTeamStop, scoreVars
    <2> QED
      BY <2>4, IdleStep, AloneKept DEF Showing, ShownStep, IdlePhases
  <1>2. CASE Player
    <2>1. UNCHANGED <<state, score, rosterT>>
      BY <1>2 DEF Player, Join, Disconnect, CaptainPick, Orderly, scoreVars
    <2> QED
      BY <2>1, QuietShown
  <1> QED
    BY <1>1, <1>2

LEMMA CallbackShown ==
    ASSUME Showing, Callback \/ ReadyDone
    PROVE  ShownStep
  <1>1. CASE NextDue \/ ReadyDone
    BY <1>1, RunStateShown DEF NextDue, ReadyDone
  <1>2. CASE VoteMapFail
    <2>1. RunState(Remove(task, "NEXT"), ready) \/ UNCHANGED <<state, score, rosterT>>
      BY <1>2 DEF VoteMapFail, scoreVars
    <2> QED
      BY <2>1, RunStateShown, QuietShown
  <1>3. CASE MapChange
    <2>1. state' \in IdlePhases \ {"START"}
      BY <1>3 DEF MapChange, BootPhase, IdlePhases
    <2> QED
      BY <2>1, IdleStep DEF Showing, ShownStep, FirstHalfAlone, IdlePhases
  <1> QED
    BY <1>1, <1>2, <1>3, LO3Shown, SwapShown DEF Callback

LEMMA AdminShown == ASSUME Showing, Admin PROVE ShownStep
  <1>1. CASE StartVoteMap \/ StartMatch \/ ToggleReady \/ ChangeMap
    <2>1. UNCHANGED <<state, score, rosterT>>
      BY <1>1 DEF StartVoteMap, StartMatch, ToggleReady, ChangeMap, scoreVars
    <2> QED
      BY <2>1, QuietShown
  <1>2. CASE StartVoteTeam
    <2>1. state' = "START" /\ score' = score
      BY <1>2 DEF StartVoteTeam, EnterStart, scoreVars
    <2> QED
      BY <2>1, IdleStep, AloneKept DEF Showing, ShownStep, IdlePhases
  <1>3. CASE StopMatch
    <2>1. /\ state \in InMatch /\ EnterEnd(Remove(task, "LO3R"), ready)
          /\ UNCHANGED <<score, rosterT>>
      BY <1>3 DEF StopMatch, scoreVars
    <2> QED
      BY <2>1, EndShown
  <1> QED
    BY <1>1, <1>2, <1>3, EndGameShown, RestarPeriodShown DEF Admin

LEMMA NextShown ==
    ASSUME Orderly, OrderlyInv, FirstHalfAlone, [Next]_vars
    PROVE  ShownStep
  <1>1. Showing /\ ~knife
    BY DEF OrderlyInv, MatchInv, AllTypes, FlowType, KnifeFree, Showing
  <1>2. CASE EngineStep \/ Tick \/ UNCHANGED vars
    <2>1. UNCHANGED <<state, score, rosterT>>
      BY <1>2 DEF EngineStep, RoundRestart, FreezeEnd, Tick, scoreVars, vars
    <2> QED
      BY <1>1, <2>1, QuietShown
  <1> QED
    BY <1>1, <1>2, RoundShown, CallbackShown, SetupShown, AdminShown DEF Next

\* The controller implements the scoreboard whichever way the teams are made: the captains,
\* the shuffles and the swaps are over before the match whose points they could mix up, if no
\* knife round, overtime vote, leaver or forced start moves players or phases in its course.
THEOREM BoardImplementedAnyTeams == ASSUME Orderly PROVE Spec => ImplementsScoreboard
  <1>1. Init => FirstHalfAlone /\ Board!Init
    <2>1. Init => state \in IdlePhases \ {"START"}
      BY DEF Init, BootPhase, IdlePhases
    <2> QED
      BY <2>1, BoardShown DEF FirstHalfAlone, Board!Init, IdlePhases
  <1>2. OrderlyInv /\ FirstHalfAlone /\ [Next]_vars => FirstHalfAlone' /\ BoardStep
    BY NextShown DEF ShownStep
  <1> QED
    BY <1>1, <1>2, OrderlyInvariant, PTL
       DEF Spec, ImplementsScoreboard, Board!Spec, Board!vars, BoardStep

(* ------------- the points follow those who keep their seats --------------- *)

\* The phase that follows: the teams stay, and only a new match clears anything.
LEMMA FollowsRunState ==
    ASSUME SeatedInv, PlainTeams, Follows, NEW tk \in TaskTable, NoSideVote(tk),
           NEW rdy \in BOOLEAN, RunState(tk, rdy)
    PROVE  Follows'
  <1>0. ScoreType /\ rosterT \in Roster /\ Seated /\ voteMap \in BOOLEAN /\ voteTeam \in {-1, 2}
    BY SeatedParts DEF SeatedInv, MatchInv, AllTypes, VoteType, Seated
  <1>1. CASE NextPhase = "START"
    <2>1. EnterStart(tk, voteMap, voteTeam) /\ UNCHANGED scoreVars
      BY <1>1 DEF RunState
    <2>2. rosterT' = rosterT
      BY <1>0, <2>1, EnterStartSeated
    <2> QED
      BY <2>1, <2>2, FollowsKept DEF scoreVars
  <1>2. CASE NextPhase = "FIRST_HALF"
    <2>1. ClearPeriod("FIRST_HALF", rosterT) /\ "FIRST_HALF" \in Live
      BY <1>2 DEF RunState, Live
    <2> QED
      BY <1>0, <2>1, FollowsCleared
  <1>3. CASE NextPhase \notin {"START", "FIRST_HALF"}
    <2>1. UNCHANGED <<scoreVars, rosterT>>
      BY <1>3 DEF RunState
    <2> QED
      BY <2>1, FollowsKept DEF scoreVars
  <1> QED
    BY <1>1, <1>2, <1>3

LEMMA FollowsCallback ==
    ASSUME SeatedInv, PlainTeams, Follows, Callback \/ ReadyDone
    PROVE  Follows'
  <1>0. ScoreType /\ rosterT \in Roster /\ ready \in BOOLEAN
    BY SeatedParts
  <1>1. CASE NextDue \/ ReadyDone
    BY <1>1, SeatedParts, SlotNames, FollowsRunState DEF NextDue, ReadyDone
  <1>2. CASE VoteMapFail
    <2> DEFINE tk == Remove(task, "NEXT")
    <2>1. tk \in TaskTable /\ NoSideVote(tk)
      BY SeatedParts, SlotNames
    <2>2. RunState(tk, ready) \/ UNCHANGED <<scoreVars, rosterT>>
      BY <1>2 DEF VoteMapFail
    <2> HIDE DEF tk
    <2> QED
      BY <1>0, <2>1, <2>2, FollowsRunState, FollowsKept DEF scoreVars
  <1>3. CASE LO3 \/ SwapTeams
    BY <1>0, <1>3, FollowsLO3, FollowsSwap
  <1>4. CASE MapChange
    BY <1>4, FollowsKept DEF MapChange, scoreVars
  <1> QED
    BY <1>1, <1>2, <1>3, <1>4 DEF Callback

\* No vote moves players, and a map vote gives no points.
LEMMA FollowsVote ==
    ASSUME SeatedInv, PlainTeams, Follows, VoteStop
    PROVE  Follows'
  <1>1. ~VoteOvertimeStop /\ ~KnifeVoteEnd
    BY SeatedParts DEF VoteOvertimeStop, KnifeVoteEnd, VoteOpen, NoSideVote, SideVotes
  <1>2. CASE VoteMapStop
    BY <1>2, FollowsKept DEF VoteMapStop, scoreVars
  <1>3. CASE VoteTeamStop
    <2>1. rosterT' = rosterT
      <3>1. ASSUME NEW mode \in TeamModes, SetMode(mode, VoteAndListClosed, state)
            PROVE  rosterT' = rosterT
        <4>1. SetMode(2, VoteAndListClosed, state)
          BY <3>1 DEF PlainTeams
        <4> QED
          BY <4>1, SeatedParts, SetModeSeated
      <3> QED
        BY <1>3, <3>1 DEF VoteTeamStop
    <2> QED
      BY <1>3, <2>1, FollowsKept DEF VoteTeamStop, scoreVars
  <1> QED
    BY <1>1, <1>2, <1>3 DEF VoteStop

\* Administrators restart, and a surrender declares points and credit alike.
LEMMA FollowsAdmin ==
    ASSUME SeatedInv, PlainTeams, Follows, Admin
    PROVE  Follows'
  <1>0. ScoreType /\ rosterT \in Roster /\ Seated
    BY SeatedParts
  <1>1. CASE StartVoteMap \/ StartMatch \/ ToggleReady \/ ChangeMap \/ StopMatch
    BY <1>1, FollowsKept DEF StartVoteMap, StartMatch, ToggleReady, ChangeMap, StopMatch, scoreVars
  <1>2. CASE StartVoteTeam
    <2>1. EnterStart(task, FALSE, -1) /\ UNCHANGED scoreVars
      BY <1>2 DEF StartVoteTeam
    <2>2. rosterT' = rosterT
      BY <2>1, SeatedParts, EnterStartSeated
    <2> QED
      BY <2>1, <2>2, FollowsKept DEF scoreVars
  <1>3. CASE RestarPeriod
    BY <1>0, <1>3, FollowsCleared DEF RestarPeriod
  <1>4. ASSUME NEW winner \in Team, EndGame(winner) PROVE Follows'
    BY <1>0, <1>4, FollowsSurrender
  <1> QED
    BY <1>1, <1>2, <1>3, <1>4 DEF Admin

LEMMA FollowsNext ==
    ASSUME SeatedInv, PlainTeams, Follows, [Next]_vars
    PROVE  Follows'
  <1>1. CASE EngineStep \/ Tick \/ UNCHANGED vars
    BY <1>1, FollowsKept DEF EngineStep, RoundRestart, FreezeEnd, Tick, scoreVars, vars
  <1>2. CASE Player
    BY <1>2, FollowsKept DEF Player, Join, Disconnect, CaptainPick, scoreVars
  <1>3. CASE RoundOver
    BY <1>3, SeatedParts, FollowsRound DEF Seated
  <1> QED
    BY <1>1, <1>2, <1>3, FollowsCallback, FollowsVote, FollowsAdmin DEF Next

\* For every match length, timing and set of requests, with teams that keep their players:
\* no restart, LO3, halftime, overtime, surrender or stopped match separates the points from
\* those who won them.
THEOREM PointsFollow == ASSUME PlainTeams PROVE Spec => []ScoreFollowsRoster
  <1>1. SeatedInv /\ Follows /\ [Next]_vars => SeatedInv' /\ Follows'
    <2> SUFFICES ASSUME SeatedInv, Follows, [Next]_vars PROVE SeatedInv' /\ Follows'
      OBVIOUS
    <2>1. SeatedStep /\ MatchInv' /\ Follows'
      BY NextSeated, NextSound, StutterSound, FollowsNext DEF SeatedInv
    <2> QED
      BY <2>1 DEF SeatedStep, ShownStep, SeatedInv, NoSideVote
  <1>2. Init => SeatedInv /\ Follows
    BY InitSeated, FollowsInit
  <1>3. Follows => ScoreFollowsRoster
    BY DEF Follows, ScoreFollowsRoster
  <1> QED
    BY <1>1, <1>2, <1>3, PTL DEF Spec

===============================================================================
