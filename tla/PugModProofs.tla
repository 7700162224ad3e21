----------------------------- MODULE PugModProofs -----------------------------
(***************************************************************************)
(* Theorems about the match controller, for every value of its constants:  *)
(* its variables keep their types, and the rounds it counts are the points *)
(* it awards.  The lemmas follow the structure of PugMod: one for each     *)
(* operation on the timers, one for each SetState(p), then the callers.    *)
(***************************************************************************)
EXTENDS PugMod, TLAPS

TaskTable == [Slots -> TaskType]
Origins == Phases \cup {"none"}

(* ------------------------------- timers -------------------------------- *)

\* gTask.Create, with a callback of the plugin, keeps the table of timers well formed.
LEMMA CreateType ==
    ASSUME NEW tk \in TaskTable, NEW slot \in Slots, NEW run \in Callbacks,
           NEW arg \in 0..4, NEW delay \in Nat, NEW from \in Origins
    PROVE  Create(tk, slot, run, arg, delay, from) \in TaskTable
  BY DEF Create, TaskTable, TaskType, Origins

\* So does gTask.Remove.
LEMMA RemoveType ==
    ASSUME NEW tk \in TaskTable, NEW slot \in Slots
    PROVE  Remove(tk, slot) \in TaskTable
  BY DEF Remove, Idle, TaskTable, TaskType, Callbacks

\* And the second that passes.
LEMMA ElapseType ==
    ASSUME NEW tk \in TaskTable
    PROVE  Elapse(tk) \in TaskTable
  BY DEF Elapse, TaskTable, TaskType

\* The helpers that arm several timers at once.
LEMMA ArmType ==
    ASSUME NEW tk \in TaskTable, NEW p \in Phases
    PROVE  /\ ReadyLoad(tk, p) \in TaskTable
           /\ \A stop \in Callbacks : OpenVote(tk, stop, p) \in TaskTable
           /\ \A delay \in Nat : ArmNext(tk, delay, p) \in TaskTable
           /\ ChangelevelDelay(tk, p) \in TaskTable
           /\ ArmSwap(tk) \in TaskTable
           /\ StartLO3(tk, p) \in TaskTable
  <1>1. p \in Origins /\ "HALFTIME" \in Origins
    BY DEF Origins, Phases
  <1>2. {"EXEC", "VOTE", "LIST", "NEXT", "LO3R", "CMAP"} \subseteq Slots
    BY DEF Slots
  <1>3. {"Ready.List", "Vote.List", "RunState", "Changelevel", "SwapTeams", "LO3"}
            \subseteq Callbacks
    BY DEF Callbacks
  <1>4. ReadyLoad(tk, p) \in TaskTable
    BY <1>1, <1>2, <1>3, CreateType DEF ReadyLoad
  <1>5. \A stop \in Callbacks : OpenVote(tk, stop, p) \in TaskTable
    <2> TAKE stop \in Callbacks
    <2>1. VoteDelay \in Nat
      BY TimeAssumption
    <2>2. Create(tk, "VOTE", stop, 0, VoteDelay, p) \in TaskTable
      BY <1>1, <1>2, <2>1, CreateType
    <2> QED
      BY <1>1, <1>2, <1>3, <2>2, CreateType DEF OpenVote
  <1>6. \A delay \in Nat : ArmNext(tk, delay, p) \in TaskTable
    BY <1>1, <1>2, <1>3, CreateType DEF ArmNext
  <1>7. ChangelevelDelay(tk, p) \in TaskTable
    BY <1>1, <1>2, <1>3, CreateType DEF ChangelevelDelay
  <1>8. ArmSwap(tk) \in TaskTable
    BY <1>1, <1>2, <1>3, CreateType DEF ArmSwap
  <1>9. StartLO3(tk, p) \in TaskTable
    BY <1>1, <1>2, <1>3, CreateType DEF StartLO3
  <1> QED
    BY <1>4, <1>5, <1>6, <1>7, <1>8, <1>9

(* ------------------------- scores and periods -------------------------- *)

\* The periods, sides and rosters have the types the counters range over.
ScoreType ==
    /\ round \in [Live -> Nat]
    /\ score \in [Live -> [Team -> Nat]]
    /\ credit \in [Live -> [Roster -> Nat]]

\* Clearing a period leaves counters, and rounds that are scores.
LEMMA ClearPeriodSound ==
    ASSUME ScoreType, rosterT \in Roster, NEW p \in Live, NEW t \in Roster, ClearPeriod(p, t)
    PROVE  ScoreType' /\ rosterT' \in Roster /\ (RoundsAreScores => RoundsAreScores')
  <1>1. NoRounds \in [Live -> Nat] /\ NoScore \in [Live -> [Team -> Nat]]
        /\ NoCredit \in [Live -> [Roster -> Nat]]
    BY DEF NoRounds, NoScore, NoCredit
  <1>2. ScoreType' /\ rosterT' \in Roster
    BY <1>1 DEF ClearPeriod, Cleared, ScoreType, Roster
  <1>3. ASSUME RoundsAreScores PROVE RoundsAreScores'
    BY <1>3 DEF RoundsAreScores, ScoreType, ClearPeriod, Cleared, NoRounds, NoScore, Team
  <1> QED
    BY <1>2, <1>3

\* The other parts of the type invariant, by what the operators write together.
FlowType == state \in Phases /\ task \in TaskTable /\ ready \in BOOLEAN
RestartType == game \in {"freeze", "play", "over", "reset"} /\ gameIn \in Nat
GameType == RestartType /\ ended \in BOOLEAN /\ endless \in BOOLEAN
ChoiceType == knife \in BOOLEAN /\ picking \in BOOLEAN /\ inGame \in 0..PlayersMax
VoteType == voteMap \in BOOLEAN /\ voteTeam \in -1..5

AllTypes ==
    /\ ScoreType /\ FlowType /\ GameType /\ ChoiceType /\ VoteType
    /\ rosterT \in Roster

LEMMA TypeParts == TypeOK <=> AllTypes
  BY DEF AllTypes, TypeOK, ScoreType, FlowType, RestartType, GameType, ChoiceType, VoteType,
         TaskTable

(* ------------------------------ SetState ------------------------------- *)

LEMMA EnterWarmupType ==
    ASSUME NEW tk \in TaskTable, EnterWarmup(tk)
    PROVE  FlowType' /\ RestartType' /\ endless' \in BOOLEAN
  BY ArmType DEF EnterWarmup, SvRestart, FlowType, RestartType, Phases

LEMMA EnterHalftimeType ==
    ASSUME NEW tk \in TaskTable, NEW rdy \in BOOLEAN, EnterHalftime(tk, rdy)
    PROVE  FlowType' /\ endless' \in BOOLEAN
  <1>1. "HALFTIME" \in Phases
    BY DEF Phases
  <1>2. ArmSwap(tk) \in TaskTable
    BY <1>1, ArmType
  <1>3. ArmNext(ArmSwap(tk), 7, "HALFTIME") \in TaskTable
        /\ ReadyLoad(ArmSwap(tk), "HALFTIME") \in TaskTable
    BY <1>1, <1>2, ArmType
  <1> QED
    BY <1>1, <1>3 DEF EnterHalftime, FlowType

LEMMA EnterPeriodType ==
    ASSUME RestartType, NEW p \in Live, NEW tk \in TaskTable, EnterPeriod(p, tk)
    PROVE  FlowType' /\ RestartType' /\ endless' \in BOOLEAN
  <1>1. p \in Phases /\ "LIST" \in Slots
    BY DEF Phases, Slots
  <1>2. Remove(tk, "LIST") \in TaskTable
    BY <1>1, RemoveType
  <1>3. CASE /\ state' = p /\ ready' = FALSE /\ task' = StartLO3(Remove(tk, "LIST"), p)
             /\ SvRestart(1) /\ endless' = FALSE
    BY <1>1, <1>2, <1>3, ArmType DEF FlowType, RestartType, SvRestart
  <1>4. CASE EnterWarmup(Remove(tk, "LIST"))
    BY <1>2, <1>4, EnterWarmupType
  <1>5. CASE EnterHalftime(Remove(tk, "LIST"), FALSE) /\ UNCHANGED <<game, gameIn>>
    BY <1>2, <1>5, EnterHalftimeType DEF RestartType
  <1> QED
    BY <1>3, <1>4, <1>5 DEF EnterPeriod

LEMMA EnterEndType ==
    ASSUME GameType, VoteType, NEW tk \in TaskTable, NEW rdy \in BOOLEAN, EnterEnd(tk, rdy)
    PROVE  FlowType' /\ GameType' /\ VoteType'
  <1>1. "END" \in Phases
    BY DEF Phases
  <1> QED
    BY <1>1, ArmType DEF EnterEnd, FlowType, GameType, RestartType, VoteType, gameVars

LEMMA CaptainStopType ==
    ASSUME knife \in BOOLEAN, NEW tk \in TaskTable, NEW p \in Phases, CaptainStop(tk, p)
    PROVE  picking' \in BOOLEAN /\ knife' \in BOOLEAN /\ task' \in TaskTable
  <1>1. Remove(tk, "LIST") \in TaskTable
    BY RemoveType DEF Slots
  <1> QED
    BY <1>1, ArmType, SwitchAssumption DEF CaptainStop

LEMMA SetModeType ==
    ASSUME GameType, ChoiceType, rosterT \in Roster,
           NEW mode \in 0..5, NEW tk \in TaskTable, NEW p \in Phases, SetMode(mode, tk, p)
    PROVE  task' \in TaskTable /\ GameType' /\ ChoiceType' /\ rosterT' \in Roster
  <1>1. CASE mode = 0 /\ inGame > CaptainQuorum
    <2>1. Create(tk, "LIST", "Captain.List", 0, 0, p) \in TaskTable
      BY CreateType DEF Slots, Callbacks, Origins
    <2>2. 2 \in 0..PlayersMax
      BY PlayersAssumption
    <2>3. /\ picking' = TRUE /\ inGame' = 2 /\ rosterT' \in Roster
          /\ task' = Create(tk, "LIST", "Captain.List", 0, 0, p)
          /\ UNCHANGED <<knife, gameVars>>
      BY <1>1 DEF SetMode
    <2> QED
      BY <2>1, <2>2, <2>3 DEF GameType, RestartType, ChoiceType, gameVars
  <1>2. CASE mode = 0 /\ ~(inGame > CaptainQuorum)
    <2>1. CaptainStop(tk, p) /\ UNCHANGED <<inGame, rosterT, gameVars>>
      BY <1>2 DEF SetMode
    <2> QED
      BY <2>1, CaptainStopType DEF ChoiceType, GameType, RestartType, gameVars
  <1>3. CASE mode \in 1..5
    <2>1. task' = ArmNext(tk, 3, p) /\ knife' = (knife \/ mode = 5 \/ KnifeRoundPlay)
          /\ UNCHANGED <<endless, picking, inGame>>
      BY <1>3 DEF SetMode
    <2>2. rosterT' \in Roster
      BY <1>3 DEF SetMode, Roster, Other
    <2>3. RestartType' /\ ended' \in BOOLEAN
      <3>1. \/ game' = "freeze" /\ gameIn' = FreezeTime /\ ended' = FALSE
            \/ UNCHANGED <<game, gameIn, ended>>
        BY <1>3 DEF SetMode
      <3>2. FreezeTime \in Nat
        BY TimeAssumption
      <3> QED
        BY <3>1, <3>2 DEF GameType, RestartType
    <2>4. knife' \in BOOLEAN
      BY <2>1
    <2> QED
      BY <2>1, <2>2, <2>3, <2>4, ArmType DEF GameType, ChoiceType
  <1> QED
    BY <1>1, <1>2, <1>3

LEMMA EnterStartType ==
    ASSUME GameType, ChoiceType, rosterT \in Roster, NEW tk \in TaskTable,
           NEW vm \in BOOLEAN, NEW vt \in -1..5, EnterStart(tk, vm, vt)
    PROVE  FlowType' /\ GameType' /\ ChoiceType' /\ VoteType' /\ rosterT' \in Roster
  <1> DEFINE quiet == Remove(tk, "LIST")
             mapFirst == vm /\ VoteMapType # 0
  <1>1. "START" \in Phases /\ {"VoteMap.Stop", "VoteTeam.Stop"} \subseteq Callbacks
    BY DEF Phases, Callbacks
  <1>2. quiet \in TaskTable
    BY RemoveType DEF Slots
  <1>3. state' \in Phases /\ ready' \in BOOLEAN /\ VoteType'
    BY <1>1 DEF EnterStart, VoteType
  <1>4. CASE ~mapFirst /\ vt # -1
    <2>1. SetMode(vt, quiet, "START") /\ vt \in 0..5
      BY <1>4 DEF EnterStart
    <2> HIDE DEF quiet
    <2> QED
      BY <1>1, <1>2, <1>3, <2>1, SetModeType DEF FlowType
  <1>5. CASE mapFirst \/ vt = -1
    <2>1. UNCHANGED <<knife, picking, inGame, rosterT, gameVars>>
          /\ \/ task' = OpenVote(quiet, "VoteMap.Stop", "START")
             \/ task' = ChangelevelDelay(quiet, "START")
             \/ task' = OpenVote(quiet, "VoteTeam.Stop", "START")
      BY <1>5 DEF EnterStart
    <2>2. task' \in TaskTable
      <3> HIDE DEF quiet
      <3> QED
        BY <1>1, <1>2, <2>1, ArmType
    <2> QED
      BY <1>3, <2>1, <2>2 DEF FlowType, GameType, RestartType, ChoiceType, gameVars
  <1> QED
    BY <1>4, <1>5

(* ------------------------------ RunState ------------------------------- *)

\* Whatever the phase that follows: types are kept, and if rounds are scores so are
\* they afterwards.
LEMMA RunStateSound ==
    ASSUME AllTypes, NEW tk \in TaskTable, NEW rdy \in BOOLEAN, RunState(tk, rdy)
    PROVE  AllTypes' /\ (RoundsAreScores => RoundsAreScores')
  <1> USE DEF AllTypes
  <1>1. CASE /\ EnterWarmup(tk)
             /\ UNCHANGED <<scoreVars, rosterT, setupVars, ended>>
    BY <1>1, EnterWarmupType
       DEF ScoreType, GameType, ChoiceType, VoteType, scoreVars, setupVars, RoundsAreScores
  <1>2. CASE EnterStart(tk, voteMap, voteTeam) /\ UNCHANGED scoreVars
    <2>1. voteMap \in BOOLEAN /\ voteTeam \in -1..5
      BY DEF VoteType
    <2> QED
      BY <1>2, <2>1, EnterStartType DEF ScoreType, scoreVars, RoundsAreScores
  <1>3. CASE /\ ClearPeriod("FIRST_HALF", rosterT)
             /\ EnterPeriod("FIRST_HALF", tk)
             /\ UNCHANGED <<setupVars, ended>>
    <2>1. "FIRST_HALF" \in Live
      BY DEF Live
    <2> QED
      BY <1>3, <2>1, ClearPeriodSound, EnterPeriodType
         DEF GameType, ChoiceType, VoteType, setupVars
  <1>4. CASE /\ EnterHalftime(tk, rdy)
             /\ UNCHANGED <<scoreVars, rosterT, game, gameIn, ended, setupVars>>
    BY <1>4, EnterHalftimeType
       DEF ScoreType, GameType, RestartType, ChoiceType, VoteType, scoreVars, setupVars,
           RoundsAreScores
  <1>5. CASE /\ NextPhase \in {"SECOND_HALF", "OVERTIME"}
             /\ EnterPeriod(NextPhase, tk)
             /\ UNCHANGED <<scoreVars, rosterT, setupVars, ended>>
    <2>1. NextPhase \in Live
      BY <1>5 DEF Live
    <2> QED
      BY <1>5, <2>1, EnterPeriodType
         DEF ScoreType, GameType, ChoiceType, VoteType, scoreVars, setupVars, RoundsAreScores
  <1>6. CASE /\ EnterEnd(tk, rdy)
             /\ UNCHANGED <<scoreVars, rosterT, knife, picking, inGame>>
    BY <1>6, EnterEndType DEF ScoreType, ChoiceType, scoreVars, RoundsAreScores
  <1> QED
    BY <1>1, <1>2, <1>3, <1>4, <1>5, <1>6 DEF RunState

(* ------------------------------- actions ------------------------------- *)

\* The inductive invariant: types, and rounds that are scores.
MatchInv == AllTypes /\ RoundsAreScores

LEMMA SlotNames == {"EXEC", "VOTE", "LIST", "NEXT", "LO3R", "CMAP"} \subseteq Slots
  BY DEF Slots

\* The timers after the removals the actions make.
LEMMA ClosedType ==
    ASSUME task \in TaskTable
    PROVE  /\ \A slot \in Slots : Remove(task, slot) \in TaskTable
           /\ VoteClosed \in TaskTable
           /\ VoteAndListClosed \in TaskTable
  BY RemoveType, SlotNames DEF VoteClosed, VoteAndListClosed

\* A map starts.
LEMMA BootSound ==
    /\ BootPhase \in Phases
    /\ BootTasks \in TaskTable
    /\ VoteTeamType \in -1..5
  <1>1. NoTasks \in TaskTable
    BY DEF NoTasks, Idle, TaskTable, TaskType, Callbacks
  <1>2. BootPhase \in Phases /\ {"WARMUP", "DEAD"} \subseteq Phases
    BY DEF BootPhase, Phases
  <1>3. BootTasks \in TaskTable
    BY <1>1, <1>2, ArmType, TimeAssumption DEF BootTasks
  <1> QED
    BY <1>2, <1>3, VoteAssumption

LEMMA InitSound == Init => MatchInv
  <1> SUFFICES ASSUME Init PROVE MatchInv
    OBVIOUS
  <1>1. ScoreType /\ rosterT \in Roster
    BY DEF Init, ScoreType, NoRounds, NoScore, NoCredit, Roster
  <1>2. FlowType
    BY BootSound DEF Init, FlowType
  <1>3. GameType
    BY DEF Init, GameType, RestartType
  <1>4. ChoiceType
    <2>1. inGame \in 0..PlayersMax
      BY PlayersAssumption DEF Init
    <2> QED
      BY <2>1 DEF Init, ChoiceType
  <1>5. VoteType
    BY BootSound DEF Init, VoteType
  <1>6. RoundsAreScores
    BY DEF Init, RoundsAreScores, NoRounds, NoScore, Team
  <1> QED
    BY <1>1, <1>2, <1>3, <1>4, <1>5, <1>6 DEF MatchInv, AllTypes

LEMMA MapChangeSound == ASSUME MatchInv, MapChange PROVE MatchInv'
  <1>1. ScoreType' /\ rosterT' \in Roster /\ RoundsAreScores'
    BY DEF MatchInv, AllTypes, MapChange, ScoreType, scoreVars, RoundsAreScores
  <1>2. FlowType' /\ VoteType'
    <2>1. state' \in Phases /\ task' \in TaskTable /\ voteTeam' \in -1..5
      BY BootSound DEF MapChange
    <2>2. ready' \in BOOLEAN /\ voteMap' \in BOOLEAN
      BY DEF MapChange
    <2> QED
      BY <2>1, <2>2 DEF FlowType, VoteType
  <1>3. GameType'
    <2>1. game' = "play" /\ gameIn' = 0
      BY DEF MapChange
    <2>2. ended' \in BOOLEAN /\ endless' \in BOOLEAN
      BY DEF MapChange
    <2> QED
      BY <2>1, <2>2 DEF GameType, RestartType
  <1>4. ChoiceType'
    <2>1. inGame' \in 0..PlayersMax
      BY PlayersAssumption DEF MapChange
    <2> QED
      BY <2>1 DEF MatchInv, AllTypes, MapChange, ChoiceType
  <1> QED
    BY <1>1, <1>2, <1>3, <1>4 DEF MatchInv, AllTypes

\* The engine moves on to the next round, and the clock ticks.
LEMMA EngineSound == ASSUME MatchInv, EngineStep \/ Tick PROVE MatchInv'
  <1> USE DEF MatchInv, AllTypes
  <1>1. CASE RoundRestart
    <2>1. FreezeTime \in Nat
      BY TimeAssumption
    <2> QED
      BY <1>1, <2>1 DEF RoundRestart, ScoreType, FlowType, GameType, RestartType, ChoiceType,
                        VoteType, RoundsAreScores, scoreVars, setupVars
  <1>2. CASE FreezeEnd
    BY <1>2 DEF FreezeEnd, ScoreType, FlowType, GameType, RestartType, ChoiceType,
                VoteType, RoundsAreScores, scoreVars, setupVars
  <1>3. CASE Tick
    <2>1. task' \in TaskTable
      BY <1>3, ElapseType DEF Tick, FlowType
    <2>2. gameIn' \in Nat
      BY <1>3 DEF Tick, GameType, RestartType
    <2> QED
      BY <1>3, <2>1, <2>2
         DEF Tick, ScoreType, FlowType, GameType, RestartType, ChoiceType, VoteType,
             RoundsAreScores, scoreVars, setupVars
  <1> QED
    BY <1>1, <1>2, <1>3 DEF EngineStep

\* Every round of rd belongs to one of the sides of sc.
Counted(rd, sc) == \A p \in Live : rd[p] = sc[p]["T"] + sc[p]["CT"]

\* RoundEnd adds the round and the point together, or neither.
LEMMA WithRoundSound ==
    ASSUME NEW rd \in [Live -> Nat], NEW sc \in [Live -> [Team -> Nat]],
           NEW cr \in [Live -> [Roster -> Nat]], NEW p \in Live, NEW win, NEW r \in Roster
    PROVE  /\ WithRound(win, rd, p) \in [Live -> Nat]
           /\ WithPoint(win, sc, p, win) \in [Live -> [Team -> Nat]]
           /\ WithPoint(win, cr, p, r) \in [Live -> [Roster -> Nat]]
           /\ Counted(rd, sc) => Counted(WithRound(win, rd, p), WithPoint(win, sc, p, win))
  <1>1. CASE Wins(win)
    <2>1. win \in Team
      BY <1>1 DEF Wins
    <2>2. WithRound(win, rd, p) = [rd EXCEPT ![p] = @ + 1]
          /\ WithPoint(win, sc, p, win) = [sc EXCEPT ![p][win] = @ + 1]
          /\ WithPoint(win, cr, p, r) = [cr EXCEPT ![p][r] = @ + 1]
      BY <1>1 DEF WithRound, WithPoint
    <2>3. Counted(rd, sc) =>
              Counted([rd EXCEPT ![p] = @ + 1], [sc EXCEPT ![p][win] = @ + 1])
      BY <2>1 DEF Counted, Team
    <2> QED
      BY <2>1, <2>2, <2>3
  <1>2. CASE ~Wins(win)
    BY <1>2 DEF WithRound, WithPoint
  <1> QED
    BY <1>1, <1>2

\* Clearing a period, as an operator on the counters.
LEMMA ClearedSound ==
    ASSUME ScoreType, NEW p \in Live
    PROVE  /\ Cleared(round, NoRounds, p) \in [Live -> Nat]
           /\ Cleared(score, NoScore, p) \in [Live -> [Team -> Nat]]
           /\ Cleared(credit, NoCredit, p) \in [Live -> [Roster -> Nat]]
           /\ RoundsAreScores => Counted(Cleared(round, NoRounds, p), Cleared(score, NoScore, p))
  <1>1. NoRounds \in [Live -> Nat] /\ NoScore \in [Live -> [Team -> Nat]]
        /\ NoCredit \in [Live -> [Roster -> Nat]]
    BY DEF NoRounds, NoScore, NoCredit
  <1> QED
    BY <1>1 DEF Cleared, ScoreType, Counted, RoundsAreScores, NoRounds, NoScore, Team

LEMMA AfterRoundType ==
    ASSUME NEW tk \in TaskTable, NEW p \in Live, NEW rd, NEW sc
    PROVE  AfterRound(p, rd, sc, tk) \in TaskTable
  <1>1. p \in Phases /\ "VoteOvertime.Stop" \in Callbacks /\ RoundDelay \in Nat
    BY TimeAssumption DEF Phases, Callbacks
  <1> QED
    BY <1>1, ArmType DEF AfterRound

LEMMA TerminateType ==
    ASSUME GameType, NEW delay \in Nat, Terminate(delay)
    PROVE  RestartType' /\ ended' \in BOOLEAN
  BY DEF Terminate, GameType, RestartType

LEMMA PlayingType ==
    ASSUME NEW team, NEW t \in Roster
    PROVE  Playing(team, t) \in Roster
  BY DEF Playing, Other, Roster

LEMMA RoundEndSound ==
    ASSUME MatchInv, NEW win, RoundEnd(win)
    PROVE  MatchInv'
  <1> USE DEF MatchInv, AllTypes
  <1> DEFINE tk == IF knife THEN OpenVote(task, "Knife.VoteEnd", state) ELSE task
             rd == WithRound(win, round, state)
             sc == WithPoint(win, score, state, win)
  <1>1. tk \in TaskTable
    BY ArmType DEF FlowType, Callbacks
  <1>2. RestartType' /\ ended' \in BOOLEAN
    <2>1. VoteDelay \in Nat /\ RoundDelay \in Nat
      BY TimeAssumption
    <2>2. \E delay \in Nat : Terminate(delay)
      BY <2>1 DEF RoundEnd
    <2> QED
      BY <2>2, TerminateType
  <1>3. CASE state \in Live
    <2>1. /\ round' = rd /\ score' = sc
          /\ credit' = WithPoint(win, credit, state, Playing(win, rosterT))
          /\ task' = AfterRound(state, rd, sc, tk)
      BY <1>3 DEF RoundEnd
    <2>2. task' \in TaskTable
      <3> HIDE DEF tk, rd, sc
      <3> QED
        BY <1>1, <1>3, <2>1, AfterRoundType
    <2>3. ScoreType' /\ RoundsAreScores'
      <3>1. Counted(round, score) /\ Playing(win, rosterT) \in Roster
        BY PlayingType DEF Counted, RoundsAreScores
      <3>2. Counted(rd, sc)
        BY <1>3, <3>1, WithRoundSound DEF ScoreType
      <3>3. ScoreType'
        BY <1>3, <2>1, <3>1, WithRoundSound DEF ScoreType
      <3>4. RoundsAreScores'
        BY <2>1, <3>2 DEF Counted, RoundsAreScores
      <3> QED
        BY <3>3, <3>4
    <2> QED
      BY <1>2, <2>2, <2>3
         DEF RoundEnd, FlowType, GameType, ChoiceType, VoteType, setupVars
  <1>4. CASE state \notin Live
    <2>1. task' = tk /\ UNCHANGED scoreVars
      BY <1>4 DEF RoundEnd
    <2> QED
      BY <1>1, <1>2, <2>1
         DEF RoundEnd, ScoreType, FlowType, GameType, ChoiceType, VoteType, RoundsAreScores,
             scoreVars, setupVars
  <1> QED
    BY <1>3, <1>4

LEMMA KnifeRoundFailedSound ==
    ASSUME MatchInv, NEW win, KnifeRoundFailed(win)
    PROVE  MatchInv'
  <1> USE DEF MatchInv, AllTypes
  <1> DEFINE quiet == Remove(task, "LIST")
             rd == WithRound(win, Cleared(round, NoRounds, state), state)
             sc == WithPoint(win, Cleared(score, NoScore, state), state, win)
             t == IF state = "FIRST_HALF" THEN "A" ELSE rosterT
             cr == WithPoint(win, Cleared(credit, NoCredit, state), state, Playing(win, t))
  <1>1. ChoiceType' /\ VoteType'
    <2>1. knife' \in BOOLEAN
      BY SwitchAssumption DEF KnifeRoundFailed
    <2> QED
      BY <2>1 DEF KnifeRoundFailed, ChoiceType, VoteType
  <1>2. ended' \in BOOLEAN
    BY DEF KnifeRoundFailed
  <1>3. quiet \in TaskTable
    BY RemoveType, SlotNames DEF FlowType
  <1>4. RoundDelay \in Nat
    BY TimeAssumption
  <1>5. CASE /\ state \notin Live
             /\ Terminate(RoundDelay)
             /\ UNCHANGED <<state, task, ready, scoreVars, rosterT, endless>>
    BY <1>1, <1>2, <1>4, <1>5, TerminateType
       DEF ScoreType, FlowType, GameType, RoundsAreScores, scoreVars
  <1>6. CASE /\ state \in Live
             /\ round' = rd /\ score' = sc /\ credit' = cr /\ rosterT' = t
             /\ task' = AfterRound(state, rd, sc, StartLO3(quiet, state))
             /\ ready' = FALSE
             /\ SvRestart(1)
             /\ UNCHANGED <<state, endless>>
    <2>1. t \in Roster /\ Playing(win, t) \in Roster
      <3>1. t \in Roster
        BY DEF Roster
      <3> QED
        BY <3>1, PlayingType
    <2>2. task' \in TaskTable
      <3>1. StartLO3(quiet, state) \in TaskTable
        BY <1>3, ArmType DEF FlowType
      <3> HIDE DEF quiet, rd, sc
      <3> QED
        BY <1>6, <3>1, AfterRoundType
    <2>3. ScoreType'
      BY <1>6, <2>1, ClearedSound, WithRoundSound DEF ScoreType
    <2>4. Counted(rd, sc)
      BY <1>6, ClearedSound, WithRoundSound, <2>1
    <2>5. RoundsAreScores'
      BY <1>6, <2>4 DEF Counted, RoundsAreScores
    <2>6. RestartType'
      BY <1>6 DEF SvRestart, RestartType
    <2> QED
      BY <1>1, <1>2, <1>6, <2>1, <2>2, <2>3, <2>5, <2>6 DEF FlowType, GameType
  <1>7. CASE state \in Live /\ ClearPeriod(state, rosterT) /\ EnterWarmup(quiet)
    BY <1>1, <1>2, <1>3, <1>7, ClearPeriodSound, EnterWarmupType DEF GameType
  <1>8. CASE /\ state \in Live /\ ClearPeriod(state, rosterT)
             /\ EnterHalftime(quiet, FALSE) /\ Terminate(RoundDelay)
    BY <1>1, <1>2, <1>3, <1>4, <1>8, ClearPeriodSound, EnterHalftimeType, TerminateType
       DEF GameType
  <1> QED
    BY <1>5, <1>6, <1>7, <1>8 DEF KnifeRoundFailed, Live

\* Timer callbacks.
LEMMA RunStateCallersSound ==
    ASSUME MatchInv, ReadyDone \/ NextDue
    PROVE  MatchInv'
  <1>1. Remove(task, "LIST") \in TaskTable /\ Remove(task, "NEXT") \in TaskTable
    BY RemoveType, SlotNames DEF MatchInv, AllTypes, FlowType
  <1>2. \E tk \in TaskTable, rdy \in BOOLEAN : RunState(tk, rdy)
    BY <1>1 DEF ReadyDone, NextDue, MatchInv, AllTypes, FlowType
  <1> QED
    BY <1>2, RunStateSound DEF MatchInv

LEMMA VoteMapFailSound == ASSUME MatchInv, VoteMapFail PROVE MatchInv'
  <1> DEFINE tk == Remove(task, "NEXT")
  <1>1. tk \in TaskTable
    BY RemoveType, SlotNames DEF MatchInv, AllTypes, FlowType
  <1>2. CASE RunState(tk, ready)
    <2> HIDE DEF tk
    <2> QED
      BY <1>1, <1>2, RunStateSound DEF MatchInv, AllTypes, FlowType
  <1>3. CASE /\ task' = IF VoteMapFailType = 1 THEN OpenVote(tk, "VoteMap.Stop", state)
                        ELSE ChangelevelDelay(tk, state)
             /\ UNCHANGED <<state, ready, scoreVars, gameVars, rosterT, setupVars>>
    <2>1. task' \in TaskTable
      <3>1. "VoteMap.Stop" \in Callbacks /\ state \in Phases
        BY DEF Callbacks, MatchInv, AllTypes, FlowType
      <3> HIDE DEF tk
      <3> QED
        BY <1>1, <1>3, <3>1, ArmType
    <2> QED
      BY <1>3, <2>1
         DEF MatchInv, AllTypes, ScoreType, FlowType, GameType, RestartType, ChoiceType,
             VoteType, RoundsAreScores, scoreVars, gameVars, setupVars
  <1> QED
    BY <1>2, <1>3 DEF VoteMapFail

\* Going live clears the round and the points of the period together.
LEMMA LO3Sound == ASSUME MatchInv, LO3 PROVE MatchInv'
  <1> USE DEF MatchInv, AllTypes
  <1> DEFINE tk == Remove(task, "LO3R")
             n == task["LO3R"].arg
  <1>1. tk \in TaskTable /\ n \in 0..4 /\ state \in Origins
    BY RemoveType, SlotNames DEF FlowType, TaskTable, TaskType, Origins
  <1>2. UNCHANGED <<state, ready, rosterT, setupVars>>
    BY DEF LO3
  <1>3. CASE n <= 3
    <2>1. /\ SvRestart(n) /\ UNCHANGED <<ended, endless>> /\ UNCHANGED scoreVars
          /\ task' = Create(tk, "LO3R", "LO3", n + 1, n + 1, state)
      BY <1>3 DEF LO3
    <2>2. n \in Nat /\ n + 1 \in 0..4 /\ n + 1 \in Nat /\ "LO3" \in Callbacks
      BY <1>1, <1>3 DEF Callbacks
    <2>3. task' \in TaskTable
      <3> HIDE DEF tk, n
      <3> QED
        BY <1>1, <2>1, <2>2, CreateType, SlotNames
    <2>4. RestartType'
      BY <2>1, <2>2 DEF SvRestart, RestartType
    <2> QED
      BY <1>2, <2>1, <2>3, <2>4
         DEF ScoreType, FlowType, GameType, ChoiceType, VoteType, RoundsAreScores,
             scoreVars, setupVars
  <1>4. CASE n > 3
    <2>1. task' = tk /\ UNCHANGED gameVars
          /\ \/ /\ state \in Live
                /\ round' = [round EXCEPT ![state] = 0]
                /\ score' = [score EXCEPT ![state] = NoScore[state]]
                /\ credit' = [credit EXCEPT ![state] = NoCredit[state]]
             \/ UNCHANGED scoreVars
      BY <1>1, <1>4 DEF LO3
    <2>2. ScoreType' /\ RoundsAreScores'
      <3>1. CASE UNCHANGED scoreVars
        BY <3>1 DEF ScoreType, RoundsAreScores, scoreVars
      <3>2. CASE /\ state \in Live
                 /\ round' = [round EXCEPT ![state] = 0]
                 /\ score' = [score EXCEPT ![state] = NoScore[state]]
                 /\ credit' = [credit EXCEPT ![state] = NoCredit[state]]
        <4>1. NoScore[state] \in [Team -> Nat] /\ NoCredit[state] \in [Roster -> Nat]
              /\ NoScore[state]["T"] = 0 /\ NoScore[state]["CT"] = 0
          BY <3>2 DEF NoScore, NoCredit, Team
        <4>2. ScoreType'
          BY <3>2, <4>1 DEF ScoreType
        <4>3. RoundsAreScores'
          BY <3>2, <4>1 DEF ScoreType, RoundsAreScores
        <4> QED
          BY <4>2, <4>3
      <3> QED
        BY <2>1, <3>1, <3>2
    <2> QED
      BY <1>1, <1>2, <2>1, <2>2
         DEF FlowType, GameType, RestartType, ChoiceType, VoteType, gameVars, setupVars
  <1> QED
    BY <1>1, <1>3, <1>4

\* The sides exchange their points, so the rounds are still their sum.
LEMMA SwapTeamsSound == ASSUME MatchInv, SwapTeams PROVE MatchInv'
  <1> USE DEF MatchInv, AllTypes
  <1>1. task' \in TaskTable
    BY RemoveType, SlotNames DEF SwapTeams, FlowType
  <1>2. ScoreType' /\ RoundsAreScores' /\ rosterT' \in Roster
    <2>1. CASE StayPut
      BY <2>1 DEF SwapTeams, ScoreType, RoundsAreScores
    <2>2. CASE ~StayPut
      <3>1. score' = SwapScores(score) /\ rosterT' = Other(rosterT) /\ UNCHANGED <<round, credit>>
        BY <2>2 DEF SwapTeams
      <3>2. SwapScores(score) \in [Live -> [Team -> Nat]]
        BY DEF SwapScores, ScoreType, Team
      <3>3. \A p \in Live : score'[p]["T"] = score[p]["CT"] /\ score'[p]["CT"] = score[p]["T"]
        BY <3>1 DEF SwapScores, Team
      <3>4. \A p \in Live : score[p]["T"] \in Nat /\ score[p]["CT"] \in Nat
        BY DEF ScoreType, Team
      <3>5. RoundsAreScores'
        BY <3>1, <3>3, <3>4 DEF RoundsAreScores
      <3> QED
        BY <3>1, <3>2, <3>5 DEF ScoreType, Other, Roster
    <2> QED
      BY <2>1, <2>2
  <1> QED
    BY <1>1, <1>2
       DEF SwapTeams, FlowType, GameType, RestartType, ChoiceType, VoteType, gameVars, setupVars

\* Votes.
LEMMA VoteMapStopSound == ASSUME MatchInv, VoteMapStop PROVE MatchInv'
  <1> USE DEF MatchInv, AllTypes
  <1>1. VoteClosed \in TaskTable /\ VoteAndListClosed \in TaskTable
        /\ state \in Phases /\ state \in Origins
    BY ClosedType DEF FlowType, Origins
  <1>2. task' \in TaskTable
    <2>1. CASE task' = ChangelevelDelay(VoteClosed, state)
      BY <1>1, <2>1, ArmType
    <2>2. CASE task' = Create(VoteAndListClosed, "NEXT", "VoteMap.Fail", 0, 5, state)
      <3>1. "VoteMap.Fail" \in Callbacks /\ 0 \in 0..4 /\ 5 \in Nat
        BY DEF Callbacks
      <3> QED
        BY <1>1, <2>2, <3>1, CreateType, SlotNames
    <2> QED
      BY <2>1, <2>2 DEF VoteMapStop
  <1> QED
    BY <1>2 DEF VoteMapStop, ScoreType, FlowType, GameType, RestartType, ChoiceType, VoteType,
                RoundsAreScores, scoreVars, gameVars, setupVars

LEMMA VoteTeamStopSound == ASSUME MatchInv, VoteTeamStop PROVE MatchInv'
  <1> USE DEF MatchInv, AllTypes
  <1>1. VoteAndListClosed \in TaskTable /\ state \in Phases
    BY ClosedType DEF FlowType
  <1>2. task' \in TaskTable /\ GameType' /\ ChoiceType' /\ rosterT' \in Roster
    <2>1. CASE \E mode \in TeamModes : SetMode(mode, VoteAndListClosed, state)
      BY <1>1, <2>1, SetModeType, VoteAssumption
    <2>2. CASE /\ task' = ArmNext(VoteAndListClosed, 3, state)
               /\ UNCHANGED <<knife, picking, inGame, rosterT, gameVars>>
      BY <1>1, <2>2, ArmType DEF GameType, RestartType, ChoiceType, gameVars
    <2> QED
      BY <2>1, <2>2 DEF VoteTeamStop
  <1> QED
    BY <1>2 DEF VoteTeamStop, ScoreType, FlowType, VoteType, RoundsAreScores, scoreVars, voteVars

LEMMA VoteOvertimeStopSound == ASSUME MatchInv, VoteOvertimeStop PROVE MatchInv'
  <1> USE DEF MatchInv, AllTypes
  <1>1. VoteAndListClosed \in TaskTable /\ "OVERTIME" \in Live
    BY ClosedType DEF FlowType, Live
  <1>2. FlowType' /\ GameType' /\ VoteType'
    <2>1. CASE EnterPeriod("OVERTIME", VoteAndListClosed) /\ UNCHANGED <<ended, voteVars>>
      BY <1>1, <2>1, EnterPeriodType DEF GameType, VoteType, voteVars
    <2>2. CASE EnterEnd(VoteAndListClosed, ready)
      BY <1>1, <2>2, EnterEndType DEF FlowType
    <2>3. CASE task' = VoteAndListClosed /\ UNCHANGED <<state, ready, gameVars, voteVars>>
      BY <1>1, <2>3 DEF FlowType, GameType, RestartType, VoteType, gameVars, voteVars
    <2> QED
      BY <2>1, <2>2, <2>3 DEF VoteOvertimeStop
  <1> QED
    BY <1>2 DEF VoteOvertimeStop, ScoreType, ChoiceType, RoundsAreScores, scoreVars

LEMMA KnifeVoteEndSound == ASSUME MatchInv, KnifeVoteEnd PROVE MatchInv'
  <1> USE DEF MatchInv, AllTypes
  <1>1. VoteAndListClosed \in TaskTable
    BY ClosedType DEF FlowType
  <1>2. ChoiceType' /\ VoteType'
    BY DEF KnifeVoteEnd, ChoiceType, VoteType, voteVars
  <1>3. PICK t \in {rosterT, Other(rosterT)} :
          IF state \in Live
          THEN ClearPeriod(state, t) /\ EnterPeriod(state, VoteAndListClosed) /\ UNCHANGED ended
          ELSE /\ rosterT' = t
               /\ task' = VoteAndListClosed
               /\ UNCHANGED <<state, ready, scoreVars, gameVars>>
    BY DEF KnifeVoteEnd
  <1>4. t \in Roster
    BY DEF Roster, Other
  <1>5. CASE state \in Live
    BY <1>1, <1>2, <1>3, <1>4, <1>5, ClearPeriodSound, EnterPeriodType DEF GameType
  <1>6. CASE state \notin Live
    BY <1>1, <1>2, <1>3, <1>4, <1>6
       DEF ScoreType, FlowType, GameType, RestartType, RoundsAreScores, scoreVars, gameVars
  <1> QED
    BY <1>5, <1>6

\* Players who join, leave and pick.
LEMMA PlayerSound == ASSUME MatchInv, Player PROVE MatchInv'
  <1> USE DEF MatchInv, AllTypes
  <1>0. inGame \in 0..PlayersMax /\ PlayersMax \in Nat
    BY PlayersAssumption DEF ChoiceType
  <1>1. CASE Join
    <2>1. inGame' \in 0..PlayersMax
      BY <1>0, <1>1 DEF Join
    <2> QED
      BY <1>1, <2>1
         DEF Join, ScoreType, FlowType, GameType, RestartType, ChoiceType, VoteType,
             RoundsAreScores, scoreVars, gameVars, voteVars
  <1>2. ASSUME NEW inTeam \in BOOLEAN, NEW captain \in BOOLEAN, Disconnect(inTeam, captain)
        PROVE  MatchInv'
    <2> DEFINE tk == IF captain THEN ArmNext(Remove(task, "LIST"), 3, state) ELSE task
    <2>1. tk \in TaskTable
      <3>1. Remove(task, "LIST") \in TaskTable /\ state \in Phases
        BY RemoveType, SlotNames DEF FlowType
      <3> QED
        BY <3>1, ArmType DEF FlowType
    <2>2. inGame' \in 0..PlayersMax
      BY <1>0, <1>2 DEF Disconnect
    <2>3. ChoiceType'
      <3>1. picking' \in BOOLEAN /\ knife' \in BOOLEAN
        BY <1>2 DEF Disconnect
      <3> QED
        BY <2>2, <3>1 DEF ChoiceType
    <2>4. \/ EnterEnd(tk, ready)
          \/ task' = tk /\ UNCHANGED <<state, ready, gameVars, voteVars>>
      BY <1>2 DEF Disconnect
    <2>5. FlowType' /\ GameType' /\ VoteType'
      <3>1. CASE EnterEnd(tk, ready)
        <4> HIDE DEF tk
        <4> QED
          BY <2>1, <3>1, EnterEndType DEF FlowType
      <3>2. CASE task' = tk /\ UNCHANGED <<state, ready, gameVars, voteVars>>
        BY <2>1, <3>2 DEF FlowType, GameType, RestartType, VoteType, gameVars, voteVars
      <3> QED
        BY <2>4, <3>1, <3>2
    <2> QED
      BY <1>2, <2>3, <2>5 DEF Disconnect, ScoreType, RoundsAreScores, scoreVars
  <1>3. ASSUME NEW last \in BOOLEAN, CaptainPick(last)
        PROVE  MatchInv'
    <2>1. inGame' \in 0..PlayersMax
      BY <1>0, <1>3 DEF CaptainPick
    <2>2. \/ CaptainStop(task, state)
          \/ UNCHANGED <<picking, knife, task>>
      BY <1>3 DEF CaptainPick
    <2>3. picking' \in BOOLEAN /\ knife' \in BOOLEAN /\ task' \in TaskTable
      <3>1. CASE CaptainStop(task, state)
        BY <3>1, CaptainStopType DEF FlowType, ChoiceType
      <3>2. CASE UNCHANGED <<picking, knife, task>>
        BY <3>2 DEF FlowType, ChoiceType
      <3> QED
        BY <2>2, <3>1, <3>2
    <2> QED
      BY <1>3, <2>1, <2>3
         DEF CaptainPick, ScoreType, FlowType, GameType, RestartType, ChoiceType, VoteType,
             RoundsAreScores, scoreVars, gameVars, voteVars
  <1> QED
    BY <1>1, <1>2, <1>3 DEF Player

\* A surrender declares as many points as rounds.
LEMMA EndGameSound ==
    ASSUME MatchInv, NEW winner \in Team, EndGame(winner)
    PROVE  MatchInv'
  <1> USE DEF MatchInv, AllTypes
  <1> DEFINE rounds(p) == IF p = "FIRST_HALF" THEN Half ELSE IF p = "SECOND_HALF" THEN 1 ELSE 0
  <1>1. \A p \in Live : rounds(p) \in Nat
    BY MatchAssumption DEF Half
  <1>2. ScoreType' /\ RoundsAreScores'
    <2>1. CASE MustDeclare(winner)
      <3>1. /\ round' = [p \in Live |-> rounds(p)]
            /\ score' = [p \in Live |-> [t \in Team |-> IF t = winner THEN rounds(p) ELSE 0]]
            /\ credit' = [p \in Live |-> [r \in Roster |->
                              IF r = Playing(winner, rosterT) THEN rounds(p) ELSE 0]]
        BY <2>1 DEF EndGame
      <3> HIDE DEF rounds
      <3>2. ScoreType'
        BY <1>1, <3>1 DEF ScoreType
      <3>3. RoundsAreScores'
        BY <1>1, <3>1 DEF RoundsAreScores, Team
      <3> QED
        BY <3>2, <3>3
    <2>2. CASE ~MustDeclare(winner)
      BY <2>2 DEF EndGame, ScoreType, RoundsAreScores, scoreVars
    <2> QED
      BY <2>1, <2>2
  <1>3. FlowType' /\ GameType' /\ VoteType'
    BY EnterEndType DEF EndGame, FlowType
  <1> QED
    BY <1>2, <1>3 DEF EndGame, ChoiceType

\* The requests that restart a period or leave the match.
LEMMA PhaseRequestsSound ==
    ASSUME MatchInv, StartVoteTeam \/ StopMatch \/ RestarPeriod
    PROVE  MatchInv'
  <1> USE DEF MatchInv, AllTypes
  <1>1. CASE StartVoteTeam
    <2>1. FALSE \in BOOLEAN /\ -1 \in -1..5 /\ task \in TaskTable
      BY DEF FlowType
    <2>2. EnterStart(task, FALSE, -1) /\ UNCHANGED scoreVars
      BY <1>1 DEF StartVoteTeam
    <2>3. FlowType' /\ GameType' /\ ChoiceType' /\ VoteType' /\ rosterT' \in Roster
      BY <2>1, <2>2, EnterStartType
    <2> QED
      BY <2>2, <2>3 DEF ScoreType, RoundsAreScores, scoreVars
  <1>2. CASE StopMatch
    <2>1. Remove(task, "LO3R") \in TaskTable /\ ready \in BOOLEAN
      BY RemoveType, SlotNames DEF FlowType
    <2> QED
      BY <1>2, <2>1, EnterEndType DEF StopMatch, ScoreType, ChoiceType, RoundsAreScores, scoreVars
  <1>3. CASE RestarPeriod
    BY <1>3, ClearPeriodSound, EnterPeriodType
       DEF RestarPeriod, FlowType, GameType, ChoiceType, VoteType, setupVars
  <1> QED
    BY <1>1, <1>2, <1>3

\* The requests that only arm timers.
LEMMA TimerRequestsSound ==
    ASSUME MatchInv, StartVoteMap \/ StartMatch \/ ToggleReady \/ ChangeMap
    PROVE  MatchInv'
  <1> USE DEF MatchInv, AllTypes
  <1>1. task \in TaskTable /\ state \in Phases /\ "VoteMap.Stop" \in Callbacks
    BY DEF FlowType, Callbacks
  <1>2. task' \in TaskTable
    <2>1. Remove(task, "LIST") \in TaskTable
      BY <1>1, RemoveType, SlotNames
    <2> QED
      BY <1>1, <2>1, ArmType DEF StartVoteMap, StartMatch, ToggleReady, ChangeMap
  <1>3. state' = state /\ ready' \in BOOLEAN
    <2>1. state' = state
      BY DEF StartVoteMap, StartMatch, ToggleReady, ChangeMap
    <2>2. ready' \in BOOLEAN
      BY Zenon DEF StartVoteMap, StartMatch, ToggleReady, ChangeMap, FlowType
    <2> QED
      BY <2>1, <2>2
  <1>4. UNCHANGED <<scoreVars, gameVars, rosterT, setupVars>>
    BY DEF StartVoteMap, StartMatch, ToggleReady, ChangeMap
  <1> QED
    BY <1>1, <1>2, <1>3, <1>4
       DEF ScoreType, FlowType, GameType, RestartType, ChoiceType, VoteType,
           RoundsAreScores, scoreVars, gameVars, setupVars

(* ------------------------------ theorems ------------------------------- *)

LEMMA NextSound == ASSUME MatchInv, Next PROVE MatchInv'
  <1>1. CASE EngineStep \/ Tick
    BY <1>1, EngineSound
  <1>2. CASE RoundOver
    BY <1>2, RoundEndSound, KnifeRoundFailedSound DEF RoundOver
  <1>3. CASE Callback \/ ReadyDone
    BY <1>3, RunStateCallersSound, VoteMapFailSound, LO3Sound, SwapTeamsSound, MapChangeSound
       DEF Callback
  <1>4. CASE VoteStop
    BY <1>4, VoteMapStopSound, VoteTeamStopSound, VoteOvertimeStopSound, KnifeVoteEndSound
       DEF VoteStop
  <1>5. CASE Player
    BY <1>5, PlayerSound
  <1>6. CASE Admin
    BY <1>6, EndGameSound, PhaseRequestsSound, TimerRequestsSound DEF Admin
  <1> QED
    BY <1>1, <1>2, <1>3, <1>4, <1>5, <1>6 DEF Next

LEMMA StutterSound == ASSUME MatchInv, UNCHANGED vars PROVE MatchInv'
  BY DEF vars, MatchInv, AllTypes, ScoreType, FlowType, GameType, RestartType, ChoiceType,
         VoteType, RoundsAreScores

LEMMA MatchInvariant == Spec => []MatchInv
  <1>1. MatchInv /\ [Next]_vars => MatchInv'
    BY NextSound, StutterSound
  <1> QED
    BY <1>1, InitSound, PTL DEF Spec

\* The type invariant: no handler, timer callback or request writes a value outside the
\* range of its field, whatever the cvars.
THEOREM TypeCorrect == Spec => []TypeOK
  <1>1. MatchInv => TypeOK
    BY TypeParts DEF MatchInv
  <1> QED
    BY <1>1, MatchInvariant, PTL

\* The rounds that schedule the match (GetRound, in NextState and SwapTeams) are the
\* points that decide it (GetScores): RoundEnd, LO3, RestarPeriod, ResetScores, EndGame
\* and SwapScores keep m_Round and m_Score together, in every period.
THEOREM RoundsCorrect == Spec => []RoundsAreScores
  <1>1. MatchInv => RoundsAreScores
    BY DEF MatchInv
  <1> QED
    BY <1>1, MatchInvariant, PTL

(* ------------------------ the half that is over ------------------------ *)

\* Both ends of a step are in the match, after its first half.
Later == {state, state'} \subseteq InMatch \ {"FIRST_HALF"}

LEMMA ScoresKept == ASSUME UNCHANGED scoreVars PROVE FirstHalfKept
  BY DEF scoreVars, FirstHalfKept

LEMMA ClearPeriodKept ==
    ASSUME ScoreType, NEW p \in Live \ {"FIRST_HALF"}, NEW t, ClearPeriod(p, t)
    PROVE  FirstHalfKept
  BY DEF ScoreType, ClearPeriod, Cleared, FirstHalfKept, Live

\* RunState clears the counters only on the way to the first half.
LEMMA RunStateKept ==
    ASSUME NEW tk, NEW rdy, RunState(tk, rdy), Later
    PROVE  FirstHalfKept
  <1>1. CASE UNCHANGED scoreVars
    BY <1>1, ScoresKept
  <1>2. CASE EnterPeriod("FIRST_HALF", tk)
    <2>1. state' \in {"FIRST_HALF", "WARMUP"}
      BY <1>2 DEF EnterPeriod, EnterWarmup
    <2> QED
      BY <2>1 DEF Later, InMatch, Live
  <1> QED
    BY <1>1, <1>2 DEF RunState, scoreVars

LEMMA RoundOverKept ==
    ASSUME MatchInv, Later, NEW win, RoundEnd(win) \/ KnifeRoundFailed(win)
    PROVE  FirstHalfKept
  <1>1. /\ ScoreType
        /\ state # "FIRST_HALF"
    BY DEF MatchInv, AllTypes, Later
  <1>2. CASE UNCHANGED scoreVars
    BY <1>2, ScoresKept
  <1>3. CASE /\ state \in Live
             /\ round' = WithRound(win, round, state)
             /\ credit' = WithPoint(win, credit, state, Playing(win, rosterT))
    BY <1>1, <1>3 DEF WithRound, WithPoint, FirstHalfKept, ScoreType, Live
  <1>4. CASE /\ state \in Live
             /\ round' = WithRound(win, Cleared(round, NoRounds, state), state)
             /\ credit' = WithPoint(win, Cleared(credit, NoCredit, state), state,
                                    Playing(win, rosterT))
    BY <1>1, <1>4 DEF WithRound, WithPoint, Cleared, FirstHalfKept, ScoreType, Live
  <1>5. CASE state \in Live /\ ClearPeriod(state, rosterT)
    BY <1>1, <1>5, ClearPeriodKept
  <1>6. CASE RoundEnd(win)
    BY <1>2, <1>3, <1>6 DEF RoundEnd
  <1>7. CASE KnifeRoundFailed(win)
    BY <1>1, <1>2, <1>4, <1>5, <1>7 DEF KnifeRoundFailed, scoreVars, Live
  <1> QED
    BY <1>6, <1>7

LEMMA CallbackKept ==
    ASSUME MatchInv, Later, Callback \/ ReadyDone
    PROVE  FirstHalfKept
  <1>1. ScoreType /\ state # "FIRST_HALF"
    BY DEF MatchInv, AllTypes, Later
  <1>2. CASE NextDue \/ ReadyDone
    BY <1>2, RunStateKept DEF NextDue, ReadyDone
  <1>3. CASE VoteMapFail
    BY <1>3, RunStateKept, ScoresKept DEF VoteMapFail, scoreVars
  <1>4. CASE LO3
    <2>1. CASE /\ state \in Live
               /\ round' = [round EXCEPT ![state] = 0]
               /\ credit' = [credit EXCEPT ![state] = NoCredit[state]]
      BY <1>1, <2>1 DEF FirstHalfKept, ScoreType, Live
    <2>2. CASE UNCHANGED scoreVars
      BY <2>2, ScoresKept
    <2> QED
      BY <1>4, <2>1, <2>2 DEF LO3
  <1>5. CASE SwapTeams \/ MapChange
    BY <1>5 DEF SwapTeams, MapChange, FirstHalfKept, scoreVars
  <1> QED
    BY <1>2, <1>3, <1>4, <1>5 DEF Callback

LEMMA VoteStopKept ==
    ASSUME MatchInv, Later, VoteStop
    PROVE  FirstHalfKept
  <1>1. CASE VoteMapStop \/ VoteTeamStop \/ VoteOvertimeStop
    BY <1>1, ScoresKept DEF VoteMapStop, VoteTeamStop, VoteOvertimeStop, scoreVars
  <1>2. CASE KnifeVoteEnd
    <2>1. ScoreType /\ state # "FIRST_HALF"
      BY DEF MatchInv, AllTypes, Later
    <2>2. \/ state \in Live /\ \E t : ClearPeriod(state, t)
          \/ UNCHANGED scoreVars
      BY <1>2 DEF KnifeVoteEnd
    <2> QED
      BY <2>1, <2>2, ClearPeriodKept, ScoresKept
  <1> QED
    BY <1>1, <1>2 DEF VoteStop

LEMMA AdminKept ==
    ASSUME MatchInv, Later, Admin
    PROVE  FirstHalfKept
  <1>1. ScoreType /\ state # "FIRST_HALF"
    BY DEF MatchInv, AllTypes, Later
  <1>2. CASE StartVoteMap \/ StartVoteTeam \/ StartMatch \/ StopMatch \/ ToggleReady \/ ChangeMap
    BY <1>2, ScoresKept
       DEF StartVoteMap, StartVoteTeam, StartMatch, StopMatch, ToggleReady, ChangeMap, scoreVars
  <1>3. CASE RestarPeriod
    BY <1>1, <1>3, ClearPeriodKept DEF RestarPeriod
  <1>4. ASSUME NEW winner \in Team, EndGame(winner) PROVE FALSE
    <2>1. state' = "END"
      BY <1>4 DEF EndGame, EnterEnd
    <2> QED
      BY <2>1 DEF Later, InMatch, Live
  <1> QED
    BY <1>2, <1>3, <1>4 DEF Admin

LEMMA NextKept == ASSUME MatchInv, Next, Later PROVE FirstHalfKept
  <1>1. CASE EngineStep \/ Tick
    BY <1>1, ScoresKept DEF EngineStep, RoundRestart, FreezeEnd, Tick, scoreVars
  <1>2. CASE Player
    BY <1>2, ScoresKept DEF Player, Join, Disconnect, CaptainPick, scoreVars
  <1> QED
    BY <1>1, <1>2, RoundOverKept, CallbackKept, VoteStopKept, AdminKept DEF Next, RoundOver

\* Once the first half is over, and until the match ends, no restart, knife round, failed
\* start, LO3 or change of sides alters the rounds it counted or who won them.
THEOREM FirstHalfIsFinal == Spec => FinishedHalfStands
  <1>1. MatchInv /\ [Next]_vars => [Later => FirstHalfKept]_vars
    BY NextKept
  <1> QED
    BY <1>1, MatchInvariant, PTL DEF Spec, FinishedHalfStands, Later

(* -------------------- points and those who won them ---------------------- *)

\* The points of each side are the rounds won by the roster that sits on it, whatever the
\* phase.
Follows == \A p \in Live, t \in Team : score[p][t] = credit[p][Playing(t, rosterT)]

\* The roster on a side is one of the two, and the sides have different ones.
LEMMA RosterNames ==
    ASSUME rosterT \in Roster
    PROVE  /\ \A t \in Team : Playing(t, rosterT) \in Roster
           /\ \A t, u \in Team : Playing(t, rosterT) = Playing(u, rosterT) <=> t = u
  BY DEF Playing, Other, Roster, Team

LEMMA FollowsInit == ASSUME Init PROVE Follows
  BY DEF Init, Follows, NoScore, NoCredit, Playing, Other, Roster, Team

\* Steps that give and take no points, and move nobody.
LEMMA FollowsKept == ASSUME Follows, UNCHANGED <<score, credit, rosterT>> PROVE Follows'
  BY DEF Follows

\* The restart of a period takes the points and the rounds they stand for.
LEMMA FollowsCleared ==
    ASSUME Follows, ScoreType, rosterT \in Roster, NEW p \in Live, ClearPeriod(p, rosterT)
    PROVE  Follows'
  <1>1. CASE p = "FIRST_HALF"
    BY <1>1 DEF ClearPeriod, Cleared, Follows, NoScore, NoCredit, Playing, Other, Roster, Team
  <1>2. CASE p # "FIRST_HALF"
    <2>1. /\ score' = [score EXCEPT ![p] = NoScore[p]]
          /\ credit' = [credit EXCEPT ![p] = NoCredit[p]] /\ rosterT' = rosterT
      BY <1>2 DEF ClearPeriod, Cleared
    <2> QED
      BY <2>1, RosterNames DEF Follows, ScoreType, NoScore, NoCredit
  <1> QED
    BY <1>1, <1>2

\* A round that counts gives its point and its credit to the same players.
LEMMA FollowsRound ==
    ASSUME ScoreType, rosterT \in Roster, ~knife, Follows, RoundOver
    PROVE  Follows'
  <1>1. PICK win \in Team \cup {"DRAW"} : RoundEnd(win)
    BY DEF RoundOver, KnifeRoundFailed
  <1>2. CASE state \notin Live
    BY <1>1, <1>2, FollowsKept DEF RoundEnd, scoreVars
  <1>3. CASE state \in Live
    <2>1. /\ score' = WithPoint(win, score, state, win) /\ rosterT' = rosterT
          /\ credit' = WithPoint(win, credit, state, Playing(win, rosterT))
      BY <1>1, <1>3 DEF RoundEnd
    <2>2. CASE ~Wins(win)
      BY <2>1, <2>2, FollowsKept DEF WithPoint
    <2>3. CASE Wins(win)
      <3> DEFINE r == Playing(win, rosterT)
      <3>1. /\ win \in Team
            /\ score' = [score EXCEPT ![state][win] = @ + 1]
            /\ credit' = [credit EXCEPT ![state][r] = @ + 1]
        BY <2>1, <2>3 DEF WithPoint, Wins
      <3>2. r \in Roster /\ \A t \in Team : Playing(t, rosterT) \in Roster
                                        /\ (Playing(t, rosterT) = r <=> t = win)
        BY <3>1, RosterNames
      <3>3. ASSUME NEW p \in Live, NEW t \in Team
            PROVE  score'[p][t] = credit'[p][Playing(t, rosterT)]
        <4> HIDE DEF r
        <4>1. score[p][t] = credit[p][Playing(t, rosterT)]
          BY DEF Follows
        <4>2. score'[p][t] = IF p = state /\ t = win THEN score[p][t] + 1 ELSE score[p][t]
          BY <1>3, <3>1 DEF ScoreType
        <4>3. credit'[p][Playing(t, rosterT)]
                  = IF p = state /\ Playing(t, rosterT) = r THEN credit[p][Playing(t, rosterT)] + 1
                    ELSE credit[p][Playing(t, rosterT)]
          BY <1>3, <3>1, <3>2 DEF ScoreType
        <4> QED
          BY <3>2, <4>1, <4>2, <4>3
      <3> QED
        BY <2>1, <3>3 DEF Follows
    <2> QED
      BY <2>2, <2>3
  <1> QED
    BY <1>2, <1>3

\* The last restart of LO3 does the same for the live period.
LEMMA FollowsLO3 ==
    ASSUME ScoreType, rosterT \in Roster, Follows, LO3
    PROVE  Follows'
  <1>1. rosterT' = rosterT
    BY DEF LO3
  <1>2. CASE UNCHANGED <<score, credit>>
    BY <1>1, <1>2, FollowsKept
  <1>3. CASE /\ state \in Live
             /\ score' = [score EXCEPT ![state] = NoScore[state]]
             /\ credit' = [credit EXCEPT ![state] = NoCredit[state]]
    <2>1. ASSUME NEW p \in Live, NEW t \in Team
          PROVE  score'[p][t] = credit'[p][Playing(t, rosterT)]
      <3>1. Playing(t, rosterT) \in Roster /\ score[p][t] = credit[p][Playing(t, rosterT)]
        BY RosterNames DEF Follows
      <3>2. NoScore[p][t] = 0 /\ NoCredit[p][Playing(t, rosterT)] = 0
        BY <3>1 DEF NoScore, NoCredit
      <3> QED
        BY <1>3, <3>1, <3>2 DEF ScoreType
    <2> QED
      BY <1>1, <2>1 DEF Follows
  <1> QED
    BY <1>2, <1>3 DEF LO3, scoreVars

\* The points change sides with the players.
LEMMA FollowsSwap ==
    ASSUME rosterT \in Roster, Follows, SwapTeams
    PROVE  Follows'
  <1>1. /\ credit' = credit
        /\ \/ UNCHANGED <<score, rosterT>>
           \/ score' = SwapScores(score) /\ rosterT' = Other(rosterT)
    BY DEF SwapTeams
  <1> QED
    BY <1>1 DEF Follows, SwapScores, Playing, Other, Roster, Team

\* A surrender declares points and credit alike.
LEMMA FollowsSurrender ==
    ASSUME rosterT \in Roster, Follows, NEW winner \in Team, EndGame(winner)
    PROVE  Follows'
  <1> DEFINE rounds(p) == IF p = "FIRST_HALF" THEN Half ELSE IF p = "SECOND_HALF" THEN 1 ELSE 0
  <1>1. CASE MustDeclare(winner)
    <2>1. /\ score' = [p \in Live |-> [t \in Team |-> IF t = winner THEN rounds(p) ELSE 0]]
          /\ credit' = [p \in Live |-> [r \in Roster |->
                            IF r = Playing(winner, rosterT) THEN rounds(p) ELSE 0]]
          /\ rosterT' = rosterT
      BY <1>1 DEF EndGame
    <2> HIDE DEF rounds
    <2> QED
      BY <2>1, RosterNames DEF Follows
  <1>2. CASE ~MustDeclare(winner)
    BY <1>2, FollowsKept DEF EndGame, scoreVars
  <1> QED
    BY <1>1, <1>2

===============================================================================
