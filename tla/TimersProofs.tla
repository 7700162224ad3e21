----------------------------- MODULE TimersProofs -----------------------------
(***************************************************************************)
(* Theorems about the timers that drive the match.  The first two need     *)
(* nothing, or next to nothing, of the configuration: the teams change     *)
(* sides before a period is live, and team selection and the end of a      *)
(* match always have something to end them (SetupCond).                    *)
(*                                                                         *)
(* The others are about a server that runs its matches unattended.  There  *)
(* (Orderly) every timer belongs to the phase it was created in.  When the *)
(* engine's times are those of the game (Timed) the phases follow the      *)
(* rounds that were played; when nothing ends a match before its time      *)
(* (Unbroken) it is announced live in a period; and when no player check   *)
(* sends a period back (Unchecked) the rosters sit where they belong.      *)
(*                                                                         *)
(* The lemmas of the first part say what each operation leaves in which    *)
(* slot; the proofs after it use these facts and not the tables.           *)
(***************************************************************************)
EXTENDS PugModProofs

(* ----------------------------- the slots -------------------------------- *)

\* gTask.Create and gTask.Remove write one slot.
LEMMA CreateSlot ==
    ASSUME NEW tk \in TaskTable, NEW slot \in Slots, NEW run, NEW arg, NEW delay, NEW from
    PROVE  /\ Create(tk, slot, run, arg, delay, from)[slot].run = run
           /\ Create(tk, slot, run, arg, delay, from)[slot].arg = arg
           /\ Create(tk, slot, run, arg, delay, from)[slot].left = delay
           /\ Create(tk, slot, run, arg, delay, from)[slot].from = from
           /\ \A s \in Slots \ {slot} : Create(tk, slot, run, arg, delay, from)[s] = tk[s]
  BY DEF Create, TaskTable

LEMMA RemoveSlot ==
    ASSUME NEW tk \in TaskTable, NEW slot \in Slots
    PROVE  /\ Remove(tk, slot)[slot].left = 0
           /\ ~Exists(Remove(tk, slot), slot)
           /\ \A s \in Slots \ {slot} : Remove(tk, slot)[s] = tk[s]
  BY DEF Remove, TaskTable, Exists, Idle

\* SetState stops the list of the phase it leaves.
LEMMA QuietSlots ==
    ASSUME NEW tk \in TaskTable
    PROVE  /\ Remove(tk, "LIST") \in TaskTable
           /\ ~Exists(Remove(tk, "LIST"), "LIST")
           /\ \A s \in Slots \ {"LIST"} : Remove(tk, "LIST")[s] = tk[s]
  BY RemoveType, RemoveSlot, SlotNames

\* RunState's own task is gone when it runs.
LEMMA NextGoneSlots ==
    ASSUME NEW tk \in TaskTable
    PROVE  /\ Remove(tk, "NEXT") \in TaskTable
           /\ ~Exists(Remove(tk, "NEXT"), "NEXT")
           /\ \A s \in Slots \ {"NEXT"} : Remove(tk, "NEXT")[s] = tk[s]
  BY RemoveType, RemoveSlot, SlotNames

\* Nor is a restart of LO3 that has run, or that a stopped match gives up.
LEMMA RestartGoneSlots ==
    ASSUME NEW tk \in TaskTable
    PROVE  /\ Remove(tk, "LO3R") \in TaskTable
           /\ ~Exists(Remove(tk, "LO3R"), "LO3R")
           /\ \A s \in Slots \ {"LO3R"} : Remove(tk, "LO3R")[s] = tk[s]
  BY RemoveType, RemoveSlot, SlotNames

LEMMA ReadyLoadSlots ==
    ASSUME NEW tk \in TaskTable, NEW p
    PROVE  /\ ReadyLoad(tk, p)["LIST"].run = "Ready.List"
           /\ ReadyLoad(tk, p)["LIST"].left = 1
           /\ \A s \in Slots \ {"LIST"} : ReadyLoad(tk, p)[s] = tk[s]
  BY CreateSlot, SlotNames DEF ReadyLoad

LEMMA OpenVoteSlots ==
    ASSUME NEW tk \in TaskTable, NEW stop, NEW p
    PROVE  /\ OpenVote(tk, stop, p)["VOTE"].run = stop
           /\ OpenVote(tk, stop, p)["VOTE"].left = VoteDelay
           /\ OpenVote(tk, stop, p)["LIST"].run = "Vote.List"
           /\ \A s \in Slots \ {"VOTE", "LIST"} : OpenVote(tk, stop, p)[s] = tk[s]
  BY SlotNames DEF OpenVote, Create, TaskTable

LEMMA ArmNextSlots ==
    ASSUME NEW tk \in TaskTable, NEW delay, NEW p
    PROVE  /\ ArmNext(tk, delay, p)["NEXT"].run = "RunState"
           /\ ArmNext(tk, delay, p)["NEXT"].left = delay
           /\ ArmNext(tk, delay, p)["NEXT"].from = p
           /\ Exists(ArmNext(tk, delay, p), "NEXT")
           /\ \A s \in Slots \ {"NEXT"} : ArmNext(tk, delay, p)[s] = tk[s]
  BY CreateSlot, SlotNames DEF ArmNext, Exists

LEMMA ChangelevelSlots ==
    ASSUME NEW tk \in TaskTable, NEW p
    PROVE  /\ Exists(ChangelevelDelay(tk, p), "CMAP")
           /\ \A s \in Slots \ {"CMAP"} : ChangelevelDelay(tk, p)[s] = tk[s]
  <1> DEFINE created == Create(tk, "CMAP", "Changelevel", 0, 5, p)
  <1>1. Exists(created, "CMAP") /\ \A s \in Slots \ {"CMAP"} : created[s] = tk[s]
    BY SlotNames DEF Create, TaskTable, Exists
  <1>2. ChangelevelDelay(tk, p) = IF Exists(tk, "CMAP") THEN tk ELSE created
    BY DEF ChangelevelDelay
  <1> HIDE DEF created
  <1> QED
    BY <1>1, <1>2

LEMMA ArmSwapSlots ==
    ASSUME NEW tk \in TaskTable
    PROVE  /\ ArmSwap(tk)["EXEC"].left = 5
           /\ Exists(ArmSwap(tk), "EXEC")
           /\ \A s \in Slots \ {"EXEC"} : ArmSwap(tk)[s] = tk[s]
  BY CreateSlot, SlotNames DEF ArmSwap, Exists

LEMMA StartLO3Slots ==
    ASSUME NEW tk \in TaskTable, NEW p
    PROVE  /\ StartLO3(tk, p)["LO3R"].arg = 2
           /\ StartLO3(tk, p)["LO3R"].left = 2
           /\ Exists(StartLO3(tk, p), "LO3R")
           /\ \A s \in Slots \ {"LO3R"} : StartLO3(tk, p)[s] = tk[s]
  BY CreateSlot, SlotNames DEF StartLO3, Exists

\* The removals before a callback, in all slots but the one removed.
LEMMA ClosedSlots ==
    ASSUME task \in TaskTable
    PROVE  /\ ~Exists(VoteClosed, "VOTE")
           /\ \A s \in Slots \ {"VOTE"} : VoteClosed[s] = task[s]
           /\ ~Exists(VoteAndListClosed, "VOTE")
           /\ ~Exists(VoteAndListClosed, "LIST")
           /\ \A s \in Slots \ {"VOTE", "LIST"} : VoteAndListClosed[s] = task[s]
  BY SlotNames DEF VoteClosed, VoteAndListClosed, Remove, TaskTable, Exists, Idle

\* A second takes one from every clock that runs, and moves no task.
LEMMA ElapseSlots ==
    ASSUME NEW tk \in TaskTable
    PROVE  \A s \in Slots :
              /\ Elapse(tk)[s].run = tk[s].run /\ Elapse(tk)[s].arg = tk[s].arg
              /\ Elapse(tk)[s].from = tk[s].from
              /\ Elapse(tk)[s].left = IF tk[s].left > 0 THEN tk[s].left - 1 ELSE 0
              /\ Exists(Elapse(tk), s) <=> Exists(tk, s)
  BY DEF Elapse, TaskTable, TaskType, Exists

(* --------------------- sides change before it is live -------------------- *)

\* Seconds until the last restart of LO3, with those that are still to be asked for.
LiveIn(tk) ==
    tk["LO3R"].left + (CASE tk["LO3R"].arg = 2 -> 7 [] tk["LO3R"].arg = 3 -> 4 [] OTHER -> 0)

\* The change of sides that a halftime has armed comes within five seconds, and in a live
\* period before the restarts are over, which take nine.
SwapFirst(p, tk) ==
    /\ tk["EXEC"].left <= 5
    /\ p \in Live /\ Exists(tk, "EXEC") =>
          /\ Exists(tk, "LO3R") /\ tk["LO3R"].arg \in 2..4
          /\ tk["EXEC"].left < LiveIn(tk)

SwapInv == MatchInv /\ SwapFirst(state, task)

\* What touches neither slot, and starts no period.
LEMMA SwapKept ==
    ASSUME NEW p, NEW tk, SwapFirst(p, tk), NEW q, q \in Live => p \in Live,
           NEW new, new["EXEC"] = tk["EXEC"], new["LO3R"] = tk["LO3R"]
    PROVE  SwapFirst(q, new)
  BY DEF SwapFirst, LiveIn, Exists

\* Outside a live period only the five seconds matter.
LEMMA SwapOutside ==
    ASSUME NEW tk, NEW p, p \notin Live, tk["EXEC"].left <= 5
    PROVE  SwapFirst(p, tk)
  BY DEF SwapFirst

\* A period starts with the first of the three restarts.
LEMMA SwapRestarted ==
    ASSUME NEW tk \in TaskTable, tk["EXEC"].left <= 5, NEW p
    PROVE  SwapFirst(p, StartLO3(tk, p))
  <1>1. /\ StartLO3(tk, p)["LO3R"].arg = 2 /\ StartLO3(tk, p)["LO3R"].left = 2
        /\ Exists(StartLO3(tk, p), "LO3R")
        /\ StartLO3(tk, p)["EXEC"] = tk["EXEC"]
    BY StartLO3Slots, SlotNames
  <1>2. tk["EXEC"].left \in Nat
    BY SlotNames DEF TaskTable, TaskType
  <1> HIDE DEF StartLO3
  <1> QED
    BY <1>1, <1>2 DEF SwapFirst, LiveIn, Exists

\* Whatever SetState is called for, the swap that is armed still comes first.
LEMMA EnterSwap ==
    ASSUME NEW tk \in TaskTable, tk["EXEC"].left <= 5, NEW rdy
    PROVE  /\ EnterWarmup(tk) => SwapFirst(state', task')
           /\ EnterHalftime(tk, rdy) => SwapFirst(state', task')
           /\ EnterEnd(tk, rdy) => SwapFirst(state', task')
  <1>0. "WARMUP" \notin Live /\ "HALFTIME" \notin Live /\ "END" \notin Live
    BY DEF Live
  <1>1. ASSUME EnterWarmup(tk) PROVE SwapFirst(state', task')
    <2>1. state' = "WARMUP" /\ task' = ReadyLoad(tk, "WARMUP")
      BY <1>1 DEF EnterWarmup
    <2>2. task'["EXEC"] = tk["EXEC"] /\ state' \notin Live
      BY <1>0, <2>1, ReadyLoadSlots, SlotNames
    <2> QED
      BY <2>2, SwapOutside
  <1>2. ASSUME EnterHalftime(tk, rdy) PROVE SwapFirst(state', task')
    <2>1. ArmSwap(tk) \in TaskTable /\ ArmSwap(tk)["EXEC"].left = 5
      BY ArmType, ArmSwapSlots DEF Phases
    <2>2. task'["EXEC"] = ArmSwap(tk)["EXEC"]
      BY <1>2, <2>1, ArmNextSlots, ReadyLoadSlots, SlotNames DEF EnterHalftime
    <2> QED
      BY <1>0, <1>2, <2>1, <2>2, SwapOutside DEF EnterHalftime
  <1>3. ASSUME EnterEnd(tk, rdy) PROVE SwapFirst(state', task')
    BY <1>0, <1>3, ArmNextSlots, SlotNames, SwapOutside DEF EnterEnd
  <1> QED
    BY <1>1, <1>2, <1>3

LEMMA EnterPeriodSwap ==
    ASSUME NEW tk \in TaskTable, tk["EXEC"].left <= 5, NEW p \in Live, EnterPeriod(p, tk)
    PROVE  SwapFirst(state', task')
  <1> DEFINE quiet == Remove(tk, "LIST")
  <1>1. quiet \in TaskTable /\ quiet["EXEC"].left <= 5
    BY QuietSlots, SlotNames
  <1>2. \/ state' = p /\ task' = StartLO3(quiet, p)
        \/ EnterWarmup(quiet)
        \/ EnterHalftime(quiet, FALSE)
    BY DEF EnterPeriod
  <1> HIDE DEF quiet
  <1> QED
    BY <1>1, <1>2, SwapRestarted, EnterSwap

\* Team selection does not touch it.
LEMMA SetModeSwap ==
    ASSUME NEW tk \in TaskTable, NEW mode, NEW p, SetMode(mode, tk, p)
    PROVE  \A s \in Slots \ {"LIST", "NEXT"} : task'[s] = tk[s]
  <1>1. \/ task' = Create(tk, "LIST", "Captain.List", 0, 0, p)
        \/ task' = ArmNext(Remove(tk, "LIST"), 3, p)
        \/ task' = ArmNext(tk, 3, p)
    BY DEF SetMode, CaptainStop
  <1>2. Remove(tk, "LIST") \in TaskTable
    BY RemoveType, SlotNames
  <1>3. CASE task' = ArmNext(Remove(tk, "LIST"), 3, p)
    BY <1>2, <1>3, ArmNextSlots, RemoveSlot, SlotNames
  <1>4. CASE task' = Create(tk, "LIST", "Captain.List", 0, 0, p) \/ task' = ArmNext(tk, 3, p)
    BY <1>4, CreateSlot, ArmNextSlots, SlotNames
  <1> QED
    BY <1>1, <1>3, <1>4

LEMMA EnterStartSlots ==
    ASSUME NEW tk \in TaskTable, NEW vm, NEW vt, EnterStart(tk, vm, vt)
    PROVE  \A s \in {"EXEC", "LO3R"} : task'[s] = tk[s]
  <1> DEFINE quiet == Remove(tk, "LIST")
  <1>1. quiet \in TaskTable /\ \A s \in {"EXEC", "LO3R"} : quiet[s] = tk[s]
    BY QuietSlots, SlotNames
  <1>2. \/ \E stop : task' = OpenVote(quiet, stop, "START")
        \/ task' = ChangelevelDelay(quiet, "START")
        \/ SetMode(vt, quiet, "START")
    BY DEF EnterStart
  <1> HIDE DEF quiet
  <1> QED
    BY <1>1, <1>2, OpenVoteSlots, ChangelevelSlots, SetModeSwap, SlotNames

LEMMA RunStateSwap ==
    ASSUME NEW tk \in TaskTable, tk["EXEC"].left <= 5, NEW rdy, RunState(tk, rdy)
    PROVE  SwapFirst(state', task')
  <1>1. CASE EnterStart(tk, voteMap, voteTeam)
    <2>1. state' = "START" /\ "START" \notin Live
      BY <1>1 DEF EnterStart, Live
    <2> QED
      BY <1>1, <2>1, EnterStartSlots, SwapOutside
  <1>2. CASE \E p \in Live : EnterPeriod(p, tk)
    BY <1>2, EnterPeriodSwap
  <1> QED
    BY <1>1, <1>2, EnterSwap DEF RunState, Live

\* The actions, against SwapFirst.
LEMMA EngineSwap == ASSUME SwapInv, EngineStep PROVE SwapFirst(state', task')
  <1>1. state' = state /\ task' = task
    BY DEF EngineStep, RoundRestart, FreezeEnd
  <1> QED
    BY <1>1 DEF SwapInv

\* Both clocks that run lose the same second.
LEMMA TickSwap == ASSUME SwapInv, Tick PROVE SwapFirst(state', task')
  <1>1. task \in TaskTable /\ state' = state /\ task' = Elapse(task)
    BY DEF SwapInv, MatchInv, AllTypes, FlowType, Tick
  <1>2. task["EXEC"].left \in Nat /\ task["LO3R"].left \in Nat
    BY <1>1, SlotNames DEF TaskTable, TaskType
  <1>3. /\ Exists(task, "EXEC") => task["EXEC"].left # 0
        /\ Exists(task, "LO3R") => task["LO3R"].left # 0
    BY DEF Tick, OneShots, Slots, Due
  <1>4. /\ task'["EXEC"].left = IF task["EXEC"].left > 0 THEN task["EXEC"].left - 1 ELSE 0
        /\ task'["LO3R"].left = IF task["LO3R"].left > 0 THEN task["LO3R"].left - 1 ELSE 0
        /\ task'["LO3R"].arg = task["LO3R"].arg
        /\ Exists(task', "EXEC") <=> Exists(task, "EXEC")
        /\ Exists(task', "LO3R") <=> Exists(task, "LO3R")
    BY <1>1, ElapseSlots, SlotNames
  <1>5. task["EXEC"].left <= 5
    BY DEF SwapInv, SwapFirst
  <1>6. task'["EXEC"].left <= 5
    BY <1>2, <1>4, <1>5
  <1>7. ASSUME state' \in Live, Exists(task', "EXEC")
        PROVE  /\ Exists(task', "LO3R") /\ task'["LO3R"].arg \in 2..4
               /\ task'["EXEC"].left < LiveIn(task')
    <2>1. /\ Exists(task, "LO3R") /\ task["LO3R"].arg \in 2..4
          /\ task["EXEC"].left < LiveIn(task)
      BY <1>1, <1>4, <1>7 DEF SwapInv, SwapFirst
    <2>2. /\ Exists(task', "LO3R") /\ task'["LO3R"].arg = task["LO3R"].arg
          /\ task'["EXEC"].left = task["EXEC"].left - 1
          /\ task'["LO3R"].left = task["LO3R"].left - 1
      BY <1>2, <1>3, <1>4, <1>7, <2>1
    <2>3. LiveIn(task) \in Int /\ LiveIn(task') = LiveIn(task) - 1
      BY <1>2, <2>1, <2>2 DEF LiveIn
    <2> QED
      BY <1>2, <2>1, <2>2, <2>3
  <1> QED
    BY <1>6, <1>7 DEF SwapFirst

\* What follows a round arms RunState or a vote.
LEMMA AfterRoundSlots ==
    ASSUME NEW tk \in TaskTable, NEW p, NEW rd, NEW sc
    PROVE  \A s \in {"EXEC", "LO3R", "CMAP"} : AfterRound(p, rd, sc, tk)[s] = tk[s]
  BY ArmNextSlots, OpenVoteSlots, SlotNames DEF AfterRound

LEMMA RoundOverSwap ==
    ASSUME SwapInv, NEW win, RoundEnd(win) \/ KnifeRoundFailed(win)
    PROVE  SwapFirst(state', task')
  <1>1. SwapFirst(state, task) /\ task \in TaskTable /\ state \in Phases
    BY DEF SwapInv, MatchInv, AllTypes, FlowType
  <1>2. CASE RoundEnd(win)
    <2> DEFINE tk == IF knife THEN OpenVote(task, "Knife.VoteEnd", state) ELSE task
    <2>1. tk \in TaskTable
      BY <1>1, ArmType DEF Callbacks
    <2>2. tk["EXEC"] = task["EXEC"] /\ tk["LO3R"] = task["LO3R"]
      BY <1>1, OpenVoteSlots, SlotNames
    <2>3. task' = tk \/ \E rd, sc : task' = AfterRound(state, rd, sc, tk)
      BY <1>2 DEF RoundEnd
    <2>4. task'["EXEC"] = tk["EXEC"] /\ task'["LO3R"] = tk["LO3R"]
      <3> HIDE DEF tk
      <3> QED
        BY <2>1, <2>3, AfterRoundSlots
    <2>5. state' = state
      BY <1>2 DEF RoundEnd
    <2> QED
      BY <1>1, <2>2, <2>4, <2>5, SwapKept
  <1>3. CASE KnifeRoundFailed(win)
    <2> DEFINE quiet == Remove(task, "LIST")
    <2>1. quiet \in TaskTable /\ quiet["EXEC"].left <= 5
      BY <1>1, QuietSlots, SlotNames DEF SwapFirst
    <2>2. \/ state' = state /\ task' = task
          \/ state' = state /\ \E rd, sc : task' = AfterRound(state, rd, sc, StartLO3(quiet, state))
          \/ EnterWarmup(quiet)
          \/ EnterHalftime(quiet, FALSE)
      BY <1>3 DEF KnifeRoundFailed
    <2>3. StartLO3(quiet, state) \in TaskTable /\ SwapFirst(state, StartLO3(quiet, state))
      <3> HIDE DEF quiet
      <3> QED
        BY <1>1, <2>1, ArmType, SwapRestarted
    <2>4. CASE state' = state /\ \E rd, sc : task' = AfterRound(state, rd, sc, StartLO3(quiet, state))
      <3> HIDE DEF quiet
      <3>1. /\ task'["EXEC"] = StartLO3(quiet, state)["EXEC"]
            /\ task'["LO3R"] = StartLO3(quiet, state)["LO3R"]
        BY <2>3, <2>4, AfterRoundSlots
      <3> QED
        BY <2>3, <2>4, <3>1, SwapKept
    <2> HIDE DEF quiet
    <2> QED
      BY <1>1, <2>1, <2>2, <2>4, EnterSwap
  <1> QED
    BY <1>2, <1>3

\* The restarts that LO3 has yet to ask for outlast the swap.
LEMMA LO3Swap == ASSUME SwapInv, LO3 PROVE SwapFirst(state', task')
  <1> DEFINE tk == Remove(task, "LO3R")
             n == task["LO3R"].arg
  <1>1. task \in TaskTable /\ SwapFirst(state, task) /\ state' = state
    BY DEF SwapInv, MatchInv, AllTypes, FlowType, LO3
  <1>2. /\ task["EXEC"].left \in Nat /\ task["EXEC"].left <= 5
        /\ task["LO3R"].left = 0 /\ n \in 0..4
    BY <1>1, SlotNames DEF TaskTable, TaskType, LO3, Due, SwapFirst
  <1>3. tk \in TaskTable /\ tk["EXEC"] = task["EXEC"]
    BY <1>1, RestartGoneSlots, SlotNames
  <1>4. CASE n <= 3
    <2>1. task' = Create(tk, "LO3R", "LO3", n + 1, n + 1, state)
      BY <1>4 DEF LO3
    <2>2. /\ task'["LO3R"].run = "LO3" /\ task'["LO3R"].arg = n + 1
          /\ task'["LO3R"].left = n + 1
          /\ task'["EXEC"] = task["EXEC"]
      <3> HIDE DEF tk, n
      <3> QED
        BY <1>3, <2>1, CreateSlot, SlotNames
    <2>3. ASSUME state \in Live, Exists(task', "EXEC")
          PROVE  task'["LO3R"].arg \in 2..4 /\ task'["EXEC"].left < LiveIn(task')
      <3>1. n \in 2..4 /\ task["EXEC"].left < LiveIn(task)
        BY <1>1, <2>2, <2>3 DEF SwapFirst, Exists
      <3>2. n \in 2..3
        BY <1>4, <3>1
      <3>3. CASE n = 2
        BY <1>2, <2>2, <3>3 DEF LiveIn
      <3>4. CASE n = 3
        BY <1>2, <2>2, <3>1, <3>4 DEF LiveIn
      <3>5. task'["LO3R"].arg \in 2..4
        BY <2>2, <3>2
      <3> QED
        BY <3>2, <3>3, <3>4, <3>5
    <2> QED
      BY <1>1, <1>2, <2>2, <2>3 DEF SwapFirst, Exists
  <1>5. CASE n > 3
    <2>1. task' = tk
      BY <1>2, <1>5 DEF LO3
    <2>2. state \in Live => ~Exists(task, "EXEC")
      <3> SUFFICES ASSUME state \in Live, Exists(task, "EXEC") PROVE FALSE
        OBVIOUS
      <3>1. task["EXEC"].left < LiveIn(task)
        BY <1>1 DEF SwapFirst
      <3> QED
        BY <1>2, <1>5, <3>1 DEF LiveIn
    <2> QED
      BY <1>1, <1>2, <1>3, <2>1, <2>2 DEF SwapFirst, Exists
  <1> QED
    BY <1>2, <1>4, <1>5

LEMMA SwapTeamsSwap == ASSUME SwapInv, SwapTeams PROVE SwapFirst(state', task')
  <1>1. task \in TaskTable /\ task' = Remove(task, "EXEC")
    BY DEF SwapInv, MatchInv, AllTypes, FlowType, SwapTeams
  <1>2. ~Exists(task', "EXEC") /\ task'["EXEC"].left = 0
    BY <1>1, RemoveSlot, SlotNames
  <1> QED
    BY <1>2 DEF SwapFirst

\* A new map has none of the timers of a match.
LEMMA BootSlots ==
    /\ BootPhase \notin Live /\ BootTasks["EXEC"].left = 0
    /\ ~Exists(BootTasks, "EXEC") /\ ~Exists(BootTasks, "VOTE")
    /\ ~Exists(BootTasks, "LO3R") /\ ~Exists(BootTasks, "CMAP")
  <1>1. NoTasks \in TaskTable /\ NoTasks["EXEC"].left = 0
        /\ \A s \in Slots : ~Exists(NoTasks, s)
    BY SlotNames DEF NoTasks, Idle, TaskTable, TaskType, Callbacks, Exists
  <1>2. /\ BootTasks["EXEC"] = NoTasks["EXEC"] /\ BootTasks["VOTE"] = NoTasks["VOTE"]
        /\ BootTasks["LO3R"] = NoTasks["LO3R"] /\ BootTasks["CMAP"] = NoTasks["CMAP"]
    <2>1. CASE BootTasks = ReadyLoad(NoTasks, "WARMUP")
      BY <1>1, <2>1, ReadyLoadSlots, SlotNames
    <2>2. CASE BootTasks = ArmNext(NoTasks, AutoStartDelay, "DEAD")
      BY <1>1, <2>2, ArmNextSlots, SlotNames
    <2> QED
      BY <2>1, <2>2 DEF BootTasks
  <1>3. BootPhase \notin Live
    BY DEF BootPhase, Live
  <1> QED
    BY <1>1, <1>2, <1>3, SlotNames DEF Exists

LEMMA CallbackSwap == ASSUME SwapInv, Callback \/ ReadyDone PROVE SwapFirst(state', task')
  <1>1. task \in TaskTable /\ SwapFirst(state, task)
    BY DEF SwapInv, MatchInv, AllTypes, FlowType
  <1>2. /\ Remove(task, "NEXT") \in TaskTable /\ Remove(task, "LIST") \in TaskTable
        /\ Remove(task, "NEXT")["EXEC"] = task["EXEC"]
        /\ Remove(task, "LIST")["EXEC"] = task["EXEC"]
        /\ Remove(task, "NEXT")["LO3R"] = task["LO3R"]
    BY <1>1, NextGoneSlots, QuietSlots, SlotNames
  <1>3. task["EXEC"].left <= 5
    BY <1>1 DEF SwapFirst
  <1>4. CASE ReadyDone \/ NextDue
    BY <1>2, <1>3, <1>4, RunStateSwap DEF ReadyDone, NextDue
  <1>5. CASE VoteMapFail
    <2> DEFINE tk == Remove(task, "NEXT")
    <2>1. \/ RunState(tk, ready)
          \/ /\ state' = state
             /\ task' = OpenVote(tk, "VoteMap.Stop", state) \/ task' = ChangelevelDelay(tk, state)
      BY <1>5 DEF VoteMapFail
    <2>2. tk \in TaskTable /\ tk["EXEC"] = task["EXEC"] /\ tk["LO3R"] = task["LO3R"]
      BY <1>2
    <2>3. CASE RunState(tk, ready)
      <3> HIDE DEF tk
      <3> QED
        BY <1>3, <2>2, <2>3, RunStateSwap
    <2>4. CASE /\ state' = state
               /\ task' = OpenVote(tk, "VoteMap.Stop", state) \/ task' = ChangelevelDelay(tk, state)
      <3> HIDE DEF tk
      <3>1. task'["EXEC"] = tk["EXEC"] /\ task'["LO3R"] = tk["LO3R"]
        BY <2>2, <2>4, OpenVoteSlots, ChangelevelSlots, SlotNames
      <3> QED
        BY <1>1, <2>2, <2>4, <3>1, SwapKept
    <2> QED
      BY <2>1, <2>3, <2>4
  <1>6. CASE MapChange
    BY <1>6, BootSlots, SwapOutside DEF MapChange
  <1> QED
    BY <1>4, <1>5, <1>6, LO3Swap, SwapTeamsSwap DEF Callback

LEMMA EnterEndSwap ==
    ASSUME NEW tk \in TaskTable, tk["EXEC"].left <= 5, NEW rdy, EnterEnd(tk, rdy)
    PROVE  SwapFirst(state', task')
  BY EnterSwap

LEMMA VoteStopSwap == ASSUME SwapInv, VoteStop PROVE SwapFirst(state', task')
  <1>1. task \in TaskTable /\ SwapFirst(state, task) /\ task["EXEC"].left <= 5
    BY DEF SwapInv, MatchInv, AllTypes, FlowType, SwapFirst
  <1>2. /\ VoteClosed \in TaskTable /\ VoteAndListClosed \in TaskTable
        /\ VoteClosed["EXEC"] = task["EXEC"] /\ VoteClosed["LO3R"] = task["LO3R"]
        /\ VoteAndListClosed["EXEC"] = task["EXEC"] /\ VoteAndListClosed["LO3R"] = task["LO3R"]
    BY <1>1, ClosedType, ClosedSlots, SlotNames
  <1>3. CASE state' = state /\ task'["EXEC"] = task["EXEC"] /\ task'["LO3R"] = task["LO3R"]
    BY <1>1, <1>3, SwapKept
  <1>4. CASE VoteMapStop
    <2>1. /\ state' = state
          /\ \/ task' = ChangelevelDelay(VoteClosed, state)
             \/ task' = Create(VoteAndListClosed, "NEXT", "VoteMap.Fail", 0, 5, state)
      BY <1>4 DEF VoteMapStop
    <2>2. task'["EXEC"] = task["EXEC"] /\ task'["LO3R"] = task["LO3R"]
      BY <1>2, <2>1, ChangelevelSlots, CreateSlot, SlotNames
    <2> QED
      BY <1>3, <2>1, <2>2
  <1>5. CASE VoteTeamStop
    <2>1. \/ \E mode \in TeamModes : SetMode(mode, VoteAndListClosed, state)
          \/ task' = ArmNext(VoteAndListClosed, 3, state)
      BY <1>5 DEF VoteTeamStop
    <2>2. task'["EXEC"] = task["EXEC"] /\ task'["LO3R"] = task["LO3R"]
      BY <1>2, <2>1, SetModeSwap, ArmNextSlots, SlotNames
    <2> QED
      BY <1>3, <1>5, <2>2 DEF VoteTeamStop
  <1>6. CASE VoteOvertimeStop
    <2>1. \/ EnterPeriod("OVERTIME", VoteAndListClosed)
          \/ EnterEnd(VoteAndListClosed, ready)
          \/ state' = state /\ task' = VoteAndListClosed
      BY <1>6 DEF VoteOvertimeStop
    <2>2. "OVERTIME" \in Live
      BY DEF Live
    <2> QED
      BY <1>1, <1>2, <1>3, <2>1, <2>2, EnterPeriodSwap, EnterEndSwap
  <1>7. CASE KnifeVoteEnd
    <2>1. \/ state \in Live /\ EnterPeriod(state, VoteAndListClosed)
          \/ state' = state /\ task' = VoteAndListClosed
      BY <1>7 DEF KnifeVoteEnd
    <2> QED
      BY <1>1, <1>2, <1>3, <2>1, EnterPeriodSwap
  <1> QED
    BY <1>4, <1>5, <1>6, <1>7 DEF VoteStop

LEMMA PlayerSwap == ASSUME SwapInv, Player PROVE SwapFirst(state', task')
  <1>1. task \in TaskTable /\ SwapFirst(state, task) /\ task["EXEC"].left <= 5
    BY DEF SwapInv, MatchInv, AllTypes, FlowType, SwapFirst
  <1>2. CASE state' = state /\ task'["EXEC"] = task["EXEC"] /\ task'["LO3R"] = task["LO3R"]
    BY <1>1, <1>2, SwapKept
  <1> DEFINE stopped == ArmNext(Remove(task, "LIST"), 3, state)
  <1>3. /\ stopped \in TaskTable
        /\ stopped["EXEC"] = task["EXEC"] /\ stopped["LO3R"] = task["LO3R"]
    <2>1. state \in Phases /\ Remove(task, "LIST") \in TaskTable
      BY <1>1, QuietSlots DEF SwapInv, MatchInv, AllTypes, FlowType
    <2>2. stopped \in TaskTable
      BY <2>1, ArmType
    <2>3. stopped["EXEC"] = task["EXEC"] /\ stopped["LO3R"] = task["LO3R"]
      BY <1>1, <2>1, ArmNextSlots, QuietSlots, SlotNames
    <2> QED
      BY <2>2, <2>3
  <1>4. CASE Join
    BY <1>2, <1>4 DEF Join
  <1>5. ASSUME NEW inTeam \in BOOLEAN, NEW captain \in BOOLEAN, Disconnect(inTeam, captain)
        PROVE  SwapFirst(state', task')
    <2> DEFINE tk == IF captain THEN stopped ELSE task
    <2>1. EnterEnd(tk, ready) \/ (task' = tk /\ state' = state)
      BY <1>5 DEF Disconnect
    <2>2. tk \in TaskTable /\ tk["EXEC"] = task["EXEC"] /\ tk["LO3R"] = task["LO3R"]
      BY <1>1, <1>3
    <2> HIDE DEF tk
    <2> QED
      BY <1>1, <1>2, <2>1, <2>2, EnterEndSwap
  <1>6. ASSUME NEW last \in BOOLEAN, CaptainPick(last) PROVE SwapFirst(state', task')
    <2>1. state' = state /\ (task' = stopped \/ task' = task)
      BY <1>6 DEF CaptainPick, CaptainStop
    <2> HIDE DEF stopped
    <2> QED
      BY <1>2, <1>3, <2>1
  <1> QED
    BY <1>4, <1>5, <1>6 DEF Player

LEMMA AdminSwap == ASSUME SwapInv, Admin PROVE SwapFirst(state', task')
  <1>1. task \in TaskTable /\ SwapFirst(state, task) /\ task["EXEC"].left <= 5
    BY DEF SwapInv, MatchInv, AllTypes, FlowType, SwapFirst
  <1>2. CASE state' = state /\ task'["EXEC"] = task["EXEC"] /\ task'["LO3R"] = task["LO3R"]
    BY <1>1, <1>2, SwapKept
  <1>3. CASE StartVoteMap \/ StartMatch \/ ToggleReady \/ ChangeMap
    <2>1. /\ state' = state
          /\ \/ task' = OpenVote(task, "VoteMap.Stop", state)
             \/ task' = ArmNext(task, 1, state)
             \/ task' = Remove(task, "LIST")
             \/ task' = ReadyLoad(task, state)
             \/ task' = ChangelevelDelay(task, state)
      BY <1>3 DEF StartVoteMap, StartMatch, ToggleReady, ChangeMap
    <2>2. task'["EXEC"] = task["EXEC"] /\ task'["LO3R"] = task["LO3R"]
      BY <1>1, <2>1, OpenVoteSlots, ArmNextSlots, QuietSlots, ReadyLoadSlots, ChangelevelSlots,
         SlotNames
    <2> QED
      BY <1>2, <2>1, <2>2
  <1>4. CASE StartVoteTeam
    <2>1. EnterStart(task, FALSE, -1) /\ state' = "START" /\ "START" \notin Live
      BY <1>4 DEF StartVoteTeam, EnterStart, Live
    <2> QED
      BY <1>1, <2>1, EnterStartSlots, SwapOutside
  <1>5. CASE StopMatch
    <2>1. Remove(task, "LO3R") \in TaskTable /\ Remove(task, "LO3R")["EXEC"] = task["EXEC"]
      BY <1>1, RemoveType, RemoveSlot, SlotNames
    <2> QED
      BY <1>1, <1>5, <2>1, EnterEndSwap DEF StopMatch
  <1>6. CASE RestarPeriod
    BY <1>1, <1>6, EnterPeriodSwap DEF RestarPeriod
  <1>7. ASSUME NEW winner \in Team, EndGame(winner) PROVE SwapFirst(state', task')
    BY <1>1, <1>7, EnterEndSwap DEF EndGame
  <1> QED
    BY <1>3, <1>4, <1>5, <1>6, <1>7 DEF Admin

LEMMA SwapInit == ASSUME Init PROVE SwapInv
  <1>1. SwapFirst(state, task)
    BY BootSlots DEF Init, SwapFirst
  <1> QED
    BY <1>1, InitSound DEF SwapInv

LEMMA SwapNext == ASSUME SwapInv, [Next]_vars PROVE SwapInv'
  <1>1. ASSUME Next PROVE SwapInv'
    <2>1. SwapFirst(state', task')
      BY <1>1, EngineSwap, TickSwap, RoundOverSwap, CallbackSwap, VoteStopSwap, PlayerSwap,
         AdminSwap DEF Next, RoundOver
    <2> QED
      BY <1>1, <2>1, NextSound DEF SwapInv
  <1>2. ASSUME UNCHANGED vars PROVE SwapInv'
    BY <1>2, StutterSound DEF SwapInv, vars
  <1> QED
    BY <1>1, <1>2

LEMMA SwapInvariant == Spec => []SwapInv
  <1>1. Init => SwapInv
    BY SwapInit
  <1>2. SwapInv /\ [Next]_vars => SwapInv'
    BY SwapNext
  <1> QED
    BY <1>1, <1>2, PTL DEF Spec

\* The teams never change sides once a period is live: the five seconds of the swap, armed
\* by HALFTIME, end before the three restarts of LO3 do, even when the halftime is cut
\* short by RunState, the overtime vote or a restart of the period.
THEOREM SidesChangeFirst == Spec => SwapBeforeLive
  <1>1. SwapInv => [SwapTeams /\ state \in Live => Exists(task, "LO3R")]_vars
    BY DEF SwapInv, SwapFirst, SwapTeams, Due
  <1> QED
    BY <1>1, SwapInvariant, PTL DEF SwapBeforeLive

(* ----------------------- matches without knife rounds -------------------- *)

\* Neither the cvars nor the players' vote ask for a knife round.
NoKnifeRound == ~KnifeRoundPlay /\ VoteTeamType # 5 /\ 5 \notin TeamModes

KnifeFree == ~knife /\ voteTeam # 5

LEMMA SetModeFree ==
    ASSUME NoKnifeRound, ~knife, NEW mode, mode # 5, NEW tk, NEW p, SetMode(mode, tk, p)
    PROVE  ~knife'
  BY DEF SetMode, CaptainStop, NoKnifeRound

LEMMA EnterStartFree ==
    ASSUME NoKnifeRound, ~knife, NEW tk, NEW vm, NEW vt, vt # 5, EnterStart(tk, vm, vt)
    PROVE  KnifeFree'
  BY SetModeFree DEF EnterStart, KnifeFree

LEMMA RunStateFree ==
    ASSUME NoKnifeRound, KnifeFree, NEW tk, NEW rdy, RunState(tk, rdy)
    PROVE  KnifeFree'
  BY EnterStartFree DEF RunState, EnterEnd, KnifeFree, setupVars

LEMMA KnifeFreeNext == ASSUME NoKnifeRound, KnifeFree, Next PROVE KnifeFree'
  <1> USE DEF KnifeFree
  <1>1. CASE EngineStep \/ Tick
    BY <1>1 DEF EngineStep, RoundRestart, FreezeEnd, Tick, setupVars
  <1>2. CASE RoundOver
    <2>1. PICK win : RoundEnd(win) \/ KnifeRoundFailed(win)
      BY <1>2 DEF RoundOver
    <2>2. RoundEnd(win)
      BY <2>1 DEF KnifeRoundFailed
    <2> QED
      BY <2>2 DEF RoundEnd, setupVars
  <1>3. CASE ReadyDone \/ NextDue
    BY <1>3, RunStateFree DEF ReadyDone, NextDue
  <1>4. CASE VoteMapFail
    BY <1>4, RunStateFree DEF VoteMapFail, setupVars
  <1>5. CASE LO3 \/ SwapTeams
    BY <1>5 DEF LO3, SwapTeams, setupVars
  <1>6. CASE MapChange
    BY <1>6 DEF MapChange, NoKnifeRound
  <1>7. CASE VoteMapStop \/ VoteOvertimeStop \/ KnifeVoteEnd
    BY <1>7 DEF VoteMapStop, VoteOvertimeStop, KnifeVoteEnd, EnterEnd, setupVars, voteVars
  <1>8. CASE VoteTeamStop
    <2>1. voteTeam' = voteTeam /\ (knife' = knife \/ \E mode \in TeamModes :
                                       SetMode(mode, VoteAndListClosed, state))
      BY <1>8 DEF VoteTeamStop, voteVars
    <2> QED
      BY <2>1, SetModeFree DEF NoKnifeRound
  <1>9. CASE Player
    BY <1>9 DEF Player, Join, Disconnect, CaptainPick, CaptainStop, EnterEnd, voteVars,
                NoKnifeRound
  <1>10. CASE Admin
    <2>1. CASE StartVoteTeam
      <3>1. EnterStart(task, FALSE, -1)
        BY <2>1 DEF StartVoteTeam
      <3>2. -1 # 5
        OBVIOUS
      <3> QED
        BY <3>1, <3>2, EnterStartFree
    <2> QED
      BY <1>10, <2>1 DEF Admin, StartVoteMap, StartMatch, StopMatch, RestarPeriod, ToggleReady,
                         ChangeMap, EndGame, EnterEnd, setupVars
  <1> QED
    BY <1>1, <1>2, <1>3, <1>4, <1>5, <1>6, <1>7, <1>8, <1>9, <1>10 DEF Next, Callback, VoteStop

(* -------------------- a setup always has an end ahead -------------------- *)

\* The team selection ends by the captains, RunState, a map change, or the vote that is open.
StartOwed(pick, tk) ==
    \/ pick \/ Exists(tk, "NEXT") \/ Exists(tk, "CMAP")
    \/ tk["VOTE"].run \in {"VoteMap.Stop", "VoteTeam.Stop"}

\* After a match the vote counts only when it is repeated until a map is elected.
EndOwed(pick, tk) ==
    \/ pick \/ Exists(tk, "NEXT") \/ Exists(tk, "CMAP")
    \/ VoteMapFailType = 1 /\ tk["VOTE"].run = "VoteMap.Stop"

\* Knife rounds are off, or no map vote follows a match: neither that of pug_vote_map_end
\* nor one that is repeated until a map is elected.
SetupCond ==
    NoKnifeRound \/ (VoteMapFailType # 1 /\ ~(VoteMapEnd /\ VoteMapType = 1))

\* With knife rounds, no round ends before the first half: the vote that follows a knife
\* round does not replace the one that is to end the setup.
Pending ==
    /\ NoKnifeRound \/ (state \in {"WARMUP", "START"} => endless)
    /\ state = "START" => StartOwed(picking, task)
    /\ state = "END" => EndOwed(picking, task)

SetupInv == MatchInv /\ Pending /\ (NoKnifeRound => KnifeFree)

\* A step that arms RunState, or that stays where it is and takes nothing away.
LEMMA ArmedPending ==
    ASSUME Exists(task', "NEXT") \/ Exists(task', "CMAP") \/ picking',
           NoKnifeRound \/ (state' \in {"WARMUP", "START"} => endless')
    PROVE  Pending'
  BY DEF Pending, StartOwed, EndOwed

LEMMA ElsewherePending ==
    ASSUME state' \notin {"WARMUP", "START", "END"}
    PROVE  Pending'
  BY DEF Pending

LEMMA KeptPending ==
    ASSUME Pending, state' = state, endless' = endless, picking' = picking,
           Exists(task, "NEXT") => Exists(task', "NEXT"),
           Exists(task, "CMAP") => Exists(task', "CMAP"),
           state = "START" /\ task["VOTE"].run \in {"VoteMap.Stop", "VoteTeam.Stop"}
               => task'["VOTE"].run = task["VOTE"].run,
           state = "END" /\ VoteMapFailType = 1 /\ task["VOTE"].run = "VoteMap.Stop"
               => task'["VOTE"].run = task["VOTE"].run
    PROVE  Pending'
  BY DEF Pending, StartOwed, EndOwed

LEMMA SetModePending ==
    ASSUME NEW tk \in TaskTable, NEW mode \in 0..5, NEW p, SetMode(mode, tk, p)
    PROVE  (picking' \/ Exists(task', "NEXT")) /\ endless' = endless
  <1>1. \/ picking' = TRUE
        \/ task' = ArmNext(Remove(tk, "LIST"), 3, p)
        \/ task' = ArmNext(tk, 3, p)
    BY DEF SetMode, CaptainStop
  <1>2. endless' = endless
    BY DEF SetMode, gameVars
  <1> QED
    BY <1>1, <1>2, QuietSlots, ArmNextSlots

LEMMA EnterStartPending ==
    ASSUME NEW tk \in TaskTable, NEW vm, NEW vt \in -1..5, NoKnifeRound \/ endless,
           EnterStart(tk, vm, vt)
    PROVE  Pending'
  <1> DEFINE quiet == Remove(tk, "LIST")
  <1>1. quiet \in TaskTable
    BY QuietSlots
  <1>2. \/ task' = OpenVote(quiet, "VoteMap.Stop", "START") /\ endless' = endless
        \/ task' = ChangelevelDelay(quiet, "START") /\ endless' = endless
        \/ task' = OpenVote(quiet, "VoteTeam.Stop", "START") /\ endless' = endless
        \/ vt # -1 /\ SetMode(vt, quiet, "START")
    BY DEF EnterStart, gameVars
  <1>3. state' = "START"
    BY DEF EnterStart
  <1> HIDE DEF quiet
  <1>4. CASE vt # -1 /\ SetMode(vt, quiet, "START")
    <2>1. vt \in 0..5
      BY <1>4
    <2> QED
      BY <1>1, <1>3, <1>4, <2>1, SetModePending, ArmedPending
  <1>5. CASE task' = ChangelevelDelay(quiet, "START") /\ endless' = endless
    BY <1>1, <1>5, ChangelevelSlots, ArmedPending
  <1>6. CASE /\ endless' = endless
             /\ \/ task' = OpenVote(quiet, "VoteMap.Stop", "START")
                \/ task' = OpenVote(quiet, "VoteTeam.Stop", "START")
    <2>1. task'["VOTE"].run \in {"VoteMap.Stop", "VoteTeam.Stop"}
      BY <1>1, <1>6, OpenVoteSlots
    <2> QED
      BY <1>3, <1>6, <2>1 DEF Pending, StartOwed
  <1> QED
    BY <1>2, <1>4, <1>5, <1>6

LEMMA EnterPending ==
    ASSUME NEW tk \in TaskTable, NEW rdy
    PROVE  /\ EnterWarmup(tk) => Pending'
           /\ EnterHalftime(tk, rdy) => Pending'
           /\ EnterEnd(tk, rdy) => Pending'
           /\ \A p \in Live : EnterPeriod(p, tk) => Pending'
  <1>1. EnterWarmup(tk) => Pending'
    BY DEF EnterWarmup, Pending
  <1>2. EnterHalftime(tk, rdy) => Pending'
    BY ElsewherePending DEF EnterHalftime
  <1>3. ASSUME EnterEnd(tk, rdy) PROVE Pending'
    <2>1. state' = "END" /\ Exists(task', "NEXT")
      BY <1>3, ArmNextSlots DEF EnterEnd
    <2> QED
      BY <2>1, ArmedPending
  <1>4. ASSUME NEW p \in Live, EnterPeriod(p, tk) PROVE Pending'
    <2>1. \/ state' \in Live \cup {"HALFTIME"}
          \/ state' = "WARMUP" /\ endless' = TRUE
      BY <1>4 DEF EnterPeriod, EnterWarmup, EnterHalftime
    <2> QED
      BY <2>1 DEF Pending, Live
  <1> QED
    BY <1>1, <1>2, <1>3, <1>4

LEMMA RunStatePending ==
    ASSUME SetupCond, AllTypes, Pending, NEW tk \in TaskTable, NEW rdy, RunState(tk, rdy)
    PROVE  Pending'
  <1>1. CASE NextPhase = "START" /\ EnterStart(tk, voteMap, voteTeam)
    <2>1. state = "WARMUP" \/ (VoteMapEnd /\ VoteMapType = 1)
      BY <1>1, MatchAssumption DEF NextPhase, AfterHalftime, AfterSecondHalf, AllTypes,
         FlowType, Phases, Live
    <2>2. (NoKnifeRound \/ endless) /\ voteTeam \in -1..5
      BY <2>1 DEF SetupCond, Pending, AllTypes, VoteType
    <2> QED
      BY <1>1, <2>2, EnterStartPending
  <1>2. CASE \E p \in Live : EnterPeriod(p, tk)
    BY <1>2, EnterPending
  <1> QED
    BY <1>1, <1>2, EnterPending DEF RunState, Live

\* The actions, against Pending.
LEMMA EnginePending == ASSUME SetupInv, EngineStep \/ Tick PROVE Pending'
  <1>1. Pending /\ task \in TaskTable
    BY DEF SetupInv, MatchInv, AllTypes, FlowType
  <1>2. /\ state' = state /\ endless' = endless /\ picking' = picking
        /\ task' = task \/ task' = Elapse(task)
    BY DEF EngineStep, RoundRestart, FreezeEnd, Tick, setupVars
  <1>3. /\ task'["VOTE"].run = task["VOTE"].run
        /\ Exists(task', "NEXT") <=> Exists(task, "NEXT")
        /\ Exists(task', "CMAP") <=> Exists(task, "CMAP")
    BY <1>1, <1>2, ElapseSlots, SlotNames
  <1> QED
    BY <1>1, <1>2, <1>3, KeptPending

LEMMA RoundOverPending ==
    ASSUME SetupCond, SetupInv, NEW win, RoundEnd(win) \/ KnifeRoundFailed(win)
    PROVE  Pending'
  <1>1. Pending /\ task \in TaskTable /\ ~endless
    BY DEF SetupInv, MatchInv, AllTypes, FlowType, RoundEnd, KnifeRoundFailed, MayEnd
  <1>2. NoKnifeRound \/ state \notin {"WARMUP", "START"}
    BY <1>1 DEF Pending
  <1>3. CASE RoundEnd(win) /\ state \notin Live
    <2>1. /\ state' = state /\ endless' = endless /\ picking' = picking
          /\ task' = task \/ (knife /\ task' = OpenVote(task, "Knife.VoteEnd", state))
      BY <1>3 DEF RoundEnd, setupVars
    <2>2. task'["NEXT"] = task["NEXT"] /\ task'["CMAP"] = task["CMAP"]
      BY <1>1, <2>1, OpenVoteSlots, SlotNames
    <2>3. NoKnifeRound => task' = task
      BY <2>1 DEF SetupInv, KnifeFree
    <2> QED
      BY <1>1, <1>2, <2>1, <2>2, <2>3, KeptPending DEF Exists, SetupCond
  <1>4. CASE RoundEnd(win) /\ state \in Live
    BY <1>4, ElsewherePending DEF RoundEnd, Live
  <1>5. CASE KnifeRoundFailed(win)
    <2>1. \/ state' = state /\ task' = task /\ endless' = endless
          \/ state' = state /\ state \in Live
          \/ EnterWarmup(Remove(task, "LIST"))
          \/ EnterHalftime(Remove(task, "LIST"), FALSE)
      BY <1>5 DEF KnifeRoundFailed
    <2>2. picking' = picking
      BY <1>5 DEF KnifeRoundFailed
    <2>3. CASE state' = state /\ task' = task /\ endless' = endless
      BY <1>1, <2>2, <2>3, KeptPending
    <2>4. CASE state' = state /\ state \in Live
      BY <2>4, ElsewherePending DEF Live
    <2>5. Remove(task, "LIST") \in TaskTable
      BY <1>1, QuietSlots
    <2> QED
      BY <2>1, <2>3, <2>4, <2>5, EnterPending
  <1> QED
    BY <1>3, <1>4, <1>5

LEMMA CallbackPending ==
    ASSUME SetupCond, SetupInv, Callback \/ ReadyDone
    PROVE  Pending'
  <1>1. /\ AllTypes /\ Pending /\ task \in TaskTable
        /\ Remove(task, "NEXT") \in TaskTable /\ Remove(task, "LIST") \in TaskTable
    BY NextGoneSlots, QuietSlots DEF SetupInv, MatchInv, AllTypes, FlowType
  <1>2. CASE ReadyDone \/ NextDue
    BY <1>1, <1>2, RunStatePending DEF ReadyDone, NextDue
  <1>3. CASE VoteMapFail
    <2> DEFINE tk == Remove(task, "NEXT")
    <2>1. \/ RunState(tk, ready)
          \/ /\ VoteMapFailType = 1
             /\ task' = OpenVote(tk, "VoteMap.Stop", state)
             /\ state' = state /\ endless' = endless
          \/ /\ task' = ChangelevelDelay(tk, state)
             /\ state' = state /\ endless' = endless
      BY <1>3 DEF VoteMapFail, gameVars
    <2>2. tk \in TaskTable
      BY <1>1
    <2> HIDE DEF tk
    <2>3. CASE RunState(tk, ready)
      BY <1>1, <2>2, <2>3, RunStatePending
    <2>4. CASE /\ VoteMapFailType = 1
               /\ task' = OpenVote(tk, "VoteMap.Stop", state)
               /\ state' = state /\ endless' = endless
      <3>1. task'["VOTE"].run = "VoteMap.Stop"
        BY <2>2, <2>4, OpenVoteSlots
      <3> QED
        BY <1>1, <2>4, <3>1 DEF Pending, StartOwed, EndOwed
    <2>5. CASE /\ task' = ChangelevelDelay(tk, state)
               /\ state' = state /\ endless' = endless
      <3>1. Exists(task', "CMAP")
        BY <2>2, <2>5, ChangelevelSlots
      <3> QED
        BY <1>1, <2>5, <3>1 DEF Pending, StartOwed, EndOwed
    <2> QED
      BY <2>1, <2>3, <2>4, <2>5
  <1>4. CASE LO3
    <2> DEFINE tk == Remove(task, "LO3R")
               n == task["LO3R"].arg
    <2>1. /\ state' = state /\ endless' = endless /\ picking' = picking
          /\ task' = tk \/ task' = Create(tk, "LO3R", "LO3", n + 1, n + 1, state)
      BY <1>4 DEF LO3, gameVars, setupVars
    <2>2. /\ tk \in TaskTable /\ tk["VOTE"] = task["VOTE"]
          /\ tk["NEXT"] = task["NEXT"] /\ tk["CMAP"] = task["CMAP"]
      BY <1>1, RestartGoneSlots, SlotNames
    <2> HIDE DEF tk, n
    <2>3. /\ task'["VOTE"] = task["VOTE"]
          /\ task'["NEXT"] = task["NEXT"] /\ task'["CMAP"] = task["CMAP"]
      BY <2>1, <2>2, CreateSlot, SlotNames
    <2> QED
      BY <1>1, <2>1, <2>3, KeptPending DEF Exists
  <1>5. CASE SwapTeams
    <2>1. /\ state' = state /\ endless' = endless /\ picking' = picking
          /\ task' = Remove(task, "EXEC")
      BY <1>5 DEF SwapTeams, gameVars, setupVars
    <2>2. /\ task'["VOTE"] = task["VOTE"]
          /\ task'["NEXT"] = task["NEXT"] /\ task'["CMAP"] = task["CMAP"]
      BY <1>1, <2>1, RemoveSlot, SlotNames
    <2> QED
      BY <1>1, <2>1, <2>2, KeptPending DEF Exists
  <1>6. CASE MapChange
    <2>1. state' \in {"WARMUP", "DEAD"} /\ (state' = "WARMUP" => endless')
      BY <1>6 DEF MapChange, BootPhase
    <2> QED
      BY <2>1 DEF Pending
  <1> QED
    BY <1>2, <1>3, <1>4, <1>5, <1>6 DEF Callback

LEMMA VoteStopPending == ASSUME SetupInv, VoteStop PROVE Pending'
  <1>1. Pending /\ task \in TaskTable
    BY DEF SetupInv, MatchInv, AllTypes, FlowType
  <1>2. /\ VoteClosed \in TaskTable /\ VoteAndListClosed \in TaskTable
        /\ VoteAndListClosed["NEXT"] = task["NEXT"] /\ VoteAndListClosed["CMAP"] = task["CMAP"]
    BY <1>1, ClosedType, ClosedSlots, SlotNames
  <1>3. CASE /\ state' = state /\ endless' = endless
             /\ Exists(task', "NEXT") \/ Exists(task', "CMAP") \/ picking'
    BY <1>1, <1>3 DEF Pending, StartOwed, EndOwed
  <1>4. CASE VoteMapStop
    <2>1. /\ state' = state /\ endless' = endless
          /\ \/ task' = ChangelevelDelay(VoteClosed, state)
             \/ task' = Create(VoteAndListClosed, "NEXT", "VoteMap.Fail", 0, 5, state)
      BY <1>4 DEF VoteMapStop, gameVars
    <2>2. Exists(task', "CMAP") \/ task'["NEXT"].run = "VoteMap.Fail"
      BY <1>2, <2>1, ChangelevelSlots, CreateSlot, SlotNames
    <2> QED
      BY <1>3, <2>1, <2>2 DEF Exists
  <1>5. CASE VoteTeamStop
    <2>1. /\ state' = state
          /\ \/ \E mode \in TeamModes : SetMode(mode, VoteAndListClosed, state)
             \/ task' = ArmNext(VoteAndListClosed, 3, state) /\ endless' = endless
      BY <1>5 DEF VoteTeamStop, gameVars
    <2>2. (picking' \/ Exists(task', "NEXT")) /\ endless' = endless
      BY <1>2, <2>1, SetModePending, ArmNextSlots, VoteAssumption
    <2> QED
      BY <1>3, <2>1, <2>2
  <1>6. CASE /\ task["VOTE"].run \notin {"VoteMap.Stop", "VoteTeam.Stop"}
             /\ state' = state /\ endless' = endless /\ picking' = picking
             /\ task' = VoteAndListClosed
    BY <1>1, <1>2, <1>6, KeptPending DEF Exists
  <1>7. CASE VoteOvertimeStop
    <2>1. \/ EnterPeriod("OVERTIME", VoteAndListClosed)
          \/ EnterEnd(VoteAndListClosed, ready)
          \/ /\ state' = state /\ endless' = endless /\ picking' = picking
             /\ task' = VoteAndListClosed
      BY <1>7 DEF VoteOvertimeStop, gameVars
    <2>2. "OVERTIME" \in Live /\ task["VOTE"].run \notin {"VoteMap.Stop", "VoteTeam.Stop"}
      BY <1>7 DEF Live, VoteOvertimeStop, VoteOpen
    <2> QED
      BY <1>2, <1>6, <2>1, <2>2, EnterPending
  <1>8. CASE KnifeVoteEnd
    <2>1. \/ state \in Live /\ EnterPeriod(state, VoteAndListClosed)
          \/ /\ state' = state /\ endless' = endless /\ picking' = picking
             /\ task' = VoteAndListClosed
      BY <1>8 DEF KnifeVoteEnd, gameVars
    <2>2. task["VOTE"].run \notin {"VoteMap.Stop", "VoteTeam.Stop"}
      BY <1>8 DEF KnifeVoteEnd, VoteOpen
    <2> QED
      BY <1>2, <1>6, <2>1, <2>2, EnterPending
  <1> QED
    BY <1>4, <1>5, <1>7, <1>8 DEF VoteStop

LEMMA PlayerPending == ASSUME SetupInv, Player PROVE Pending'
  <1>1. Pending /\ task \in TaskTable /\ Remove(task, "LIST") \in TaskTable
    BY QuietSlots DEF SetupInv, MatchInv, AllTypes, FlowType
  <1> DEFINE stopped == ArmNext(Remove(task, "LIST"), 3, state)
  <1>2. stopped \in TaskTable /\ Exists(stopped, "NEXT") /\ picking \in BOOLEAN
    <2>1. state \in Phases /\ picking \in BOOLEAN
      BY DEF SetupInv, MatchInv, AllTypes, FlowType, ChoiceType
    <2> QED
      BY <1>1, <2>1, ArmType, ArmNextSlots
  <1>3. CASE state' = state /\ endless' = endless /\ picking' = picking /\ task' = task
    BY <1>1, <1>3, KeptPending
  <1>4. CASE state' = state /\ endless' = endless /\ task' = stopped
    BY <1>1, <1>2, <1>4, ArmedPending DEF Pending
  <1>5. ASSUME NEW inTeam \in BOOLEAN, NEW captain \in BOOLEAN, Disconnect(inTeam, captain)
        PROVE  Pending'
    <2> DEFINE tk == IF captain THEN stopped ELSE task
    <2>1. tk \in TaskTable
      BY <1>1, <1>2
    <2>2. \/ EnterEnd(tk, ready)
          \/ /\ state' = state /\ endless' = endless /\ task' = tk
             /\ captain \/ picking' = picking
      <3>1. \/ EnterEnd(tk, ready)
            \/ state' = state /\ UNCHANGED gameVars /\ task' = tk
        BY <1>5 DEF Disconnect
      <3>2. picking' = (picking /\ ~captain)
        BY <1>5 DEF Disconnect
      <3> HIDE DEF tk
      <3>3. captain \/ picking' = picking
        BY <1>2, <3>2
      <3> QED
        BY <3>1, <3>3 DEF gameVars
    <2>3. CASE EnterEnd(tk, ready)
      <3> HIDE DEF tk
      <3> QED
        BY <2>1, <2>3, EnterPending
    <2> QED
      BY <1>3, <1>4, <2>2, <2>3
  <1>6. ASSUME NEW last \in BOOLEAN, CaptainPick(last) PROVE Pending'
    BY <1>3, <1>4, <1>6 DEF CaptainPick, CaptainStop, gameVars
  <1>7. CASE Join
    BY <1>3, <1>7 DEF Join, gameVars
  <1> QED
    BY <1>5, <1>6, <1>7 DEF Player

LEMMA AdminPending == ASSUME SetupInv, Admin PROVE Pending'
  <1>1. Pending /\ task \in TaskTable
    BY DEF SetupInv, MatchInv, AllTypes, FlowType
  <1>2. CASE StartVoteMap
    BY <1>1, <1>2 DEF StartVoteMap, Pending, gameVars
  <1>3. CASE StartMatch \/ ToggleReady
    BY <1>1, <1>3 DEF StartMatch, ToggleReady, Pending, gameVars
  <1>4. CASE ChangeMap
    <2>1. Exists(task', "CMAP") /\ state' = state /\ endless' = endless
      BY <1>1, <1>4, ChangelevelSlots DEF ChangeMap, gameVars
    <2> QED
      BY <1>1, <2>1, ArmedPending DEF Pending
  <1>5. CASE StartVoteTeam
    <2>1. EnterStart(task, FALSE, -1) /\ (NoKnifeRound \/ endless)
      BY <1>1, <1>5 DEF StartVoteTeam, Pending
    <2>2. -1 \in -1..5
      OBVIOUS
    <2> QED
      BY <1>1, <2>1, <2>2, EnterStartPending
  <1>6. CASE StopMatch
    <2>1. Remove(task, "LO3R") \in TaskTable
      BY <1>1, RemoveType, SlotNames
    <2> QED
      BY <1>6, <2>1, EnterPending DEF StopMatch
  <1>7. CASE RestarPeriod
    BY <1>1, <1>7, EnterPending DEF RestarPeriod
  <1>8. ASSUME NEW winner \in Team, EndGame(winner) PROVE Pending'
    BY <1>1, <1>8, EnterPending DEF EndGame
  <1> QED
    BY <1>2, <1>3, <1>4, <1>5, <1>6, <1>7, <1>8 DEF Admin

\* The choice of the teams and the end of a match never stall: RunState, an open vote, the
\* captains or a map change is always ahead, whoever votes, picks, leaves or asks for what.
\* Otherwise a knife round decided after the match would open its vote over the map vote.
THEOREM SetupNeverStalls == ASSUME SetupCond PROVE Spec => []SetupPending
  <1>1. Init => SetupInv
    <2> SUFFICES ASSUME Init PROVE Pending /\ (NoKnifeRound => KnifeFree)
      BY InitSound DEF SetupInv
    <2>1. Pending
      BY DEF Init, BootPhase, Pending
    <2>2. NoKnifeRound => KnifeFree
      BY DEF Init, NoKnifeRound, KnifeFree
    <2> QED
      BY <2>1, <2>2
  <1>2. SetupInv /\ [Next]_vars => SetupInv'
    <2>1. ASSUME SetupInv, Next PROVE SetupInv'
      <3>1. Pending'
        BY <2>1, EnginePending, RoundOverPending, CallbackPending, VoteStopPending,
           PlayerPending, AdminPending DEF Next, RoundOver
      <3>2. MatchInv' /\ (NoKnifeRound => KnifeFree')
        BY <2>1, NextSound, KnifeFreeNext DEF SetupInv
      <3> QED
        BY <3>1, <3>2 DEF SetupInv, NoKnifeRound
    <2>2. ASSUME SetupInv, UNCHANGED vars PROVE SetupInv'
      <3>1. MatchInv'
        BY <2>2, StutterSound DEF SetupInv
      <3>2. Pending' /\ (NoKnifeRound => KnifeFree')
        BY <2>2 DEF SetupInv, Pending, KnifeFree, vars
      <3> QED
        BY <3>1, <3>2 DEF SetupInv, NoKnifeRound
    <2> QED
      BY <2>1, <2>2
  <1>3. SetupInv => SetupPending
    BY DEF SetupInv, Pending, StartOwed, EndOwed, SetupPending, Exists
  <1> QED
    BY <1>1, <1>2, <1>3, PTL DEF Spec

(* ------------------------ one timer per phase ---------------------------- *)

\* Every match that starts has enough players to go on, and keeps them.
Attended ==
    /\ PlayersMin <= 2 \/ (0 \notin TeamModes /\ VoteTeamType # 0)
    /\ "StartVoteTeam" \notin Requests

\* Nobody leaves, and no administrator opens a map vote or starts the match by hand; no
\* knife round and no overtime vote are played.  Restarts of a period do not fail, and a
\* match that may be stopped is attended.
Orderly ==
    /\ Requests \cap {"StartVoteMap", "StartMatch", "Leave"} = {}
    /\ NoKnifeRound
    /\ OvertimeType # 3
    /\ "RestartPeriod" \in Requests => ~PlayCheckPlayers
    /\ "StopMatch" \in Requests => Attended

\* RunState is armed by the phase it leaves, never while the ready system could call it too.
NextOrder ==
    /\ Exists(task, "NEXT") =>
          task["NEXT"].from = state /\ state # "WARMUP" /\ task["LIST"].run # "Ready.List"
    /\ task["NEXT"].run = "VoteMap.Fail" => state = "START"

\* Votes and captains belong to the setup, one at a time, and RunState follows them.
SetupOrder ==
    /\ Exists(task, "VOTE") =>
          /\ state = "START" /\ ~picking /\ ~Exists(task, "NEXT")
          /\ task["VOTE"].run \in {"VoteMap.Stop", "VoteTeam.Stop"}
    /\ picking => state = "START" /\ ~Exists(task, "NEXT")

ReadyOrder ==
    /\ task["LIST"].run = "Ready.List" => state \in {"WARMUP", "HALFTIME"}
    /\ ready /\ state \in {"WARMUP", "HALFTIME"} => task["LIST"].run = "Ready.List"
    /\ state \in Live \cup {"START"} => ~ready

\* A match that may be stopped is never left waiting at its halftime.
AttendanceOrder ==
    /\ voteTeam \in {-1, VoteTeamType}
    /\ "StopMatch" \in Requests =>
          /\ state \in InMatch \cup {"START", "END"} => inGame >= PlayersMin
          /\ state = "HALFTIME" => task["LIST"].run # "Ready.List"

Ordered == NextOrder /\ SetupOrder /\ ReadyOrder /\ AttendanceOrder

OrderlyInv == MatchInv /\ KnifeFree /\ Ordered

\* The timers when a phase is left: its own have run or are gone.
Clean(tk) == ~Exists(tk, "NEXT") /\ ~Exists(tk, "VOTE") /\ tk["LIST"].run # "Ready.List"

\* What moves none of the timers of a phase, nor the phase.
LEMMA OrderedKept ==
    ASSUME Ordered, UNCHANGED <<state, ready, picking, voteTeam>>, inGame' = inGame,
           task'["NEXT"] = task["NEXT"], task'["VOTE"] = task["VOTE"],
           task'["LIST"] = task["LIST"]
    PROVE  Ordered'
  BY DEF Ordered, NextOrder, SetupOrder, ReadyOrder, AttendanceOrder, Exists

LEMMA WarmupOrdered ==
    ASSUME NEW tk \in TaskTable, Clean(tk), EnterWarmup(tk), ~picking',
           voteTeam' \in {-1, VoteTeamType}
    PROVE  Ordered'
  <1>1. state' = "WARMUP" /\ ready' = TRUE /\ task' = ReadyLoad(tk, "WARMUP")
    BY DEF EnterWarmup
  <1>2. /\ task'["LIST"].run = "Ready.List"
        /\ task'["NEXT"] = tk["NEXT"] /\ task'["VOTE"] = tk["VOTE"]
    BY <1>1, ReadyLoadSlots, SlotNames
  <1>3. task'["NEXT"].run = "none" /\ task'["VOTE"].run = "none"
    BY <1>2 DEF Clean, Exists
  <1> QED
    BY <1>1, <1>2, <1>3
       DEF Ordered, NextOrder, SetupOrder, ReadyOrder, AttendanceOrder, Exists, InMatch, Live

LEMMA HalftimeOrdered ==
    ASSUME NEW tk \in TaskTable, Clean(tk), NEW rdy, ~rdy, EnterHalftime(tk, rdy), ~picking',
           voteTeam' \in {-1, VoteTeamType}, inGame' = inGame,
           "StopMatch" \in Requests => inGame >= PlayersMin
    PROVE  Ordered'
  <1> DEFINE swap == ArmSwap(tk)
  <1>1. swap \in TaskTable /\ Clean(swap)
    <2>1. swap["NEXT"] = tk["NEXT"] /\ swap["VOTE"] = tk["VOTE"] /\ swap["LIST"] = tk["LIST"]
      BY ArmSwapSlots, SlotNames
    <2> QED
      BY <2>1, ArmType DEF Phases, Clean, Exists
  <1>2. state' = "HALFTIME"
    BY DEF EnterHalftime
  <1>3. CASE inGame >= PlayersMin
    <2>1. task' = ArmNext(swap, 7, "HALFTIME") /\ ready' = rdy
      BY <1>3 DEF EnterHalftime
    <2> HIDE DEF swap
    <2>2. /\ task'["NEXT"].run = "RunState" /\ task'["NEXT"].from = "HALFTIME"
          /\ task'["VOTE"] = swap["VOTE"] /\ task'["LIST"] = swap["LIST"]
      BY <1>1, <2>1, ArmNextSlots, SlotNames
    <2>3. task'["VOTE"].run = "none" /\ task'["LIST"].run # "Ready.List" /\ ~ready'
      BY <1>1, <2>1, <2>2 DEF Clean, Exists
    <2> QED
      BY <1>2, <1>3, <2>2, <2>3
         DEF Ordered, NextOrder, SetupOrder, ReadyOrder, AttendanceOrder, Exists, Live
  <1>4. CASE ~(inGame >= PlayersMin)
    <2>1. task' = ReadyLoad(swap, "HALFTIME")
      BY <1>4 DEF EnterHalftime
    <2> HIDE DEF swap
    <2>2. /\ task'["LIST"].run = "Ready.List"
          /\ task'["NEXT"] = swap["NEXT"] /\ task'["VOTE"] = swap["VOTE"]
      BY <1>1, <2>1, ReadyLoadSlots, SlotNames
    <2>3. task'["NEXT"].run = "none" /\ task'["VOTE"].run = "none"
      BY <1>1, <2>2 DEF Clean, Exists
    <2> QED
      BY <1>2, <1>4, <2>2, <2>3
         DEF Ordered, NextOrder, SetupOrder, ReadyOrder, AttendanceOrder, Exists, Live
  <1> QED
    BY <1>3, <1>4

LEMMA EndOrdered ==
    ASSUME NEW tk \in TaskTable, ~Exists(tk, "VOTE"), tk["LIST"].run # "Ready.List",
           NEW rdy, EnterEnd(tk, rdy), ~picking', voteTeam \in {-1, VoteTeamType},
           inGame' = inGame, "StopMatch" \in Requests => inGame >= PlayersMin
    PROVE  Ordered'
  <1>1. state' = "END" /\ task' = ArmNext(tk, 5, "END") /\ voteTeam' = voteTeam
    BY DEF EnterEnd
  <1>2. /\ task'["NEXT"].run = "RunState" /\ task'["NEXT"].from = "END"
        /\ task'["VOTE"] = tk["VOTE"] /\ task'["LIST"] = tk["LIST"]
    BY <1>1, ArmNextSlots, SlotNames
  <1>3. task'["VOTE"].run = "none" /\ task'["LIST"].run # "Ready.List"
    BY <1>2 DEF Exists
  <1> QED
    BY <1>1, <1>2, <1>3
       DEF Ordered, NextOrder, SetupOrder, ReadyOrder, AttendanceOrder, Exists, InMatch, Live

\* A period that starts, or starts again, keeps its own RunState if it has one.
LEMMA LiveOrdered ==
    ASSUME NEW tk \in TaskTable, ~Exists(tk, "VOTE"), NEW p \in Live,
           Exists(tk, "NEXT") => tk["NEXT"].from = p, tk["NEXT"].run # "VoteMap.Fail",
           state' = p, ready' = FALSE, task' = StartLO3(Remove(tk, "LIST"), p), ~picking',
           voteTeam' \in {-1, VoteTeamType}, inGame' = inGame,
           "StopMatch" \in Requests => inGame >= PlayersMin
    PROVE  Ordered'
  <1> DEFINE quiet == Remove(tk, "LIST")
  <1>1. /\ quiet \in TaskTable /\ ~Exists(quiet, "LIST")
        /\ quiet["NEXT"] = tk["NEXT"] /\ quiet["VOTE"] = tk["VOTE"]
    BY QuietSlots, SlotNames
  <1>2. task' = StartLO3(quiet, p)
    OBVIOUS
  <1> HIDE DEF quiet
  <1>3. /\ task'["NEXT"] = tk["NEXT"] /\ task'["VOTE"] = tk["VOTE"]
        /\ task'["LIST"] = quiet["LIST"]
    BY <1>1, <1>2, StartLO3Slots, SlotNames
  <1>4. task'["VOTE"].run = "none" /\ task'["LIST"].run = "none"
    BY <1>1, <1>3 DEF Exists
  <1> QED
    BY <1>3, <1>4
       DEF Ordered, NextOrder, SetupOrder, ReadyOrder, AttendanceOrder, Exists, InMatch, Live

LEMMA PeriodOrdered ==
    ASSUME NEW tk \in TaskTable, Clean(tk), NEW p \in Live, EnterPeriod(p, tk), ~picking',
           voteTeam' \in {-1, VoteTeamType}, inGame' = inGame,
           "StopMatch" \in Requests => inGame >= PlayersMin
    PROVE  Ordered'
  <1> DEFINE quiet == Remove(tk, "LIST")
  <1>1. quiet \in TaskTable /\ Clean(quiet)
    <2>1. /\ quiet \in TaskTable /\ ~Exists(quiet, "LIST")
          /\ quiet["NEXT"] = tk["NEXT"] /\ quiet["VOTE"] = tk["VOTE"]
      BY QuietSlots, SlotNames
    <2> QED
      BY <2>1 DEF Clean, Exists
  <1>2. \/ state' = p /\ ready' = FALSE /\ task' = StartLO3(quiet, p)
        \/ EnterWarmup(quiet)
        \/ EnterHalftime(quiet, FALSE)
    BY DEF EnterPeriod
  <1>3. CASE state' = p /\ ready' = FALSE /\ task' = StartLO3(quiet, p)
    BY <1>3, LiveOrdered DEF Clean, Exists
  <1> HIDE DEF quiet
  <1> QED
    BY <1>1, <1>2, <1>3, WarmupOrdered, HalftimeOrdered

\* The choice of the teams: the captains, or the next phase in three seconds.
LEMMA SetModeOrdered ==
    ASSUME Orderly, AllTypes, NEW tk \in TaskTable, Clean(tk), ~picking,
           NEW mode \in 0..5, SetMode(mode, tk, "START"), state' = "START", ready' = FALSE,
           voteTeam' \in {-1, VoteTeamType},
           "StopMatch" \in Requests => inGame >= PlayersMin /\ (mode = 0 => PlayersMin <= 2)
    PROVE  Ordered'
  <1> DEFINE quiet == Remove(tk, "LIST")
  <1>1. /\ quiet \in TaskTable /\ ~Exists(quiet, "LIST")
        /\ quiet["NEXT"] = tk["NEXT"] /\ quiet["VOTE"] = tk["VOTE"]
    BY QuietSlots, SlotNames
  <1>2. inGame \in Nat /\ PlayersMin \in Nat
    BY PlayersAssumption DEF AllTypes, ChoiceType
  <1>3. CASE mode = 0 /\ inGame > CaptainQuorum
    <2>1. picking' = TRUE /\ inGame' = 2 /\ task' = Create(tk, "LIST", "Captain.List", 0, 0, "START")
      BY <1>3 DEF SetMode
    <2>2. /\ task'["LIST"].run = "Captain.List"
          /\ task'["NEXT"] = tk["NEXT"] /\ task'["VOTE"] = tk["VOTE"]
      BY <2>1, CreateSlot, SlotNames
    <2>3. task'["NEXT"].run = "none" /\ task'["VOTE"].run = "none"
      BY <2>2 DEF Clean, Exists
    <2>4. "StopMatch" \in Requests => inGame' >= PlayersMin
      BY <1>2, <1>3, <2>1
    <2> QED
      BY <2>2, <2>3, <2>4
         DEF Ordered, NextOrder, SetupOrder, ReadyOrder, AttendanceOrder, Exists, InMatch, Live
  <1>4. CASE /\ ~picking' /\ inGame' = inGame
             /\ task' = ArmNext(tk, 3, "START") \/ task' = ArmNext(quiet, 3, "START")
    <2>1. /\ task'["NEXT"].run = "RunState" /\ task'["NEXT"].from = "START"
          /\ task'["VOTE"] = tk["VOTE"]
          /\ task'["LIST"] = tk["LIST"] \/ task'["LIST"] = quiet["LIST"]
      <3> HIDE DEF quiet
      <3> QED
        BY <1>1, <1>4, ArmNextSlots, SlotNames
    <2>2. task'["VOTE"].run = "none" /\ task'["LIST"].run # "Ready.List"
      BY <1>1, <2>1 DEF Clean, Exists
    <2> QED
      BY <1>4, <2>1, <2>2
         DEF Ordered, NextOrder, SetupOrder, ReadyOrder, AttendanceOrder, Exists, InMatch, Live
  <1>5. CASE mode = 0 /\ ~(inGame > CaptainQuorum)
    BY <1>4, <1>5 DEF SetMode, CaptainStop
  <1>6. CASE mode \in 1..5
    BY <1>4, <1>6 DEF SetMode
  <1> QED
    BY <1>3, <1>5, <1>6

LEMMA StartOrdered ==
    ASSUME Orderly, AllTypes, NEW tk \in TaskTable, Clean(tk), ~picking,
           NEW vm, NEW vt \in -1..5, vt \in {-1, VoteTeamType}, EnterStart(tk, vm, vt),
           "StopMatch" \in Requests => inGame >= PlayersMin
    PROVE  Ordered'
  <1> DEFINE quiet == Remove(tk, "LIST")
  <1>1. /\ quiet \in TaskTable /\ Clean(quiet) /\ ~Exists(quiet, "LIST")
        /\ quiet["NEXT"] = tk["NEXT"] /\ quiet["VOTE"] = tk["VOTE"]
    <2>1. /\ quiet \in TaskTable /\ ~Exists(quiet, "LIST")
          /\ quiet["NEXT"] = tk["NEXT"] /\ quiet["VOTE"] = tk["VOTE"]
      BY QuietSlots, SlotNames
    <2> QED
      BY <2>1 DEF Clean, Exists
  <1>2. state' = "START" /\ ready' = FALSE /\ voteTeam' = vt
    BY DEF EnterStart
  <1>3. \/ /\ UNCHANGED <<picking, inGame>>
           /\ \/ task' = OpenVote(quiet, "VoteMap.Stop", "START")
              \/ task' = OpenVote(quiet, "VoteTeam.Stop", "START")
              \/ task' = ChangelevelDelay(quiet, "START")
        \/ vt # -1 /\ SetMode(vt, quiet, "START")
    BY DEF EnterStart
  <1> HIDE DEF quiet
  <1>4. CASE vt # -1 /\ SetMode(vt, quiet, "START")
    <2>1. vt \in 0..5 /\ VoteTeamType = vt
      BY <1>4
    <2>2. "StopMatch" \in Requests => (vt = 0 => PlayersMin <= 2)
      BY <2>1 DEF Orderly, Attended
    <2> QED
      BY <1>1, <1>2, <1>4, <2>1, <2>2, SetModeOrdered
  <1>5. CASE /\ UNCHANGED <<picking, inGame>>
             /\ \/ task' = OpenVote(quiet, "VoteMap.Stop", "START")
                \/ task' = OpenVote(quiet, "VoteTeam.Stop", "START")
    <2>1. /\ task'["VOTE"].run \in {"VoteMap.Stop", "VoteTeam.Stop"}
          /\ task'["LIST"].run = "Vote.List" /\ task'["NEXT"] = quiet["NEXT"]
      BY <1>1, <1>5, OpenVoteSlots, SlotNames
    <2>2. task'["NEXT"].run = "none"
      BY <1>1, <2>1 DEF Clean, Exists
    <2> QED
      BY <1>2, <1>5, <2>1, <2>2
         DEF Ordered, NextOrder, SetupOrder, ReadyOrder, AttendanceOrder, Exists, InMatch, Live
  <1>6. CASE UNCHANGED <<picking, inGame>> /\ task' = ChangelevelDelay(quiet, "START")
    <2>1. /\ task'["VOTE"] = quiet["VOTE"] /\ task'["LIST"] = quiet["LIST"]
          /\ task'["NEXT"] = quiet["NEXT"]
      BY <1>1, <1>6, ChangelevelSlots, SlotNames
    <2>2. /\ task'["NEXT"].run = "none" /\ task'["VOTE"].run = "none"
          /\ task'["LIST"].run = "none"
      BY <1>1, <2>1 DEF Clean, Exists
    <2> QED
      BY <1>2, <1>6, <2>2
         DEF Ordered, NextOrder, SetupOrder, ReadyOrder, AttendanceOrder, Exists, InMatch, Live
  <1> QED
    BY <1>3, <1>4, <1>5, <1>6

LEMMA RunStateOrdered ==
    ASSUME Orderly, MatchInv, NEW tk \in TaskTable, Clean(tk), ~picking,
           voteTeam \in {-1, VoteTeamType}, NEW rdy, RunState(tk, rdy),
           state \in Live => ~rdy,
           "StopMatch" \in Requests /\ state # "DEAD" => inGame >= PlayersMin
    PROVE  Ordered'
  <1>0. AllTypes /\ state \in Phases
    BY DEF MatchInv, AllTypes, FlowType
  <1>1. /\ NextPhase = "HALFTIME" => state \in Live
        /\ NextPhase # "WARMUP" => state # "DEAD"
    BY <1>0 DEF NextPhase, AfterHalftime, AfterSecondHalf, Live, Phases
  <1>2. CASE NextPhase = "START" /\ EnterStart(tk, voteMap, voteTeam)
    <2>1. voteTeam \in -1..5
      BY <1>0 DEF AllTypes, VoteType
    <2> QED
      BY <1>0, <1>1, <1>2, <2>1, StartOrdered
  <1>3. CASE EnterWarmup(tk) /\ UNCHANGED setupVars
    BY <1>3, WarmupOrdered DEF setupVars
  <1>4. CASE NextPhase = "HALFTIME" /\ EnterHalftime(tk, rdy) /\ UNCHANGED setupVars
    BY <1>1, <1>4, HalftimeOrdered DEF setupVars, Live
  <1>5. CASE /\ NextPhase \in Live /\ EnterPeriod(NextPhase, tk) /\ UNCHANGED setupVars
    BY <1>1, <1>5, PeriodOrdered DEF setupVars, Live
  <1>6. CASE NextPhase = "END" /\ EnterEnd(tk, rdy) /\ UNCHANGED <<picking, inGame>>
    BY <1>1, <1>6, EndOrdered DEF Clean
  <1> QED
    BY <1>2, <1>3, <1>4, <1>5, <1>6 DEF RunState, Live

\* The facts about a state that the actions start from.
LEMMA OrderedParts ==
    ASSUME OrderlyInv
    PROVE  /\ Ordered /\ AllTypes /\ task \in TaskTable /\ state \in Phases
           /\ ~knife /\ voteTeam \in {-1, VoteTeamType}
           /\ Exists(task, "NEXT") => task["NEXT"].from = state
           /\ state \in Live => ~ready
           /\ state # "START" => ~picking /\ ~Exists(task, "VOTE")
           /\ state \notin {"WARMUP", "HALFTIME"} => task["LIST"].run # "Ready.List"
           /\ "StopMatch" \in Requests =>
                 /\ state \in InMatch \cup {"START", "END"} => inGame >= PlayersMin
                 /\ state \in InMatch => task["LIST"].run # "Ready.List"
  BY DEF OrderlyInv, MatchInv, AllTypes, FlowType, KnifeFree, Ordered, NextOrder, SetupOrder,
         ReadyOrder, AttendanceOrder, InMatch, Live

LEMMA EngineOrdered == ASSUME OrderlyInv, EngineStep \/ Tick PROVE Ordered'
  <1>1. /\ UNCHANGED <<state, ready, picking, voteTeam, inGame>>
        /\ task' = task \/ task' = Elapse(task)
    BY DEF EngineStep, RoundRestart, FreezeEnd, Tick, setupVars
  <1>2. /\ task'["NEXT"].run = task["NEXT"].run /\ task'["NEXT"].from = task["NEXT"].from
        /\ task'["VOTE"].run = task["VOTE"].run /\ task'["LIST"].run = task["LIST"].run
    BY <1>1, OrderedParts, ElapseSlots, SlotNames
  <1> QED
    BY <1>1, <1>2, OrderedParts
       DEF Ordered, NextOrder, SetupOrder, ReadyOrder, AttendanceOrder, Exists

LEMMA RoundOverOrdered == ASSUME Orderly, OrderlyInv, RoundOver PROVE Ordered'
  <1>1. PICK win : RoundEnd(win)
    BY OrderedParts DEF RoundOver, KnifeRoundFailed
  <1>2. UNCHANGED <<state, ready, picking, voteTeam, inGame>>
    BY <1>1 DEF RoundEnd, setupVars
  <1>3. CASE task' = task
    BY <1>2, <1>3, OrderedParts, OrderedKept
  <1>4. CASE state \in Live /\ task' = ArmNext(task, RoundDelay, state)
    <2>1. /\ task'["NEXT"].run = "RunState" /\ task'["NEXT"].from = state
          /\ task'["VOTE"] = task["VOTE"] /\ task'["LIST"] = task["LIST"]
      BY <1>4, OrderedParts, ArmNextSlots, SlotNames
    <2>2. state \notin {"WARMUP", "START", "HALFTIME"}
      BY <1>4 DEF Live
    <2> QED
      BY <1>2, <2>1, <2>2, OrderedParts
         DEF Ordered, NextOrder, SetupOrder, ReadyOrder, AttendanceOrder, Exists
  <1>5. task' = task \/ (state \in Live /\ task' = ArmNext(task, RoundDelay, state))
    <2>1. OvertimeType # 3
      BY DEF Orderly
    <2> QED
      BY <1>1, <2>1, OrderedParts DEF RoundEnd, AfterRound, TieVote
  <1> QED
    BY <1>3, <1>4, <1>5

\* The callbacks of NEXT and LIST leave their phase with nothing of it behind.
LEMMA RunStateCallersOrdered ==
    ASSUME Orderly, OrderlyInv, NextDue \/ ReadyDone
    PROVE  Ordered'
  <1>1. CASE NextDue
    <2> DEFINE tk == Remove(task, "NEXT")
    <2>1. Exists(task, "NEXT") /\ task["NEXT"].run = "RunState" /\ RunState(tk, ready)
      BY <1>1 DEF NextDue, Due
    <2>2. /\ ~Exists(task, "VOTE") /\ ~picking /\ task["LIST"].run # "Ready.List"
          /\ state # "WARMUP"
      BY <2>1, OrderedParts DEF Ordered, NextOrder, SetupOrder
    <2>3. tk \in TaskTable /\ Clean(tk)
      <3>1. /\ tk \in TaskTable /\ ~Exists(tk, "NEXT")
            /\ tk["VOTE"] = task["VOTE"] /\ tk["LIST"] = task["LIST"]
        BY OrderedParts, NextGoneSlots, SlotNames
      <3> QED
        BY <2>2, <3>1 DEF Clean, Exists
    <2>4. "StopMatch" \in Requests /\ state # "DEAD" => inGame >= PlayersMin
      BY <2>2, OrderedParts DEF Phases, InMatch
    <2>5. MatchInv /\ voteTeam \in {-1, VoteTeamType} /\ (state \in Live => ~ready)
      BY OrderedParts DEF OrderlyInv
    <2> HIDE DEF tk
    <2> QED
      BY <2>1, <2>2, <2>3, <2>4, <2>5, RunStateOrdered
  <1>2. CASE ReadyDone
    <2> DEFINE tk == Remove(task, "LIST")
    <2>1. task["LIST"].run = "Ready.List" /\ RunState(tk, FALSE) /\ inGame >= PlayersMin
      <3>1. inGame \in Nat /\ PlayersMin \in Nat
        BY OrderedParts, PlayersAssumption DEF AllTypes, ChoiceType
      <3>2. \/ inGame >= PlayersMin
            \/ inGame = PlayersMin
        BY <1>2 DEF ReadyDone
      <3>3. task["LIST"].run = "Ready.List" /\ RunState(tk, FALSE)
        BY <1>2 DEF ReadyDone
      <3>4. inGame >= PlayersMin
        BY <3>1, <3>2
      <3> QED
        BY <3>3, <3>4
    <2>2. ~Exists(task, "VOTE") /\ ~picking /\ ~Exists(task, "NEXT")
      BY <2>1, OrderedParts DEF Ordered, NextOrder
    <2>3. tk \in TaskTable /\ Clean(tk)
      <3>1. /\ tk \in TaskTable /\ ~Exists(tk, "LIST")
            /\ tk["VOTE"] = task["VOTE"] /\ tk["NEXT"] = task["NEXT"]
        BY OrderedParts, QuietSlots, SlotNames
      <3> QED
        BY <2>2, <3>1 DEF Clean, Exists
    <2>4. MatchInv /\ voteTeam \in {-1, VoteTeamType}
      BY OrderedParts DEF OrderlyInv
    <2> HIDE DEF tk
    <2> QED
      BY <2>1, <2>2, <2>3, <2>4, RunStateOrdered
  <1> QED
    BY <1>1, <1>2

LEMMA VoteMapFailOrdered == ASSUME Orderly, OrderlyInv, VoteMapFail PROVE Ordered'
  <1> DEFINE tk == Remove(task, "NEXT")
  <1>1. Exists(task, "NEXT") /\ state = "START"
    BY OrderedParts DEF VoteMapFail, Due, Ordered, NextOrder
  <1>2. ~Exists(task, "VOTE") /\ ~picking /\ task["LIST"].run # "Ready.List" /\ ~ready
    BY <1>1, OrderedParts DEF Ordered, SetupOrder, ReadyOrder
  <1>3. tk \in TaskTable /\ Clean(tk)
    <2>1. /\ tk \in TaskTable /\ ~Exists(tk, "NEXT")
          /\ tk["VOTE"] = task["VOTE"] /\ tk["LIST"] = task["LIST"]
      BY OrderedParts, NextGoneSlots, SlotNames
    <2> QED
      BY <1>2, <2>1 DEF Clean, Exists
  <1>4. "StopMatch" \in Requests => inGame >= PlayersMin
    BY <1>1, OrderedParts
  <1>5. \/ RunState(tk, ready)
        \/ /\ UNCHANGED <<state, ready, picking, voteTeam, inGame>>
           /\ task' = OpenVote(tk, "VoteMap.Stop", state) \/ task' = ChangelevelDelay(tk, state)
    BY DEF VoteMapFail, setupVars
  <1> HIDE DEF tk
  <1>6. CASE RunState(tk, ready)
    BY <1>2, <1>3, <1>4, <1>6, OrderedParts, RunStateOrdered DEF OrderlyInv
  <1>7. CASE /\ UNCHANGED <<state, ready, picking, voteTeam, inGame>>
             /\ task' = OpenVote(tk, "VoteMap.Stop", state)
    <2>1. /\ task'["VOTE"].run = "VoteMap.Stop" /\ task'["LIST"].run = "Vote.List"
          /\ task'["NEXT"] = tk["NEXT"]
      BY <1>3, <1>7, OpenVoteSlots, SlotNames
    <2>2. task'["NEXT"].run = "none"
      BY <1>3, <2>1 DEF Clean, Exists
    <2> QED
      BY <1>1, <1>2, <1>7, <2>1, <2>2, OrderedParts
         DEF Ordered, NextOrder, SetupOrder, ReadyOrder, AttendanceOrder, Exists, Live
  <1>8. CASE /\ UNCHANGED <<state, ready, picking, voteTeam, inGame>>
             /\ task' = ChangelevelDelay(tk, state)
    <2>1. /\ task'["VOTE"] = tk["VOTE"] /\ task'["LIST"] = tk["LIST"]
          /\ task'["NEXT"] = tk["NEXT"]
      BY <1>3, <1>8, ChangelevelSlots, SlotNames
    <2>2. /\ task'["NEXT"].run = "none" /\ task'["VOTE"].run = "none"
          /\ task'["LIST"].run # "Ready.List"
      BY <1>3, <2>1 DEF Clean, Exists
    <2> QED
      BY <1>1, <1>2, <1>8, <2>2, OrderedParts
         DEF Ordered, NextOrder, SetupOrder, ReadyOrder, AttendanceOrder, Exists, Live
  <1> QED
    BY <1>5, <1>6, <1>7, <1>8

\* LO3 and the swap have slots of their own.
LEMMA OtherTimersOrdered == ASSUME OrderlyInv, LO3 \/ SwapTeams PROVE Ordered'
  <1>1. UNCHANGED <<state, ready, picking, voteTeam, inGame>>
    BY DEF LO3, SwapTeams, setupVars
  <1> DEFINE tk == Remove(task, "LO3R")
             n == task["LO3R"].arg
  <1>2. \/ task' = Remove(task, "EXEC")
        \/ task' = tk
        \/ task' = Create(tk, "LO3R", "LO3", n + 1, n + 1, state)
    BY DEF LO3, SwapTeams
  <1>3. tk \in TaskTable /\ \A s \in Slots \ {"LO3R"} : tk[s] = task[s]
    BY OrderedParts, RemoveType, RemoveSlot, SlotNames
  <1>4. \A s \in Slots \ {"EXEC"} : Remove(task, "EXEC")[s] = task[s]
    BY OrderedParts, RemoveSlot, SlotNames
  <1> HIDE DEF tk, n
  <1>5. /\ task'["NEXT"] = task["NEXT"] /\ task'["VOTE"] = task["VOTE"]
        /\ task'["LIST"] = task["LIST"]
    <2>1. CASE task' = Create(tk, "LO3R", "LO3", n + 1, n + 1, state)
      BY <1>3, <2>1, CreateSlot, SlotNames
    <2> QED
      BY <1>2, <1>3, <1>4, <2>1, SlotNames
  <1> QED
    BY <1>1, <1>5, OrderedParts, OrderedKept

LEMMA BootTimers ==
    /\ BootPhase \in {"WARMUP", "DEAD"} /\ BootTasks["VOTE"].run = "none"
    /\ BootPhase = "WARMUP" =>
          BootTasks["LIST"].run = "Ready.List" /\ BootTasks["NEXT"].run = "none"
    /\ BootPhase = "DEAD" =>
          /\ BootTasks["LIST"].run = "none"
          /\ BootTasks["NEXT"].run = "RunState" /\ BootTasks["NEXT"].from = "DEAD"
  <1>1. NoTasks \in TaskTable /\ \A s \in Slots : NoTasks[s].run = "none"
    BY DEF NoTasks, Idle, TaskTable, TaskType, Callbacks
  <1>2. BootTasks["VOTE"].run = "none"
    BY BootSlots DEF Exists
  <1>3. CASE BootPhase = "WARMUP" /\ BootTasks = ReadyLoad(NoTasks, "WARMUP")
    BY <1>1, <1>2, <1>3, ReadyLoadSlots, SlotNames
  <1>4. CASE BootPhase = "DEAD" /\ BootTasks = ArmNext(NoTasks, AutoStartDelay, "DEAD")
    BY <1>1, <1>2, <1>4, ArmNextSlots, SlotNames
  <1> QED
    BY <1>3, <1>4 DEF BootPhase, BootTasks

LEMMA BootOrdered ==
    ASSUME state' = BootPhase, task' = BootTasks, ~picking', voteTeam' = VoteTeamType,
           BootPhase = "WARMUP" => ready'
    PROVE  Ordered'
  BY BootTimers
     DEF Ordered, NextOrder, SetupOrder, ReadyOrder, AttendanceOrder, Exists, InMatch, Live

\* No vote is about sides or overtime, and the others leave the setup to RunState.
LEMMA VoteStopOrdered == ASSUME Orderly, OrderlyInv, VoteStop PROVE Ordered'
  <1>0. Exists(task, "VOTE")
    BY DEF VoteStop, VoteMapStop, VoteTeamStop, VoteOvertimeStop, KnifeVoteEnd, VoteOpen, Exists
  <1>1. /\ state = "START" /\ ~picking /\ ~Exists(task, "NEXT") /\ ~ready
        /\ task["VOTE"].run \in {"VoteMap.Stop", "VoteTeam.Stop"}
        /\ task["LIST"].run # "Ready.List"
    BY <1>0, OrderedParts DEF Ordered, SetupOrder, ReadyOrder
  <1>2. ~VoteOvertimeStop /\ ~KnifeVoteEnd
    BY <1>1 DEF VoteOvertimeStop, KnifeVoteEnd, VoteOpen
  <1>3. /\ VoteClosed \in TaskTable /\ VoteAndListClosed \in TaskTable
        /\ Clean(VoteClosed) /\ Clean(VoteAndListClosed)
    BY <1>1, OrderedParts, ClosedType, ClosedSlots, SlotNames DEF Clean, Exists
  <1>4. CASE VoteMapStop
    <2>1. /\ UNCHANGED <<state, ready, picking, voteTeam, inGame>>
          /\ \/ task' = ChangelevelDelay(VoteClosed, state)
             \/ task' = Create(VoteAndListClosed, "NEXT", "VoteMap.Fail", 0, 5, state)
      BY <1>4 DEF VoteMapStop, setupVars
    <2>2. CASE task' = ChangelevelDelay(VoteClosed, state)
      <3>1. /\ task'["VOTE"] = VoteClosed["VOTE"] /\ task'["LIST"] = VoteClosed["LIST"]
            /\ task'["NEXT"] = VoteClosed["NEXT"]
        BY <1>3, <2>2, ChangelevelSlots, SlotNames
      <3>2. /\ task'["NEXT"].run = "none" /\ task'["VOTE"].run = "none"
            /\ task'["LIST"].run # "Ready.List"
        BY <1>3, <3>1 DEF Clean, Exists
      <3> QED
        BY <1>1, <2>1, <3>2, OrderedParts
           DEF Ordered, NextOrder, SetupOrder, ReadyOrder, AttendanceOrder, Exists, Live
    <2>3. CASE task' = Create(VoteAndListClosed, "NEXT", "VoteMap.Fail", 0, 5, state)
      <3>1. /\ task'["NEXT"].run = "VoteMap.Fail" /\ task'["NEXT"].from = state
            /\ task'["VOTE"] = VoteAndListClosed["VOTE"]
            /\ task'["LIST"] = VoteAndListClosed["LIST"]
        BY <1>3, <2>3, CreateSlot, SlotNames
      <3>2. task'["VOTE"].run = "none" /\ task'["LIST"].run # "Ready.List"
        BY <1>3, <3>1 DEF Clean, Exists
      <3> QED
        BY <1>1, <2>1, <3>1, <3>2, OrderedParts
           DEF Ordered, NextOrder, SetupOrder, ReadyOrder, AttendanceOrder, Exists, Live
    <2> QED
      BY <2>1, <2>2, <2>3
  <1>5. CASE VoteTeamStop
    <2>1. UNCHANGED <<state, ready, voteTeam>> /\ ready' = FALSE
      BY <1>1, <1>5, OrderedParts DEF VoteTeamStop, voteVars, AllTypes, FlowType
    <2>2. CASE \E mode \in TeamModes : SetMode(mode, VoteAndListClosed, state)
      <3>1. PICK mode \in TeamModes : SetMode(mode, VoteAndListClosed, "START")
        BY <1>1, <2>2
      <3>2. mode \in 0..5
        BY VoteAssumption
      <3>3. "StopMatch" \in Requests => inGame >= PlayersMin /\ (mode = 0 => PlayersMin <= 2)
        BY <1>1, OrderedParts DEF Orderly, Attended
      <3> QED
        BY <1>1, <1>3, <2>1, <3>1, <3>2, <3>3, OrderedParts, SetModeOrdered
    <2>3. CASE /\ task' = ArmNext(VoteAndListClosed, 3, state)
               /\ UNCHANGED <<picking, inGame>>
      <3>1. /\ task'["NEXT"].run = "RunState" /\ task'["NEXT"].from = state
            /\ task'["VOTE"] = VoteAndListClosed["VOTE"]
            /\ task'["LIST"] = VoteAndListClosed["LIST"]
        BY <1>3, <2>3, ArmNextSlots, SlotNames
      <3>2. task'["VOTE"].run = "none" /\ task'["LIST"].run # "Ready.List"
        BY <1>3, <3>1 DEF Clean, Exists
      <3> QED
        BY <1>1, <2>1, <2>3, <3>1, <3>2, OrderedParts
           DEF Ordered, NextOrder, SetupOrder, ReadyOrder, AttendanceOrder, Exists, Live
    <2> QED
      BY <1>5, <2>2, <2>3 DEF VoteTeamStop
  <1> QED
    BY <1>2, <1>4, <1>5 DEF VoteStop

LEMMA PlayerOrdered == ASSUME Orderly, OrderlyInv, Player PROVE Ordered'
  <1>1. inGame \in Nat /\ PlayersMin \in Nat
    BY OrderedParts, PlayersAssumption DEF AllTypes, ChoiceType
  <1>2. CASE /\ UNCHANGED <<state, ready, picking, voteTeam, task>> /\ inGame' = inGame + 1
    BY <1>1, <1>2, OrderedParts DEF Ordered, NextOrder, SetupOrder, ReadyOrder, AttendanceOrder
  <1>3. CASE Join
    BY <1>2, <1>3 DEF Join, voteVars
  <1>4. ASSUME NEW last \in BOOLEAN, CaptainPick(last) PROVE Ordered'
    <2> DEFINE quiet == Remove(task, "LIST")
    <2>1. /\ UNCHANGED <<state, ready, voteTeam>> /\ inGame' = inGame + 1 /\ picking
          /\ \/ ~picking' /\ task' = ArmNext(quiet, 3, state)
             \/ UNCHANGED <<picking, task>>
      BY <1>4 DEF CaptainPick, CaptainStop, voteVars
    <2>2. CASE ~picking' /\ task' = ArmNext(quiet, 3, state)
      <3>1. state = "START" /\ ~Exists(task, "VOTE")
        BY <2>1, OrderedParts DEF Ordered, SetupOrder
      <3>2. /\ quiet \in TaskTable /\ ~Exists(quiet, "LIST")
            /\ quiet["VOTE"] = task["VOTE"]
        BY OrderedParts, QuietSlots, SlotNames
      <3> HIDE DEF quiet
      <3>3. /\ task'["NEXT"].run = "RunState" /\ task'["NEXT"].from = state
            /\ task'["VOTE"] = task["VOTE"] /\ task'["LIST"] = quiet["LIST"]
        BY <2>2, <3>2, ArmNextSlots, SlotNames
      <3>4. task'["VOTE"].run = "none" /\ task'["LIST"].run = "none"
        BY <3>1, <3>2, <3>3 DEF Exists
      <3> QED
        BY <1>1, <2>1, <2>2, <3>1, <3>3, <3>4, OrderedParts
           DEF Ordered, NextOrder, SetupOrder, ReadyOrder, AttendanceOrder, Exists, Live
    <2> QED
      BY <1>2, <2>1, <2>2
  <1> QED
    BY <1>3, <1>4 DEF Player, Disconnect, Orderly

LEMMA AdminOrdered == ASSUME Orderly, OrderlyInv, Admin PROVE Ordered'
  <1>1. ~StartVoteMap /\ ~StartMatch
    BY DEF StartVoteMap, StartMatch, Orderly
  <1>2. CASE StartVoteTeam
    <2>1. EnterStart(task, FALSE, -1) /\ state = "WARMUP"
      BY <1>2 DEF StartVoteTeam
    <2>2. ~Exists(task, "NEXT") /\ ~Exists(task, "VOTE") /\ ~picking
      BY <2>1, OrderedParts DEF Ordered, NextOrder
    <2> DEFINE quiet == Remove(task, "LIST")
    <2>3. /\ quiet \in TaskTable /\ ~Exists(quiet, "LIST")
          /\ quiet["NEXT"] = task["NEXT"] /\ quiet["VOTE"] = task["VOTE"]
      BY OrderedParts, QuietSlots, SlotNames
    <2>4. "StopMatch" \notin Requests
      BY <1>2 DEF StartVoteTeam, Orderly, Attended
    <2>5. task' = OpenVote(quiet, "VoteTeam.Stop", "START")
          /\ state' = "START" /\ ready' = FALSE /\ voteTeam' = -1 /\ picking' = picking
      BY <2>1 DEF EnterStart
    <2> HIDE DEF quiet
    <2>6. /\ task'["VOTE"].run = "VoteTeam.Stop" /\ task'["LIST"].run = "Vote.List"
          /\ task'["NEXT"] = task["NEXT"]
      BY <2>3, <2>5, OpenVoteSlots, SlotNames
    <2>7. task'["NEXT"].run = "none"
      BY <2>2, <2>6 DEF Exists
    <2> QED
      BY <2>2, <2>4, <2>5, <2>6, <2>7
         DEF Ordered, NextOrder, SetupOrder, ReadyOrder, AttendanceOrder, Exists, Live
  <1>3. CASE StopMatch
    <2>1. /\ state \in InMatch /\ "StopMatch" \in Requests
          /\ EnterEnd(Remove(task, "LO3R"), ready) /\ UNCHANGED <<picking, inGame>>
      BY <1>3 DEF StopMatch
    <2>2. /\ Remove(task, "LO3R") \in TaskTable
          /\ Remove(task, "LO3R")["VOTE"] = task["VOTE"]
          /\ Remove(task, "LO3R")["LIST"] = task["LIST"]
      BY OrderedParts, RestartGoneSlots, SlotNames
    <2>3. /\ ~picking /\ ~Exists(task, "VOTE") /\ inGame >= PlayersMin
          /\ task["LIST"].run # "Ready.List"
      BY <2>1, OrderedParts DEF InMatch, Live
    <2> QED
      BY <2>1, <2>2, <2>3, OrderedParts, EndOrdered DEF Exists
  <1>4. CASE RestarPeriod
    <2>1. /\ state' = state /\ ready' = FALSE
          /\ task' = StartLO3(Remove(task, "LIST"), state)
          /\ UNCHANGED setupVars /\ state \in Live
      BY <1>4 DEF RestarPeriod, EnterPeriod, MayFail, Orderly
    <2>2. /\ state # "START" /\ ~picking /\ ~Exists(task, "VOTE")
          /\ task["NEXT"].run # "VoteMap.Fail"
          /\ "StopMatch" \in Requests => inGame >= PlayersMin
      BY <2>1, OrderedParts DEF Live, InMatch, Ordered, NextOrder
    <2> QED
      BY <2>1, <2>2, OrderedParts, LiveOrdered DEF setupVars
  <1>5. ASSUME NEW winner \in Team, EndGame(winner) PROVE Ordered'
    <2>1. state \in Live /\ EnterEnd(task, ready) /\ UNCHANGED <<picking, inGame>>
      BY <1>5 DEF EndGame
    <2>2. /\ ~picking /\ ~Exists(task, "VOTE") /\ task["LIST"].run # "Ready.List"
          /\ "StopMatch" \in Requests => inGame >= PlayersMin
      BY <2>1, OrderedParts DEF InMatch, Live
    <2> QED
      BY <2>1, <2>2, OrderedParts, EndOrdered
  <1>6. CASE ToggleReady
    <2>1. /\ state = "WARMUP" /\ UNCHANGED <<state, picking, voteTeam, inGame>>
          /\ \/ ~ready' /\ task' = Remove(task, "LIST")
             \/ task' = ReadyLoad(task, state)
      BY <1>6 DEF ToggleReady, setupVars
    <2>2. /\ task'["NEXT"] = task["NEXT"] /\ task'["VOTE"] = task["VOTE"]
          /\ task'["LIST"].run = "Ready.List" \/ (~ready' /\ ~Exists(task', "LIST"))
      BY <2>1, OrderedParts, QuietSlots, ReadyLoadSlots, SlotNames
    <2> QED
      BY <2>1, <2>2, OrderedParts
         DEF Ordered, NextOrder, SetupOrder, ReadyOrder, AttendanceOrder, Exists, Live, InMatch
  <1>7. CASE ChangeMap
    <2>1. /\ UNCHANGED <<state, ready, picking, voteTeam, inGame>>
          /\ task' = ChangelevelDelay(task, state)
      BY <1>7 DEF ChangeMap, setupVars
    <2>2. /\ task'["NEXT"] = task["NEXT"] /\ task'["VOTE"] = task["VOTE"]
          /\ task'["LIST"] = task["LIST"]
      BY <2>1, OrderedParts, ChangelevelSlots, SlotNames
    <2> QED
      BY <2>1, <2>2, OrderedParts, OrderedKept
  <1> QED
    BY <1>1, <1>2, <1>3, <1>4, <1>5, <1>6, <1>7 DEF Admin

LEMMA OrderlyInit == ASSUME Orderly, Init PROVE OrderlyInv
  <1>1. MatchInv
    BY InitSound
  <1>2. KnifeFree
    BY DEF Init, Orderly, NoKnifeRound, KnifeFree
  <1>3. /\ state = BootPhase /\ task = BootTasks /\ ~picking /\ voteTeam = VoteTeamType
        /\ ready = (BootPhase = "WARMUP")
    BY DEF Init
  <1>4. Ordered
    BY <1>3, BootTimers
       DEF Ordered, NextOrder, SetupOrder, ReadyOrder, AttendanceOrder, Exists, InMatch, Live
  <1> QED
    BY <1>1, <1>2, <1>4 DEF OrderlyInv

LEMMA CallbackOrdered == ASSUME Orderly, OrderlyInv, Callback \/ ReadyDone PROVE Ordered'
  <1>1. CASE MapChange
    BY <1>1, BootOrdered DEF MapChange
  <1>2. CASE NextDue \/ ReadyDone
    BY <1>2, RunStateCallersOrdered
  <1>3. CASE VoteMapFail
    BY <1>3, VoteMapFailOrdered
  <1>4. CASE LO3 \/ SwapTeams
    BY <1>4, OtherTimersOrdered
  <1> QED
    BY <1>1, <1>2, <1>3, <1>4 DEF Callback

LEMMA OrderlyNext == ASSUME Orderly, OrderlyInv, Next PROVE OrderlyInv'
  <1>1. MatchInv' /\ KnifeFree'
    BY NextSound, KnifeFreeNext DEF OrderlyInv, Orderly
  <1>2. CASE EngineStep \/ Tick
    BY <1>1, <1>2, EngineOrdered DEF OrderlyInv
  <1>3. CASE RoundOver
    BY <1>1, <1>3, RoundOverOrdered DEF OrderlyInv
  <1>4. CASE Callback \/ ReadyDone
    BY <1>1, <1>4, CallbackOrdered DEF OrderlyInv
  <1>5. CASE VoteStop
    BY <1>1, <1>5, VoteStopOrdered DEF OrderlyInv
  <1>6. CASE Player
    BY <1>1, <1>6, PlayerOrdered DEF OrderlyInv
  <1>7. CASE Admin
    BY <1>1, <1>7, AdminOrdered DEF OrderlyInv
  <1> QED
    BY <1>2, <1>3, <1>4, <1>5, <1>6, <1>7 DEF Next

LEMMA OrderlyStutter == ASSUME OrderlyInv, UNCHANGED vars PROVE OrderlyInv'
  <1>1. MatchInv'
    BY StutterSound DEF OrderlyInv
  <1>2. KnifeFree' /\ Ordered'
    BY DEF OrderlyInv, KnifeFree, Ordered, NextOrder, SetupOrder, ReadyOrder, AttendanceOrder,
           vars
  <1> QED
    BY <1>1, <1>2 DEF OrderlyInv

LEMMA OrderlyInvariant == ASSUME Orderly PROVE Spec => []OrderlyInv
  <1>1. Init => OrderlyInv
    BY OrderlyInit
  <1>2. OrderlyInv /\ [Next]_vars => OrderlyInv'
    BY OrderlyNext, OrderlyStutter
  <1> QED
    BY <1>1, <1>2, PTL DEF Spec

\* The timer that will call RunState was armed by the phase it will leave: whatever ends the
\* votes, the captains, the rounds or the match, none outlives its phase to cut short the
\* next.  Leavers, a forced start, a map vote during the match, a knife round or an overtime
\* vote do leave such a timer behind.
THEOREM NextNeverStale == ASSUME Orderly PROVE Spec => []NextIsFresh
  <1>1. OrderlyInv => NextIsFresh
    BY DEF OrderlyInv, Ordered, NextOrder, NextIsFresh
  <1> QED
    BY <1>1, OrderlyInvariant, PTL

\* While the ready system runs before the match or at halftime, CReady::List is in its slot:
\* no vote list, captain list or restart has taken the slot from it.
THEOREM ReadyNeverForgotten == ASSUME Orderly PROVE Spec => []ReadyIsPolled
  <1>1. OrderlyInv => ReadyIsPolled
    BY DEF OrderlyInv, Ordered, ReadyOrder, ReadyIsPolled
  <1> QED
    BY <1>1, OrderlyInvariant, PTL

(* ---------------- points and those who won them, again -------------------- *)

\* A new match clears both, and names the rosters by their sides.
LEMMA FollowsFresh == ASSUME NEW t, ClearPeriod("FIRST_HALF", t) PROVE Follows'
  BY DEF ClearPeriod, Cleared, Follows, NoScore, NoCredit, Playing, Other, Roster, Team

\* RunState comes to a match from the setup, where it clears, or from within.
LEMMA RunStateFollows ==
    ASSUME state \in Phases, ScoreFollowsRoster, NEW tk, NEW rdy, RunState(tk, rdy)
    PROVE  ScoreFollowsRoster'
  <1>1. CASE NextPhase \in {"WARMUP", "START", "END"}
    <2>1. state' \in {"WARMUP", "START", "END"}
      BY <1>1 DEF RunState, EnterWarmup, EnterStart, EnterEnd
    <2> QED
      BY <2>1 DEF ScoreFollowsRoster, InMatch, Live
  <1>2. CASE NextPhase = "FIRST_HALF"
    BY <1>2, FollowsFresh DEF RunState, ScoreFollowsRoster, Follows
  <1>3. CASE NextPhase \in {"HALFTIME", "SECOND_HALF", "OVERTIME"}
    <2>1. state \in InMatch
      BY <1>3 DEF NextPhase, Phases, InMatch, Live
    <2>2. UNCHANGED <<score, credit, rosterT>>
      BY <1>3 DEF RunState, scoreVars
    <2> QED
      BY <2>1, <2>2, FollowsKept DEF ScoreFollowsRoster, Follows
  <1> QED
    BY <1>1, <1>2, <1>3 DEF RunState

\* Steps that do not come to a match, and leave the points where they are if it is on.
LEMMA FollowsInMatch ==
    ASSUME ScoreFollowsRoster, state' \in InMatch => state \in InMatch,
           state \in InMatch /\ Follows => Follows'
    PROVE  ScoreFollowsRoster'
  BY DEF ScoreFollowsRoster, Follows

LEMMA CallbackFollows ==
    ASSUME OrderlyInv, ScoreFollowsRoster, Callback \/ ReadyDone
    PROVE  ScoreFollowsRoster'
  <1>0. ScoreType /\ rosterT \in Roster /\ state \in Phases
    BY DEF OrderlyInv, MatchInv, AllTypes, ScoreType, FlowType
  <1>1. CASE NextDue \/ ReadyDone
    BY <1>0, <1>1, RunStateFollows DEF NextDue, ReadyDone
  <1>2. CASE VoteMapFail
    <2>1. state = "START"
      BY <1>2 DEF VoteMapFail, OrderlyInv, Ordered, NextOrder
    <2>2. RunState(Remove(task, "NEXT"), ready) \/ state' = state
      BY <1>2 DEF VoteMapFail
    <2>3. CASE state' = state
      BY <2>1, <2>3 DEF ScoreFollowsRoster, InMatch, Live
    <2> QED
      BY <1>0, <2>2, <2>3, RunStateFollows
  <1>3. CASE LO3 \/ SwapTeams
    <2>1. state' = state
      BY <1>3 DEF LO3, SwapTeams
    <2> QED
      BY <1>0, <1>3, <2>1, FollowsLO3, FollowsSwap, FollowsInMatch
  <1>4. CASE MapChange
    <2>1. state' \notin InMatch
      BY <1>4 DEF MapChange, BootPhase, InMatch, Live
    <2> QED
      BY <2>1 DEF ScoreFollowsRoster
  <1> QED
    BY <1>1, <1>2, <1>3, <1>4 DEF Callback

LEMMA AdminFollows ==
    ASSUME Orderly, OrderlyInv, ScoreFollowsRoster, Admin
    PROVE  ScoreFollowsRoster'
  <1>0. ScoreType /\ rosterT \in Roster
    BY DEF OrderlyInv, MatchInv, AllTypes, ScoreType
  <1>1. CASE StartVoteMap \/ StartMatch \/ ToggleReady \/ ChangeMap
    <2>1. state' = state /\ UNCHANGED <<score, credit, rosterT>>
      BY <1>1 DEF StartVoteMap, StartMatch, ToggleReady, ChangeMap, scoreVars
    <2> QED
      BY <2>1, FollowsKept, FollowsInMatch
  <1>2. CASE StartVoteTeam \/ StopMatch \/ \E winner \in Team : EndGame(winner)
    <2>1. state' \in {"START", "END"}
      BY <1>2 DEF StartVoteTeam, EnterStart, StopMatch, EndGame, EnterEnd
    <2> QED
      BY <2>1 DEF ScoreFollowsRoster, InMatch, Live
  <1>3. CASE RestarPeriod
    <2>1. /\ state \in Live /\ state' = state /\ ClearPeriod(state, rosterT)
      BY <1>3 DEF RestarPeriod, EnterPeriod, MayFail, Orderly
    <2> QED
      BY <1>0, <2>1, FollowsCleared, FollowsInMatch
  <1> QED
    BY <1>1, <1>2, <1>3 DEF Admin

LEMMA FollowsStep ==
    ASSUME Orderly, OrderlyInv, ScoreFollowsRoster, [Next]_vars
    PROVE  ScoreFollowsRoster'
  <1>0. ScoreType /\ rosterT \in Roster /\ ~knife
    BY DEF OrderlyInv, MatchInv, AllTypes, ScoreType, KnifeFree
  <1>1. CASE EngineStep \/ Tick \/ Player \/ UNCHANGED vars
    <2>1. state' = state /\ UNCHANGED <<score, credit, rosterT>>
      BY <1>1 DEF EngineStep, RoundRestart, FreezeEnd, Tick, Player, Join, Disconnect,
                  CaptainPick, Orderly, scoreVars, vars
    <2> QED
      BY <2>1, FollowsKept, FollowsInMatch
  <1>2. CASE RoundOver
    <2>1. state' = state
      BY <1>0, <1>2 DEF RoundOver, RoundEnd, KnifeRoundFailed
    <2> QED
      BY <1>0, <1>2, <2>1, FollowsRound, FollowsInMatch
  <1>3. CASE Callback \/ ReadyDone
    BY <1>3, CallbackFollows
  <1>4. CASE VoteStop
    <2>1. Exists(task, "VOTE")
      BY <1>4 DEF VoteStop, VoteMapStop, VoteTeamStop, VoteOvertimeStop, KnifeVoteEnd, VoteOpen,
                  Exists
    <2>2. state = "START" /\ task["VOTE"].run \in {"VoteMap.Stop", "VoteTeam.Stop"}
      BY <2>1 DEF OrderlyInv, Ordered, SetupOrder
    <2>3. state' = "START"
      BY <1>4, <2>1, <2>2 DEF VoteStop, VoteMapStop, VoteTeamStop, VoteOvertimeStop, KnifeVoteEnd,
                              VoteOpen
    <2> QED
      BY <2>3 DEF ScoreFollowsRoster, InMatch, Live
  <1>5. CASE Admin
    BY <1>5, AdminFollows
  <1> QED
    BY <1>1, <1>2, <1>3, <1>4, <1>5 DEF Next

\* However the teams were chosen - captains, shuffles, a vote, a swap - the points of a match
\* follow those who won them: the choice is over before the first point is counted.
THEOREM PointsFollowAnyTeams == ASSUME Orderly PROVE Spec => []ScoreFollowsRoster
  <1>1. Init => ScoreFollowsRoster
    BY FollowsInit DEF Follows, ScoreFollowsRoster
  <1>2. OrderlyInv /\ ScoreFollowsRoster /\ [Next]_vars => ScoreFollowsRoster'
    BY FollowsStep
  <1> QED
    BY <1>1, <1>2, OrderlyInvariant, PTL DEF Spec

(* ---------------------- the schedule of a match -------------------------- *)

\* The engine's times are those of the game, and no period is restarted by request.
Timed ==
    /\ FreezeTime >= 2 /\ RoundDelay >= 3 /\ PlayRounds % 2 = 0
    /\ "RestartPeriod" \notin Requests

Halves == {"FIRST_HALF", "SECOND_HALF"}

\* No round is played within d seconds.
Calm(d) ==
    \/ game \in {"over", "reset"} /\ gameIn + FreezeTime > d
    \/ game = "freeze" /\ gameIn > d

\* No round is played before the last restart, nor before RunState leaves a half.
CalmBefore ==
    /\ state \in Live /\ Exists(task, "LO3R") => task["LO3R"].left <= 4 /\ Calm(task["LO3R"].left)
    /\ state \in Halves /\ Exists(task, "NEXT") =>
          task["NEXT"].left <= RoundDelay /\ Calm(task["NEXT"].left)

\* A half that is restarting has no rounds, and RunState is not armed.
Blank ==
    state \in Halves /\ Exists(task, "LO3R") => round[state] = 0 /\ ~Exists(task, "NEXT")

\* The points of the regular time.
Regular(t) == score["FIRST_HALF"][t] + score["SECOND_HALF"][t]
Level == \A t \in Team : Regular(t) = Half
Open == \A t \in Team : Regular(t) <= Half
Won == \E t \in Team : Regular(t) > Half /\ \A u \in Team \ {t} : Regular(u) <= Half

FirstHalfDone ==
    round["FIRST_HALF"] = Half /\ round["SECOND_HALF"] = 0 /\ round["OVERTIME"] = 0

\* How far the match is, by phase: RunState is armed exactly when a half has run its rounds.
FirstTally ==
    state = "FIRST_HALF" =>
        /\ round["SECOND_HALF"] = 0 /\ round["OVERTIME"] = 0
        /\ IF Exists(task, "NEXT") THEN round["FIRST_HALF"] = Half ELSE round["FIRST_HALF"] < Half

SecondTally ==
    state = "SECOND_HALF" =>
        /\ round["FIRST_HALF"] = Half /\ round["OVERTIME"] = 0
        /\ IF Exists(task, "NEXT") THEN Won \/ (OvertimeType \in {1, 2} /\ Level) ELSE Open

BreakTally == state = "HALFTIME" => Level \/ FirstHalfDone
OvertimeTally == state = "OVERTIME" => Level

Schedule == CalmBefore /\ Blank /\ FirstTally /\ SecondTally /\ BreakTally /\ OvertimeTally

TimedInv == OrderlyInv /\ Schedule

\* pug_play_rounds is even: two halves make the regular time.
LEMMA EvenHalves ==
    ASSUME Timed
    PROVE  Half \in Nat /\ Half >= 1 /\ PlayRounds = 2 * Half
  BY MatchAssumption DEF Timed, Half

LEMMA TimedParts ==
    ASSUME OrderlyInv
    PROVE  /\ ScoreType /\ GameType /\ task \in TaskTable /\ state \in Phases
           /\ \A p \in Live : /\ round[p] \in Nat
                              /\ \A t \in Team : score[p][t] \in Nat
                              /\ round[p] = score[p]["T"] + score[p]["CT"]
           /\ Live = {"FIRST_HALF", "SECOND_HALF", "OVERTIME"} /\ Team = {"T", "CT"}
           /\ RoundDelay \in Nat /\ FreezeTime \in Nat
  <1>1. AllTypes /\ RoundsAreScores
    BY DEF OrderlyInv, MatchInv
  <1>2. \A p \in Live : /\ round[p] \in Nat
                        /\ \A t \in Team : score[p][t] \in Nat
                        /\ round[p] = score[p]["T"] + score[p]["CT"]
    BY <1>1 DEF AllTypes, ScoreType, RoundsAreScores
  <1> QED
    BY <1>1, <1>2, TimeAssumption DEF AllTypes, FlowType, Live, Team

\* What moves no round, no timer of the schedule and not the engine.
LEMMA ScheduleKept ==
    ASSUME Schedule, UNCHANGED <<state, round, score, game, gameIn>>,
           task'["NEXT"] = task["NEXT"], task'["LO3R"] = task["LO3R"]
    PROVE  Schedule'
  BY DEF Schedule, CalmBefore, Calm, Blank, FirstTally, SecondTally, BreakTally, OvertimeTally,
         Level, Open, Won, Regular, FirstHalfDone, Exists

\* Outside a match nothing is scheduled.
LEMMA ScheduleOutside == ASSUME state' \notin InMatch PROVE Schedule'
  BY DEF Schedule, CalmBefore, Blank, FirstTally, SecondTally, BreakTally, OvertimeTally, InMatch,
         Live, Halves

LEMMA EngineSchedule == ASSUME Timed, TimedInv, EngineStep PROVE Schedule'
  <1>1. UNCHANGED <<state, task, round, score>>
    BY DEF EngineStep, RoundRestart, FreezeEnd, scoreVars
  <1>2. CalmBefore'
    <2>1. \A s \in {"LO3R", "NEXT"} : task[s].left \in Nat
      BY TimedParts, SlotNames DEF TimedInv, TaskTable, TaskType
    <2>2. \A d \in Nat : Calm(d) => Calm(d)'
      <3>1. CASE RoundRestart
        BY <3>1, TimedParts DEF RoundRestart, Calm, TimedInv
      <3>2. CASE FreezeEnd
        BY <3>2 DEF FreezeEnd, Calm
      <3> QED
        BY <3>1, <3>2 DEF EngineStep
    <2> QED
      BY <1>1, <2>1, <2>2 DEF TimedInv, Schedule, CalmBefore, Calm
  <1> QED
    BY <1>1, <1>2 DEF TimedInv, Schedule, Blank, FirstTally, SecondTally, BreakTally,
                      OvertimeTally, Level, Open, Won, Regular, FirstHalfDone, Exists

LEMMA TickSchedule == ASSUME TimedInv, Tick PROVE Schedule'
  <1>1. /\ UNCHANGED <<state, round, score, game>> /\ task' = Elapse(task)
        /\ gameIn' = IF gameIn > 0 THEN gameIn - 1 ELSE 0
        /\ game = "play" \/ gameIn > 0
    BY DEF Tick, scoreVars
  <1>2. \A s \in {"LO3R", "NEXT"} : /\ Exists(task, s) <=> Exists(task', s)
                                    /\ Exists(task, s) => task[s].left > 0
                                    /\ task[s].left \in Nat
                                    /\ task'[s].left = IF task[s].left > 0
                                                       THEN task[s].left - 1 ELSE 0
    <2>1. ASSUME NEW s \in {"LO3R", "NEXT"}
          PROVE  task[s].left \in Nat /\ (Exists(task, s) => task[s].left > 0)
      <3>1. s \in Slots /\ s \in OneShots
        BY SlotNames DEF OneShots
      <3>2. task[s].left \in Nat
        BY <3>1, TimedParts DEF TimedInv, TaskTable, TaskType
      <3>3. ~Due(task, s)
        BY <3>1 DEF Tick
      <3> QED
        BY <3>2, <3>3 DEF Due
    <2> QED
      BY <1>1, <2>1, TimedParts, ElapseSlots, SlotNames DEF TimedInv
  <1>3. CalmBefore'
    <2>1. CalmBefore /\ RoundDelay \in Nat /\ FreezeTime \in Nat /\ gameIn \in Nat
      BY TimedParts DEF TimedInv, Schedule, GameType, RestartType
    <2>2. ASSUME NEW s \in {"LO3R", "NEXT"}, Exists(task, s), Calm(task[s].left)
          PROVE  Calm(task[s].left)'
      BY <1>1, <1>2, <2>1, <2>2 DEF Calm
    <2>3. state \in Live /\ Exists(task, "LO3R") => task'["LO3R"].left <= 4
      BY <1>2, <2>1 DEF CalmBefore
    <2>4. state \in Halves /\ Exists(task, "NEXT") => task'["NEXT"].left <= RoundDelay
      BY <1>2, <2>1 DEF CalmBefore
    <2> QED
      BY <1>1, <1>2, <2>1, <2>2, <2>3, <2>4 DEF CalmBefore
  <1> QED
    BY <1>1, <1>2, <1>3 DEF TimedInv, Schedule, Blank, FirstTally, SecondTally, BreakTally,
                            OvertimeTally, Level, Open, Won, Regular, FirstHalfDone

\* A round that counts is played when no restart and no end of a half is near.
LEMMA PlayedIsCalm ==
    ASSUME TimedInv, NEW win, Wins(win), state \in Live
    PROVE  ~Exists(task, "LO3R") /\ (state \in Halves => ~Exists(task, "NEXT"))
  <1>1. game = "play" /\ CalmBefore
    BY DEF Wins, TimedInv, Schedule
  <1>2. \A d : ~Calm(d)
    BY <1>1 DEF Calm
  <1> QED
    BY <1>1, <1>2 DEF CalmBefore

\* What RoundEnd does to a live period that plays no knife round and votes no overtime.
LEMMA RoundParts ==
    ASSUME Orderly, Timed, TimedInv, NEW win \in Team \cup {"DRAW"}, RoundEnd(win), state \in Live
    PROVE  /\ state' = state /\ rosterT' = rosterT
           /\ round' = WithRound(win, round, state)
           /\ score' = WithPoint(win, score, state, win)
           /\ task' = IF PeriodOver(state, round', score') THEN ArmNext(task, RoundDelay, state)
                      ELSE task
           /\ game' \in {"over", "reset"} /\ gameIn' = RoundDelay
  <1>1. ~knife /\ OvertimeType # 3
    BY OrderedParts DEF TimedInv, Orderly
  <1>2. ~TieVote(state, WithPoint(win, score, state, win))
    BY <1>1 DEF TieVote
  <1> QED
    BY <1>1, <1>2 DEF RoundEnd, AfterRound, Terminate

\* The restart of the round is late enough for every timer, those it arms included.
LEMMA RoundCalm ==
    ASSUME Orderly, Timed, TimedInv, NEW win \in Team \cup {"DRAW"}, RoundEnd(win), state \in Live
    PROVE  CalmBefore' /\ task'["LO3R"] = task["LO3R"]
  <1>1. /\ state' = state /\ game' \in {"over", "reset"} /\ gameIn' = RoundDelay
        /\ task' = task \/ task' = ArmNext(task, RoundDelay, state)
    BY RoundParts
  <1>2. /\ task \in TaskTable /\ CalmBefore /\ RoundDelay \in Nat /\ FreezeTime \in Nat
        /\ RoundDelay >= 3 /\ FreezeTime >= 2
        /\ task["LO3R"].left \in Nat /\ task["NEXT"].left \in Nat
    BY TimedParts, SlotNames DEF TimedInv, Schedule, Timed, TaskTable, TaskType
  <1>3. /\ task'["LO3R"] = task["LO3R"]
        /\ task'["NEXT"] = task["NEXT"] \/ task'["NEXT"].left = RoundDelay
    BY <1>1, <1>2, ArmNextSlots, SlotNames
  <1>4. state \in Live /\ Exists(task', "LO3R") =>
            task'["LO3R"].left <= 4 /\ Calm(task["LO3R"].left)'
    BY <1>1, <1>2, <1>3 DEF CalmBefore, Calm, Exists
  <1>5. state \in Halves /\ Exists(task', "NEXT") =>
            task'["NEXT"].left <= RoundDelay /\ Calm(task["NEXT"].left)'
    BY <1>1, <1>2, <1>3 DEF CalmBefore, Calm, Exists
  <1> QED
    BY <1>1, <1>3, <1>4, <1>5 DEF CalmBefore

\* The first half: RunState is armed with the round that completes it.
LEMMA FirstHalfRound ==
    ASSUME Orderly, Timed, TimedInv, NEW win \in Team \cup {"DRAW"}, RoundEnd(win),
           state = "FIRST_HALF"
    PROVE  Schedule'
  <1>1. /\ state' = state /\ round' = WithRound(win, round, state)
        /\ task' = IF PeriodOver(state, round', score') THEN ArmNext(task, RoundDelay, state)
                   ELSE task
    BY RoundParts, TimedParts DEF TimedInv
  <1>2. /\ Blank /\ FirstTally /\ task \in TaskTable /\ round \in [Live -> Nat]
        /\ Live = {"FIRST_HALF", "SECOND_HALF", "OVERTIME"} /\ state \in Live
    BY TimedParts DEF TimedInv, Schedule, ScoreType
  <1>3. Half \in Nat /\ Half >= 1
    BY EvenHalves
  <1>4. Wins(win) => ~Exists(task, "LO3R") /\ ~Exists(task, "NEXT")
    BY <1>2, PlayedIsCalm DEF Halves
  <1>5. /\ round'["SECOND_HALF"] = 0 /\ round'["OVERTIME"] = 0
        /\ round'["FIRST_HALF"] = round["FIRST_HALF"] + IF Wins(win) THEN 1 ELSE 0
    BY <1>1, <1>2 DEF WithRound, FirstTally
  <1>6. PeriodOver(state, round', score') <=> round'["FIRST_HALF"] >= Half
    BY <1>2, <1>5 DEF PeriodOver, Rounds
  <1>7. /\ task'["LO3R"] = task["LO3R"]
        /\ Exists(task', "NEXT") <=> Exists(task, "NEXT") \/ round'["FIRST_HALF"] >= Half
    BY <1>1, <1>2, <1>6, ArmNextSlots, SlotNames
  <1>8. Blank' /\ FirstTally'
    <2>1. round["FIRST_HALF"] \in Nat
      BY <1>2
    <2>2. CASE Wins(win)
      BY <1>1, <1>2, <1>3, <1>4, <1>5, <1>7, <2>1, <2>2 DEF Blank, FirstTally, Exists
    <2>3. CASE ~Wins(win)
      BY <1>1, <1>2, <1>3, <1>5, <1>7, <2>1, <2>3 DEF Blank, FirstTally, Halves, Exists
    <2> QED
      BY <2>2, <2>3
  <1> QED
    BY <1>1, <1>2, <1>8, RoundCalm
       DEF Schedule, SecondTally, BreakTally, OvertimeTally

\* The second half: RunState is armed with the round that decides the regular time, or
\* levels it where that ends it.
LEMMA SecondHalfRound ==
    ASSUME Orderly, Timed, TimedInv, NEW win \in Team \cup {"DRAW"}, RoundEnd(win),
           state = "SECOND_HALF"
    PROVE  Schedule'
  <1>1. /\ state' = state /\ round' = WithRound(win, round, state)
        /\ score' = WithPoint(win, score, state, win)
        /\ task' = IF PeriodOver(state, round', score') THEN ArmNext(task, RoundDelay, state)
                   ELSE task
    BY RoundParts, TimedParts DEF TimedInv
  <1>2. /\ Blank /\ SecondTally /\ task \in TaskTable /\ ScoreType /\ state \in Live
        /\ Live = {"FIRST_HALF", "SECOND_HALF", "OVERTIME"} /\ Team = {"T", "CT"}
    BY TimedParts DEF TimedInv, Schedule
  <1>3. Half \in Nat /\ Half >= 1
    BY EvenHalves
  <1>4. Wins(win) => ~Exists(task, "LO3R") /\ ~Exists(task, "NEXT")
    BY <1>2, PlayedIsCalm DEF Halves
  <1>5. /\ round'["FIRST_HALF"] = Half /\ round'["OVERTIME"] = 0
        /\ ~Wins(win) => round'["SECOND_HALF"] = round["SECOND_HALF"]
    BY <1>1, <1>2 DEF WithRound, SecondTally, ScoreType
  <1>6. \A t \in Team : /\ Regular(t) \in Nat
                        /\ Regular(t)' = Regular(t) + IF Wins(win) /\ t = win THEN 1 ELSE 0
                        /\ Points(score', t) = Regular(t)'
    <2>1. \A t \in Team : score["OVERTIME"][t] = 0
      BY <1>2, TimedParts DEF SecondTally, TimedInv
    <2>2. CASE Wins(win)
      BY <1>1, <1>2, <2>1, <2>2 DEF WithPoint, Points, Regular, ScoreType, Wins
    <2>3. CASE ~Wins(win)
      BY <1>1, <1>2, <2>1, <2>3 DEF WithPoint, Points, Regular, ScoreType
    <2> QED
      BY <2>2, <2>3
  <1>7. PeriodOver(state, round', score') <=>
            \/ \E t \in Team : Regular(t)' > Half
            \/ OvertimeType \in {1, 2} /\ Level'
    BY <1>6 DEF PeriodOver, Level
  <1> DEFINE over == PeriodOver(state, round', score')
  <1>8. /\ task'["LO3R"] = task["LO3R"]
        /\ Exists(task', "NEXT") <=> Exists(task, "NEXT") \/ over
    BY <1>1, <1>2, ArmNextSlots, SlotNames DEF Exists
  <1>9. Exists(task, "LO3R") => ~over
    <2> SUFFICES ASSUME Exists(task, "LO3R") PROVE ~over
      OBVIOUS
    <2>1. ~Wins(win) /\ round["SECOND_HALF"] = 0 /\ ~Exists(task, "NEXT") /\ Open
      BY <1>2, <1>4 DEF Blank, SecondTally, Halves
    <2>2. Regular("T") + Regular("CT") = Half
      <3>1. round["FIRST_HALF"] = Half
        BY <1>2 DEF SecondTally
      <3>2. /\ score["FIRST_HALF"]["T"] + score["FIRST_HALF"]["CT"] = Half
            /\ score["SECOND_HALF"]["T"] + score["SECOND_HALF"]["CT"] = 0
        BY <1>2, <2>1, <3>1, TimedParts DEF TimedInv
      <3>3. \A p \in Live, t \in Team : score[p][t] \in Nat
        BY TimedParts DEF TimedInv
      <3> QED
        BY <1>2, <3>2, <3>3 DEF Regular
    <2> QED
      BY <1>2, <1>3, <1>6, <1>7, <2>1, <2>2 DEF Open, Level
  <1>10. Blank'
    BY <1>1, <1>2, <1>4, <1>5, <1>8, <1>9 DEF Blank, Exists
  <1> HIDE DEF over
  <1>11. IF Exists(task', "NEXT") THEN Won' \/ (OvertimeType \in {1, 2} /\ Level') ELSE Open'
    <2>1. CASE Exists(task, "NEXT")
      <3>1. Exists(task', "NEXT") /\ \A t \in Team : Regular(t)' = Regular(t)
        BY <1>4, <1>6, <1>8, <2>1
      <3>2. Won \/ (OvertimeType \in {1, 2} /\ Level)
        BY <1>2, <2>1 DEF SecondTally
      <3> QED
        BY <3>1, <3>2 DEF Won, Level
    <2>2. CASE ~Exists(task, "NEXT") /\ ~over
      BY <1>3, <1>6, <1>7, <1>8, <2>2 DEF Open, over
    <2>3. CASE ~Exists(task, "NEXT") /\ over
      <3>1. Open /\ Exists(task', "NEXT")
        BY <1>2, <1>8, <2>3 DEF SecondTally
      <3>2. ASSUME NEW t \in Team, Regular(t)' > Half PROVE Won'
        BY <1>3, <1>6, <3>1, <3>2 DEF Open, Won
      <3> QED
        BY <1>7, <2>3, <3>1, <3>2 DEF over
    <2> QED
      BY <2>1, <2>2, <2>3
  <1> QED
    BY <1>1, <1>2, <1>5, <1>10, <1>11, RoundCalm
       DEF Schedule, FirstTally, SecondTally, BreakTally, OvertimeTally

LEMMA RoundOverSchedule == ASSUME Orderly, Timed, TimedInv, RoundOver PROVE Schedule'
  <1>1. PICK win \in Team \cup {"DRAW"} : RoundEnd(win)
    BY OrderedParts DEF RoundOver, KnifeRoundFailed, TimedInv
  <1>2. state \in Phases /\ Schedule /\ Live = {"FIRST_HALF", "SECOND_HALF", "OVERTIME"}
    BY TimedParts DEF TimedInv, Schedule
  <1>3. CASE state = "OVERTIME"
    <2>1. /\ state' = state /\ score' = WithPoint(win, score, state, win)
      BY <1>1, <1>2, <1>3, RoundParts
    <2>2. \A p \in Halves : score'[p] = score[p]
      BY <1>2, <1>3, <2>1, TimedParts DEF WithPoint, ScoreType, Halves, TimedInv
    <2>3. Level'
      BY <1>2, <1>3, <2>2 DEF Schedule, OvertimeTally, Level, Regular, Halves
    <2> QED
      BY <1>1, <1>2, <1>3, <2>1, <2>3, RoundCalm
         DEF Schedule, Blank, FirstTally, SecondTally, BreakTally, OvertimeTally, Halves
  <1>4. CASE state \notin Live
    <2>1. UNCHANGED <<state, round, score>>
      BY <1>1, <1>4 DEF RoundEnd, scoreVars
    <2> QED
      BY <1>2, <1>4, <2>1
         DEF Schedule, CalmBefore, Blank, FirstTally, SecondTally, BreakTally, OvertimeTally,
             Level, Regular, FirstHalfDone, Halves
  <1> QED
    BY <1>1, <1>2, <1>3, <1>4, FirstHalfRound, SecondHalfRound

\* The rounds of the regular time are its points.
LEMMA RegularRounds ==
    ASSUME OrderlyInv
    PROVE  /\ Regular("T") + Regular("CT") = round["FIRST_HALF"] + round["SECOND_HALF"]
           /\ \A t \in Team : Regular(t) \in Nat
  <1>1. /\ \A p \in Live, t \in Team : score[p][t] \in Nat
        /\ \A p \in Live : round[p] = score[p]["T"] + score[p]["CT"]
        /\ Live = {"FIRST_HALF", "SECOND_HALF", "OVERTIME"} /\ Team = {"T", "CT"}
    BY TimedParts
  <1> QED
    BY <1>1 DEF Regular

\* A halftime leads to the second half unless the regular time is level.
LEMMA BreakPhase ==
    ASSUME Timed, TimedInv, state = "HALFTIME"
    PROVE  /\ NextPhase = "SECOND_HALF" => FirstHalfDone /\ Open
           /\ NextPhase = "OVERTIME" => Level /\ ~FirstHalfDone
  <1>1. /\ Level \/ FirstHalfDone
        /\ \A p \in Live : round[p] \in Nat
        /\ \A p \in Live, t \in Team : score[p][t] \in Nat
        /\ Live = {"FIRST_HALF", "SECOND_HALF", "OVERTIME"} /\ Team = {"T", "CT"}
    BY TimedParts DEF TimedInv, Schedule, BreakTally
  <1>2. Half \in Nat /\ Half >= 1 /\ PlayRounds = 2 * Half
    BY EvenHalves
  <1>3. /\ Regular("T") + Regular("CT") = round["FIRST_HALF"] + round["SECOND_HALF"]
        /\ \A t \in Team : Regular(t) \in Nat
    BY RegularRounds DEF TimedInv
  <1>4. Level => GetRound >= PlayRounds
    <2>1. Level => Regular("T") = Half /\ Regular("CT") = Half
      BY <1>1 DEF Level
    <2> QED
      BY <1>1, <1>2, <1>3, <2>1 DEF GetRound, Rounds
  <1>5. FirstHalfDone => GetRound < PlayRounds /\ Open
    <2>1. FirstHalfDone => GetRound = Half
      BY <1>1, <1>2 DEF FirstHalfDone, GetRound, Rounds
    <2>2. FirstHalfDone => Regular("T") + Regular("CT") = Half
      BY <1>2, <1>3 DEF FirstHalfDone
    <2>3. FirstHalfDone => Regular("T") <= Half /\ Regular("CT") <= Half
      BY <1>1, <1>2, <1>3, <2>2
    <2> QED
      BY <1>1, <1>2, <2>1, <2>3 DEF Open
  <1>6. PlayRounds \in Nat /\ GetRound \in Nat
    BY <1>1, <1>2 DEF GetRound, Rounds
  <1>7. NextPhase = IF GetRound < PlayRounds THEN "SECOND_HALF" ELSE "OVERTIME"
    BY DEF NextPhase, AfterHalftime
  <1> QED
    BY <1>1, <1>4, <1>5, <1>6, <1>7

\* SetState of a period, with the counters it begins or goes on with.
LEMMA PeriodSchedule ==
    ASSUME Timed, NEW tk \in TaskTable, ~Exists(tk, "NEXT"), NEW p \in Live, EnterPeriod(p, tk),
           p \in Halves => round'[p] = 0,
           p = "FIRST_HALF" => round'["SECOND_HALF"] = 0 /\ round'["OVERTIME"] = 0,
           p = "SECOND_HALF" => FirstHalfDone' /\ Open',
           p = "OVERTIME" => Level'
    PROVE  Schedule'
  <1> DEFINE quiet == Remove(tk, "LIST")
  <1>1. quiet \in TaskTable /\ quiet["NEXT"] = tk["NEXT"]
    BY QuietSlots, SlotNames
  <1>2. \/ state' = p /\ task' = StartLO3(quiet, p) /\ SvRestart(1)
        \/ EnterWarmup(quiet)
        \/ p # "FIRST_HALF" /\ EnterHalftime(quiet, FALSE)
    BY DEF EnterPeriod
  <1> HIDE DEF quiet
  <1>3. CASE state' = p /\ task' = StartLO3(quiet, p) /\ SvRestart(1)
    <2>1. /\ task'["LO3R"].left = 2 /\ Exists(task', "LO3R") /\ task'["NEXT"] = tk["NEXT"]
      BY <1>1, <1>3, StartLO3Slots, SlotNames
    <2>2. ~Exists(task', "NEXT")
      BY <2>1 DEF Exists
    <2>3. CalmBefore'
      BY <1>3, <2>1, <2>2, TimeAssumption DEF CalmBefore, Calm, SvRestart, Timed
    <2>4. Half \in Nat /\ Half >= 1
      BY EvenHalves
    <2>5. Blank' /\ FirstTally'
      BY <1>3, <2>2, <2>4 DEF Blank, FirstTally, Halves
    <2>6. SecondTally' /\ BreakTally' /\ OvertimeTally'
      BY <1>3, <2>2 DEF SecondTally, BreakTally, OvertimeTally, FirstHalfDone, Live
    <2> QED
      BY <2>3, <2>5, <2>6 DEF Schedule
  <1>4. CASE EnterWarmup(quiet)
    BY <1>4, ScheduleOutside DEF EnterWarmup, InMatch, Live
  <1>5. CASE p # "FIRST_HALF" /\ EnterHalftime(quiet, FALSE)
    <2>1. state' = "HALFTIME"
      BY <1>5 DEF EnterHalftime
    <2>2. Level' \/ FirstHalfDone'
      BY <1>5 DEF Live
    <2> QED
      BY <2>1, <2>2 DEF Schedule, CalmBefore, Blank, FirstTally, SecondTally, BreakTally,
                        OvertimeTally, Live, Halves
  <1> QED
    BY <1>2, <1>3, <1>4, <1>5

\* In the second half there are no points but those of the regular time.
LEMMA SecondHalfPoints ==
    ASSUME TimedInv, state = "SECOND_HALF"
    PROVE  \A t \in Team : GetScores(t) = Regular(t)
  <1>1. /\ round["OVERTIME"] = 0 /\ Live = {"FIRST_HALF", "SECOND_HALF", "OVERTIME"}
        /\ Team = {"T", "CT"} /\ \A p \in Live, t \in Team : score[p][t] \in Nat
        /\ \A p \in Live : round[p] = score[p]["T"] + score[p]["CT"]
    BY TimedParts DEF TimedInv, Schedule, SecondTally
  <1>2. \A t \in Team : score["OVERTIME"][t] = 0
    BY <1>1
  <1> QED
    BY <1>1, <1>2 DEF GetScores, Points, Regular

\* A half leads to a halftime when its rounds are played, an overtime at any time.
LEMMA HalfLeft ==
    ASSUME TimedInv, state \in Halves => Exists(task, "NEXT"), NextPhase = "HALFTIME"
    PROVE  Level \/ FirstHalfDone
  <1>1. state \in Live
    BY TimedParts DEF NextPhase, AfterHalftime, AfterSecondHalf, Phases, Live, TimedInv
  <1>2. CASE state = "FIRST_HALF"
    BY <1>2 DEF TimedInv, Schedule, FirstTally, FirstHalfDone, Halves
  <1>3. CASE state = "SECOND_HALF"
    <2>1. GetScores("T") = Half /\ GetScores("CT") = Half
      BY <1>3 DEF NextPhase, AfterSecondHalf
    <2> QED
      BY <1>3, <2>1, SecondHalfPoints DEF Level, Team
  <1>4. CASE state = "OVERTIME"
    BY <1>4 DEF TimedInv, Schedule, OvertimeTally
  <1> QED
    BY <1>1, <1>2, <1>3, <1>4 DEF Live

\* RunState follows the schedule, if the half it leaves has armed it.
LEMMA RunStateSchedule ==
    ASSUME Timed, TimedInv, NEW tk \in TaskTable, ~Exists(tk, "NEXT"),
           state \in Halves => Exists(task, "NEXT"), NEW rdy, RunState(tk, rdy)
    PROVE  Schedule'
  <1>1. CASE EnterWarmup(tk) \/ EnterStart(tk, voteMap, voteTeam) \/ EnterEnd(tk, rdy)
    <2>1. state' \in {"WARMUP", "START", "END"}
      BY <1>1 DEF EnterWarmup, EnterStart, EnterEnd
    <2> QED
      BY <2>1, ScheduleOutside DEF InMatch, Live
  <1>2. CASE ClearPeriod("FIRST_HALF", rosterT) /\ EnterPeriod("FIRST_HALF", tk)
    <2>1. round' = NoRounds /\ "FIRST_HALF" \in Live
      BY <1>2 DEF ClearPeriod, Cleared, Live
    <2>2. round'["FIRST_HALF"] = 0 /\ round'["SECOND_HALF"] = 0 /\ round'["OVERTIME"] = 0
      BY <2>1 DEF NoRounds, Live
    <2> QED
      BY <1>2, <2>1, <2>2, PeriodSchedule
  <1>3. CASE NextPhase = "HALFTIME" /\ EnterHalftime(tk, rdy) /\ UNCHANGED <<round, score>>
    <2>1. state' = "HALFTIME" /\ (Level \/ FirstHalfDone)
      BY <1>3, HalfLeft DEF EnterHalftime
    <2>2. Level' \/ FirstHalfDone'
      BY <1>3, <2>1 DEF Level, Regular, FirstHalfDone
    <2> QED
      BY <2>1, <2>2 DEF Schedule, CalmBefore, Blank, FirstTally, SecondTally, BreakTally,
                        OvertimeTally, Live, Halves
  <1>4. CASE /\ NextPhase \in {"SECOND_HALF", "OVERTIME"} /\ EnterPeriod(NextPhase, tk)
             /\ UNCHANGED <<round, score>>
    <2>1. state = "HALFTIME" /\ NextPhase \in Live
      BY <1>4, TimedParts DEF NextPhase, AfterHalftime, AfterSecondHalf, Phases, Live, TimedInv
    <2>2. /\ NextPhase = "SECOND_HALF" => FirstHalfDone' /\ Open'
          /\ NextPhase = "OVERTIME" => Level'
      BY <1>4, <2>1, BreakPhase DEF Level, Open, Regular, FirstHalfDone
    <2>3. NextPhase = "SECOND_HALF" => round'["SECOND_HALF"] = 0
      BY <2>2 DEF FirstHalfDone
    <2> QED
      BY <1>4, <2>1, <2>2, <2>3, PeriodSchedule DEF Halves
  <1> QED
    BY <1>1, <1>2, <1>3, <1>4 DEF RunState, scoreVars

\* The callbacks of NEXT and LIST: a half is left by the former alone.
LEMMA CallersSchedule ==
    ASSUME Timed, TimedInv, NextDue \/ ReadyDone
    PROVE  Schedule'
  <1>1. task \in TaskTable /\ OrderlyInv
    BY TimedParts DEF TimedInv
  <1>2. CASE NextDue
    <2> DEFINE tk == Remove(task, "NEXT")
    <2>1. /\ tk \in TaskTable /\ ~Exists(tk, "NEXT") /\ Exists(task, "NEXT")
          /\ RunState(tk, ready)
      BY <1>1, <1>2, NextGoneSlots DEF NextDue, Due
    <2> HIDE DEF tk
    <2> QED
      BY <2>1, RunStateSchedule
  <1>3. CASE ReadyDone
    <2> DEFINE tk == Remove(task, "LIST")
    <2>1. task["LIST"].run = "Ready.List" /\ RunState(tk, FALSE)
      BY <1>3 DEF ReadyDone
    <2>2. state \in {"WARMUP", "HALFTIME"} /\ ~Exists(task, "NEXT")
      BY <1>1, <2>1 DEF OrderlyInv, Ordered, ReadyOrder, NextOrder
    <2>3. tk \in TaskTable /\ tk["NEXT"] = task["NEXT"]
      BY <1>1, QuietSlots, SlotNames
    <2> HIDE DEF tk
    <2>4. ~Exists(tk, "NEXT") /\ state \notin Halves
      BY <2>2, <2>3 DEF Exists, Halves
    <2> QED
      BY <2>1, <2>3, <2>4, RunStateSchedule
  <1> QED
    BY <1>2, <1>3

LEMMA VoteMapFailSchedule == ASSUME Timed, TimedInv, VoteMapFail PROVE Schedule'
  <1>1. state = "START" /\ task \in TaskTable
    BY TimedParts DEF TimedInv, OrderlyInv, Ordered, NextOrder, VoteMapFail
  <1> DEFINE tk == Remove(task, "NEXT")
  <1>2. /\ tk \in TaskTable /\ ~Exists(tk, "NEXT")
        /\ RunState(tk, ready) \/ state' = state
    BY <1>1, NextGoneSlots DEF VoteMapFail
  <1> HIDE DEF tk
  <1>3. CASE RunState(tk, ready)
    BY <1>1, <1>2, <1>3, RunStateSchedule DEF Halves
  <1>4. CASE state' = state
    BY <1>1, <1>4, ScheduleOutside DEF InMatch, Live
  <1> QED
    BY <1>2, <1>3, <1>4

\* Two more restarts, and then the period is live with a clean slate.
LEMMA LO3Schedule == ASSUME Timed, TimedInv, LO3 PROVE Schedule'
  <1> DEFINE tk == Remove(task, "LO3R")
             n == task["LO3R"].arg
  <1>1. /\ task \in TaskTable /\ ScoreType /\ Schedule /\ state' = state /\ OrderlyInv
        /\ Live = {"FIRST_HALF", "SECOND_HALF", "OVERTIME"} /\ Team = {"T", "CT"}
        /\ Exists(task, "LO3R") /\ RoundDelay \in Nat /\ FreezeTime \in Nat
    BY TimedParts DEF TimedInv, LO3, Due
  <1>2. tk \in TaskTable /\ ~Exists(tk, "LO3R") /\ tk["NEXT"] = task["NEXT"]
    BY <1>1, RestartGoneSlots, SlotNames
  <1>3. n \in 0..4
    BY <1>1, SlotNames DEF TaskTable, TaskType
  <1> HIDE DEF tk
  <1>4. CASE n <= 3
    <2>1. /\ UNCHANGED <<round, score>> /\ game' = "reset" /\ gameIn' = n
          /\ task' = Create(tk, "LO3R", "LO3", n + 1, n + 1, state)
      BY <1>4 DEF LO3, SvRestart, scoreVars, tk
    <2>2. /\ task'["LO3R"].left = n + 1 /\ task'["LO3R"].run = "LO3"
          /\ task'["NEXT"] = task["NEXT"]
      <3> HIDE DEF n
      <3> QED
        BY <1>2, <2>1, CreateSlot, SlotNames
    <2>3. state \in Halves => ~Exists(task, "NEXT") /\ round[state] = 0
      BY <1>1 DEF Schedule, Blank
    <2>4. CalmBefore'
      <3> HIDE DEF n
      <3> QED
        BY <1>1, <1>3, <1>4, <2>1, <2>2, <2>3 DEF CalmBefore, Calm, Timed, Exists
    <2>5. Blank'
      BY <1>1, <2>1, <2>2, <2>3 DEF Blank, Exists
    <2> QED
      BY <1>1, <2>1, <2>2, <2>4, <2>5
         DEF Schedule, FirstTally, SecondTally, BreakTally, OvertimeTally, Level, Open, Won,
             Regular, FirstHalfDone, Exists
  <1>5. CASE n > 3 /\ state \notin Live
    <2>1. UNCHANGED <<round, score, game, gameIn>> /\ task' = tk
      BY <1>3, <1>5 DEF LO3, scoreVars, gameVars, tk
    <2> QED
      BY <1>1, <1>5, <2>1
         DEF Schedule, CalmBefore, Blank, FirstTally, SecondTally, BreakTally, OvertimeTally,
             Level, Regular, FirstHalfDone, Halves
  <1>6. CASE n > 3 /\ state \in Live
    <2>1. /\ round' = [round EXCEPT ![state] = 0]
          /\ score' = [score EXCEPT ![state] = NoScore[state]]
          /\ UNCHANGED <<game, gameIn>> /\ task' = tk
      BY <1>3, <1>6 DEF LO3, gameVars, tk
    <2>2. state \in Halves => ~Exists(task, "NEXT") /\ ~Exists(task', "NEXT")
      BY <1>1, <1>2, <2>1 DEF Schedule, Blank, Exists
    <2>3. CalmBefore' /\ Blank'
      BY <1>1, <1>2, <2>1, <2>2 DEF CalmBefore, Blank, Exists
    <2>4. Half \in Nat /\ Half >= 1
      BY EvenHalves
    <2>5. FirstTally'
      <3> SUFFICES ASSUME state = "FIRST_HALF" PROVE FirstTally'
        BY <1>1 DEF FirstTally
      <3>1. /\ round["SECOND_HALF"] = 0 /\ round["OVERTIME"] = 0 /\ round \in [Live -> Nat]
        BY <1>1 DEF Schedule, FirstTally, ScoreType
      <3> QED
        BY <1>1, <2>1, <2>2, <2>4, <3>1 DEF FirstTally, Halves
    <2>6. SecondTally'
      <3> SUFFICES ASSUME state = "SECOND_HALF" PROVE SecondTally'
        BY <1>1 DEF SecondTally
      <3>1. /\ round["FIRST_HALF"] = Half /\ round["OVERTIME"] = 0 /\ round \in [Live -> Nat]
            /\ Open /\ ~Exists(task', "NEXT")
        BY <1>1, <2>2 DEF Schedule, SecondTally, ScoreType, Halves
      <3>2. \A t \in Team : Regular(t)' <= Regular(t) /\ Regular(t)' \in Nat /\ Regular(t) \in Nat
        <4>1. \A t \in Team : /\ score'["SECOND_HALF"][t] = 0
                              /\ score'["FIRST_HALF"][t] = score["FIRST_HALF"][t]
                              /\ score["FIRST_HALF"][t] \in Nat /\ score["SECOND_HALF"][t] \in Nat
          BY <1>1, <2>1 DEF ScoreType, NoScore
        <4> QED
          BY <4>1 DEF Regular
      <3>3. Open'
        BY <2>4, <3>1, <3>2 DEF Open
      <3> QED
        BY <1>1, <2>1, <3>1, <3>3 DEF SecondTally
    <2>7. OvertimeTally'
      <3> SUFFICES ASSUME state = "OVERTIME" PROVE Level'
        BY <1>1 DEF OvertimeTally
      <3>1. \A t \in Team : Regular(t)' = Regular(t)
        BY <1>1, <2>1 DEF ScoreType, Regular
      <3> QED
        BY <1>1, <3>1 DEF Schedule, OvertimeTally, Level
    <2> QED
      BY <1>1, <1>6, <2>3, <2>5, <2>6, <2>7 DEF Schedule, BreakTally
  <1> QED
    BY <1>3, <1>4, <1>5, <1>6

\* The sides change, the sum of the rounds and the schedule do not.
LEMMA SwapTeamsSchedule == ASSUME Timed, TimedInv, SwapTeams PROVE Schedule'
  <1>1. /\ UNCHANGED <<state, round, game, gameIn>> /\ task' = Remove(task, "EXEC")
        /\ score' = score \/ score' = SwapScores(score)
    BY DEF SwapTeams, gameVars
  <1>2. task'["NEXT"] = task["NEXT"] /\ task'["LO3R"] = task["LO3R"]
    BY <1>1, TimedParts, RemoveSlot, SlotNames DEF TimedInv
  <1>3. CASE score' = score
    BY <1>1, <1>2, <1>3, ScheduleKept DEF TimedInv
  <1>4. CASE score' = SwapScores(score)
    <2>1. Regular("T")' = Regular("CT") /\ Regular("CT")' = Regular("T")
      BY <1>4 DEF SwapScores, Regular, Live, Team
    <2>2. (Level => Level') /\ (Open => Open') /\ (Won => Won')
      <3>1. Team = {"T", "CT"}
        BY DEF Team
      <3>2. Level => Level'
        BY <2>1, <3>1 DEF Level
      <3>3. Open => Open'
        BY <2>1, <3>1 DEF Open
      <3>4. Won => Won'
        BY <2>1, <3>1 DEF Won
      <3> QED
        BY <3>2, <3>3, <3>4
    <2>3. CalmBefore' /\ Blank' /\ FirstTally'
      BY <1>1, <1>2 DEF TimedInv, Schedule, CalmBefore, Calm, Blank, FirstTally, Exists
    <2> QED
      BY <1>1, <1>2, <2>2, <2>3
         DEF TimedInv, Schedule, SecondTally, BreakTally, OvertimeTally, FirstHalfDone, Exists
  <1> QED
    BY <1>1, <1>3, <1>4

LEMMA CallbackSchedule == ASSUME Timed, TimedInv, Callback \/ ReadyDone PROVE Schedule'
  <1>1. CASE MapChange
    <2>1. state' = BootPhase
      BY <1>1 DEF MapChange
    <2> QED
      BY <2>1, BootTimers, ScheduleOutside DEF InMatch, Live
  <1>2. CASE NextDue \/ ReadyDone
    BY <1>2, CallersSchedule
  <1>3. CASE VoteMapFail \/ LO3 \/ SwapTeams
    BY <1>3, VoteMapFailSchedule, LO3Schedule, SwapTeamsSchedule
  <1> QED
    BY <1>1, <1>2, <1>3 DEF Callback

\* The votes of an orderly match are those of its setup, and captains pick there too.
LEMMA VoteStopSchedule == ASSUME TimedInv, VoteStop PROVE Schedule'
  <1>1. Exists(task, "VOTE")
    BY DEF VoteStop, VoteMapStop, VoteTeamStop, VoteOvertimeStop, KnifeVoteEnd, VoteOpen, Exists
  <1>2. state = "START" /\ task["VOTE"].run \in {"VoteMap.Stop", "VoteTeam.Stop"}
    BY <1>1 DEF TimedInv, OrderlyInv, Ordered, SetupOrder
  <1>3. state' = "START"
    BY <1>2 DEF VoteStop, VoteMapStop, VoteTeamStop, VoteOvertimeStop, KnifeVoteEnd, VoteOpen
  <1> QED
    BY <1>3, ScheduleOutside DEF InMatch, Live

LEMMA PlayerSchedule == ASSUME Orderly, TimedInv, Player PROVE Schedule'
  <1>1. CASE Join
    BY <1>1, ScheduleKept DEF Join, TimedInv, scoreVars, gameVars
  <1>2. ASSUME NEW last \in BOOLEAN, CaptainPick(last) PROVE Schedule'
    <2>1. state = "START" /\ state' = state
      BY <1>2, OrderedParts DEF CaptainPick, TimedInv
    <2> QED
      BY <2>1, ScheduleOutside DEF InMatch, Live
  <1> QED
    BY <1>1, <1>2 DEF Player, Disconnect, Orderly

LEMMA AdminSchedule == ASSUME Orderly, Timed, TimedInv, Admin PROVE Schedule'
  <1>1. ~StartVoteMap /\ ~StartMatch /\ ~RestarPeriod
    BY DEF StartVoteMap, StartMatch, RestarPeriod, Orderly, Timed
  <1>2. CASE StartVoteTeam \/ StopMatch \/ \E winner \in Team : EndGame(winner)
    <2>1. state' \in {"START", "END"}
      BY <1>2 DEF StartVoteTeam, EnterStart, StopMatch, EndGame, EnterEnd
    <2> QED
      BY <2>1, ScheduleOutside DEF InMatch, Live
  <1>3. CASE ToggleReady
    <2>1. state' = "WARMUP"
      BY <1>3 DEF ToggleReady
    <2> QED
      BY <2>1, ScheduleOutside DEF InMatch, Live
  <1>4. CASE ChangeMap
    <2>1. /\ UNCHANGED <<state, round, score, game, gameIn>>
          /\ task' = ChangelevelDelay(task, state)
      BY <1>4 DEF ChangeMap, scoreVars, gameVars
    <2>2. task'["NEXT"] = task["NEXT"] /\ task'["LO3R"] = task["LO3R"]
      BY <2>1, TimedParts, ChangelevelSlots, SlotNames DEF TimedInv
    <2> QED
      BY <2>1, <2>2, ScheduleKept DEF TimedInv
  <1> QED
    BY <1>1, <1>2, <1>3, <1>4 DEF Admin

LEMMA ScheduleNext == ASSUME Orderly, Timed, TimedInv, Next PROVE Schedule'
  <1>1. CASE EngineStep \/ Tick \/ RoundOver
    BY <1>1, EngineSchedule, TickSchedule, RoundOverSchedule
  <1>2. CASE Callback \/ ReadyDone
    BY <1>2, CallbackSchedule
  <1>3. CASE VoteStop
    BY <1>3, VoteStopSchedule
  <1>4. CASE Player \/ Admin
    BY <1>4, PlayerSchedule, AdminSchedule
  <1> QED
    BY <1>1, <1>2, <1>3, <1>4 DEF Next

LEMMA TimedInit == ASSUME Orderly, Init PROVE TimedInv
  <1>1. state \notin InMatch
    BY DEF Init, BootPhase, InMatch, Live
  <1>2. Schedule
    BY <1>1 DEF Schedule, CalmBefore, Blank, FirstTally, SecondTally, BreakTally, OvertimeTally,
                InMatch, Live, Halves
  <1> QED
    BY <1>2, OrderlyInit DEF TimedInv

LEMMA TimedNext == ASSUME Orderly, Timed, TimedInv, [Next]_vars PROVE TimedInv'
  <1>1. CASE Next
    BY <1>1, OrderlyNext, ScheduleNext DEF TimedInv
  <1>2. CASE UNCHANGED vars
    <2>1. OrderlyInv'
      BY <1>2, OrderlyStutter DEF TimedInv
    <2>2. UNCHANGED <<state, round, score, game, gameIn>> /\ task' = task
      BY <1>2 DEF vars
    <2> QED
      BY <2>1, <2>2, ScheduleKept DEF TimedInv
  <1> QED
    BY <1>1, <1>2

LEMMA TimedInvariant == ASSUME Orderly, Timed PROVE Spec => []TimedInv
  <1>1. Init => TimedInv
    BY TimedInit
  <1>2. TimedInv /\ [Next]_vars => TimedInv'
    BY TimedNext
  <1> QED
    BY <1>1, <1>2, PTL DEF Spec

\* Only RunState takes an orderly match to another of its phases.
LEMMA Advances ==
    ASSUME Orderly, Timed, TimedInv, Next, state' # state, state' \in InMatch
    PROVE  NextDue \/ ReadyDone \/ VoteMapFail
  <1>1. ~EngineStep /\ ~Tick
    BY DEF EngineStep, RoundRestart, FreezeEnd, Tick
  <1>2. ~RoundOver
    BY OrderedParts DEF RoundOver, RoundEnd, KnifeRoundFailed, TimedInv
  <1>3. ~LO3 /\ ~SwapTeams
    BY DEF LO3, SwapTeams
  <1>4. ~MapChange
    BY BootTimers DEF MapChange, InMatch, Live
  <1>5. ~VoteStop
    <2> SUFFICES ASSUME VoteStop PROVE FALSE
      OBVIOUS
    <2>1. Exists(task, "VOTE")
      BY DEF VoteStop, VoteMapStop, VoteTeamStop, VoteOvertimeStop, KnifeVoteEnd, VoteOpen, Exists
    <2>2. task["VOTE"].run \in {"VoteMap.Stop", "VoteTeam.Stop"}
      BY <2>1 DEF TimedInv, OrderlyInv, Ordered, SetupOrder
    <2> QED
      BY <2>2 DEF VoteStop, VoteMapStop, VoteTeamStop, VoteOvertimeStop, KnifeVoteEnd, VoteOpen
  <1>6. ~Player
    BY DEF Player, Join, Disconnect, CaptainPick, Orderly
  <1>7. ~Admin
    <2>1. ~StartVoteMap /\ ~StartMatch /\ ~RestarPeriod
      BY DEF StartVoteMap, StartMatch, RestarPeriod, Orderly, Timed
    <2>2. ~StartVoteTeam /\ ~StopMatch /\ \A winner \in Team : ~EndGame(winner)
      BY DEF StartVoteTeam, EnterStart, StopMatch, EndGame, EnterEnd, InMatch, Live
    <2>3. ~ToggleReady /\ ~ChangeMap
      BY DEF ToggleReady, ChangeMap
    <2> QED
      BY <2>1, <2>2, <2>3 DEF Admin
  <1> QED
    BY <1>1, <1>2, <1>3, <1>4, <1>5, <1>6, <1>7 DEF Next, Callback

\* RunState of a half is called by its timer, and nothing else calls it but in the setup, the
\* warmup or a halftime.
LEMMA AdvancesBy ==
    ASSUME TimedInv, NextDue \/ ReadyDone \/ VoteMapFail
    PROVE  /\ state \in Halves => Exists(task, "NEXT")
           /\ (\E tk, rdy : RunState(tk, rdy)) \/ state' = state
  <1>1. CASE NextDue
    BY <1>1 DEF NextDue, Due
  <1>2. CASE ReadyDone
    <2>1. state \in {"WARMUP", "HALFTIME"}
      BY <1>2 DEF ReadyDone, TimedInv, OrderlyInv, Ordered, ReadyOrder
    <2> QED
      BY <1>2, <2>1 DEF ReadyDone, Halves
  <1>3. CASE VoteMapFail
    <2>1. state = "START"
      BY <1>3 DEF VoteMapFail, TimedInv, OrderlyInv, Ordered, NextOrder
    <2> QED
      BY <1>3, <2>1 DEF VoteMapFail, Halves
  <1> QED
    BY <1>1, <1>2, <1>3

\* RunState gets to an overtime only by the phase that follows.
LEMMA RunStateOvertime ==
    ASSUME NEW tk, NEW rdy, RunState(tk, rdy), state' = "OVERTIME"
    PROVE  NextPhase = "OVERTIME"
  <1>1. ~EnterWarmup(tk) /\ ~EnterStart(tk, voteMap, voteTeam) /\ ~EnterEnd(tk, rdy)
        /\ ~EnterHalftime(tk, rdy)
    BY DEF EnterWarmup, EnterStart, EnterEnd, EnterHalftime
  <1>2. \A p : EnterPeriod(p, tk) => state' \in {p, "WARMUP", "HALFTIME"}
    BY DEF EnterPeriod, EnterWarmup, EnterHalftime
  <1> QED
    BY <1>1, <1>2 DEF RunState

\* The first half is over when half of the rounds have been won: no restart, LO3, draw,
\* early end of a round, surrender or timer of another phase cuts it short.
THEOREM HalftimeKeepsSchedule == ASSUME Orderly, Timed PROVE Spec => HalftimeOnSchedule
  <1>1. ASSUME TimedInv, Next, state = "FIRST_HALF", state' = "HALFTIME" PROVE GetRound >= Half
    <2>1. Exists(task, "NEXT")
      <3>1. NextDue \/ ReadyDone \/ VoteMapFail
        BY <1>1, Advances DEF InMatch
      <3> QED
        BY <1>1, <3>1, AdvancesBy DEF Halves
    <2>2. FirstHalfDone
      BY <1>1, <2>1 DEF TimedInv, Schedule, FirstTally, FirstHalfDone
    <2>3. Half \in Nat
      BY EvenHalves
    <2> QED
      BY <2>2, <2>3 DEF FirstHalfDone, GetRound, Rounds
  <1>2. TimedInv /\ [Next]_vars
            => [state = "FIRST_HALF" /\ state' = "HALFTIME" => GetRound >= Half]_vars
    BY <1>1
  <1> QED
    BY <1>2, TimedInvariant, PTL DEF Spec, HalftimeOnSchedule

\* Only a tied match plays an overtime: the halftime after the second half, and every later
\* one, knows by its counters that the regular time was level.
THEOREM OvertimeIsTied == ASSUME Orderly, Timed PROVE Spec => OvertimeNeedsTie
  <1>1. ASSUME TimedInv, Next, state # "OVERTIME", state' = "OVERTIME"
        PROVE  state = "HALFTIME" /\ (round["OVERTIME"] = 0 => Tied(score))
    <2>1. PICK tk, rdy : RunState(tk, rdy)
      <3>1. NextDue \/ ReadyDone \/ VoteMapFail
        BY <1>1, Advances DEF InMatch, Live
      <3> QED
        BY <1>1, <3>1, AdvancesBy
    <2>2. NextPhase = "OVERTIME"
      BY <1>1, <2>1, RunStateOvertime
    <2>3. state = "HALFTIME"
      BY <1>1, <2>2, TimedParts
         DEF NextPhase, AfterHalftime, AfterSecondHalf, Phases, Live, TimedInv
    <2>4. Level
      BY <1>1, <2>2, <2>3, BreakPhase
    <2>5. ASSUME round["OVERTIME"] = 0 PROVE Tied(score)
      <3>1. /\ \A t \in Team : score["OVERTIME"][t] = 0
            /\ \A t \in Team : Points(score, t) = Regular(t)
        BY <1>1, <2>5, TimedParts DEF TimedInv, Points, Regular
      <3> QED
        BY <2>4, <3>1 DEF Tied, Level, Team
    <2> QED
      BY <2>3, <2>5
  <1>2. TimedInv /\ [Next]_vars
            => [state # "OVERTIME" /\ state' = "OVERTIME" =>
                   /\ state \in {"SECOND_HALF", "HALFTIME"}
                   /\ round["OVERTIME"] = 0 => Tied(score)]_vars
    BY <1>1
  <1> QED
    BY <1>2, TimedInvariant, PTL DEF Spec, OvertimeNeedsTie

\* A surrender gives the match to the winner, who led or is declared to.
LEMMA SurrenderWon ==
    ASSUME OrderlyInv, NEW winner \in Team, EndGame(winner)
    PROVE  ~Tied(score')
  <1>1. /\ Live = {"FIRST_HALF", "SECOND_HALF", "OVERTIME"} /\ Team = {"T", "CT"}
        /\ \A p \in Live, t \in Team : score[p][t] \in Nat
    BY TimedParts
  <1>2. Half \in Nat
    BY MatchAssumption DEF Half
  <1>3. CASE MustDeclare(winner)
    <2> DEFINE rounds(p) == IF p = "FIRST_HALF" THEN Half ELSE IF p = "SECOND_HALF" THEN 1 ELSE 0
    <2>1. score' = [p \in Live |-> [t \in Team |-> IF t = winner THEN rounds(p) ELSE 0]]
      BY <1>3 DEF EndGame
    <2>2. \A t \in Team : Points(score', t) = IF t = winner THEN Half + 1 ELSE 0
      BY <1>1, <1>2, <2>1 DEF Points
    <2> QED
      BY <1>1, <1>2, <2>2 DEF Tied
  <1>4. CASE ~MustDeclare(winner)
    <2>1. score' = score
      BY <1>4 DEF EndGame, scoreVars
    <2>2. \A t \in Team : GetScores(t) \in Nat
      BY <1>1 DEF GetScores, Points
    <2>3. \A t \in Team \ {winner} : GetScores(winner) > GetScores(t)
      BY <1>4, <2>2 DEF MustDeclare
    <2> QED
      BY <1>1, <2>1, <2>2, <2>3 DEF Tied, GetScores
  <1> QED
    BY <1>3, <1>4

\* A regular time that is won, or an overtime with a lead, is not tied.
LEMMA DecidedWon ==
    ASSUME Timed, TimedInv, OvertimeType \in {0, 1}, NextPhase = "END",
           state \in Halves => Exists(task, "NEXT")
    PROVE  ~Tied(score)
  <1>1. /\ Live = {"FIRST_HALF", "SECOND_HALF", "OVERTIME"} /\ Team = {"T", "CT"}
        /\ \A p \in Live, t \in Team : score[p][t] \in Nat
        /\ state \in {"SECOND_HALF", "OVERTIME"}
    BY TimedParts DEF NextPhase, AfterHalftime, Phases, Live, TimedInv
  <1>2. Half \in Nat
    BY EvenHalves
  <1>3. \A t \in Team : Regular(t) \in Nat
    BY <1>1 DEF Regular
  <1>4. CASE state = "SECOND_HALF"
    <2>1. \A t \in Team : GetScores(t) = Regular(t)
      BY <1>4, SecondHalfPoints
    <2>2. Won
      <3>1. Won \/ (OvertimeType \in {1, 2} /\ Level)
        BY <1>4 DEF TimedInv, Schedule, SecondTally, Halves
      <3>2. ~(OvertimeType \in {1, 2} /\ Level)
        <4> SUFFICES ASSUME OvertimeType \in {1, 2}, Level PROVE FALSE
          OBVIOUS
        <4>1. OvertimeType = 1 /\ GetScores("T") = Half /\ GetScores("CT") = Half
          BY <1>1, <2>1 DEF Level
        <4> QED
          BY <1>4, <4>1 DEF NextPhase, AfterSecondHalf
      <3> QED
        BY <3>1, <3>2
    <2>3. Regular("T") # Regular("CT")
      BY <1>1, <1>2, <1>3, <2>2 DEF Won
    <2> QED
      BY <1>1, <2>1, <2>3 DEF Tied, GetScores
  <1>5. CASE state = "OVERTIME"
    <2>1. Level /\ OvertimeWinner(round, score)
      BY <1>5 DEF NextPhase, TimedInv, Schedule, OvertimeTally
    <2>2. score["OVERTIME"]["T"] # score["OVERTIME"]["CT"]
      BY <1>1, <2>1 DEF OvertimeWinner
    <2>3. \A t \in Team : Points(score, t) = Half + score["OVERTIME"][t]
      BY <1>1, <2>1 DEF Level, Points, Regular
    <2> QED
      BY <1>1, <1>2, <2>2, <2>3 DEF Tied
  <1> QED
    BY <1>1, <1>4, <1>5

\* Where the rules want a winner, the match that RunState or a surrender ends has one.
THEOREM MatchHasWinner == ASSUME Orderly, Timed PROVE Spec => EndHasWinner
  <1>1. ASSUME TimedInv, NextDue, state' = "END", OvertimeType \in {0, 1} PROVE ~Tied(score')
    <2>1. RunState(Remove(task, "NEXT"), ready)
      BY <1>1 DEF NextDue
    <2>2. NextPhase = "END" /\ UNCHANGED scoreVars
      <3>1. \A tk : ~EnterWarmup(tk) /\ ~EnterHalftime(tk, ready)
                    /\ \A p \in Live : ~EnterPeriod(p, tk)
        BY <1>1 DEF EnterWarmup, EnterHalftime, EnterPeriod, Live
      <3> QED
        BY <1>1, <2>1, <3>1 DEF RunState, EnterStart, Live
    <2>3. ~Tied(score)
      BY <1>1, <2>2, AdvancesBy, DecidedWon
    <2> QED
      BY <2>2, <2>3 DEF Tied, scoreVars
  <1>2. TimedInv /\ [Next]_vars
            => [(NextDue \/ \E winner \in Team : EndGame(winner)) /\ state' = "END"
                   /\ OvertimeType \in {0, 1} => ~Tied(score')]_vars
    BY <1>1, SurrenderWon DEF TimedInv
  <1> QED
    BY <1>2, TimedInvariant, PTL DEF Spec, EndHasWinner

(* ---------------- LO3 goes live in a period, or not at all ----------------- *)

\* Nobody surrenders, and no round of an overtime is decided before it is played.
Unbroken ==
    /\ "Surrender" \notin Requests
    /\ OvertimeType = 1 => "EarlyEnd" \notin Requests

\* A restart is of a live period that RunState is not about to leave.
Restarting == Exists(task, "LO3R") => state \in Live /\ ~Exists(task, "NEXT")

\* Without overtimes a match has one halftime.
OneHalftime ==
    OvertimeType # 1 => state # "OVERTIME" /\ (state = "HALFTIME" => FirstHalfDone)

LiveInv == TimedInv /\ Restarting /\ OneHalftime

\* Once at the halftime, the rounds stand until RunState leaves it.
LEMMA HalftimeKept ==
    ASSUME Orderly, Timed, TimedInv, Next, state = "HALFTIME", state' = "HALFTIME"
    PROVE  round' = round
  <1>1. state \notin Live /\ state # "START"
    BY DEF Live
  <1>2. CASE EngineStep \/ Tick \/ Player
    BY <1>2 DEF EngineStep, RoundRestart, FreezeEnd, Tick, Player, Join, Disconnect, CaptainPick,
                scoreVars
  <1>3. CASE RoundOver
    BY <1>1, <1>3, OrderedParts DEF RoundOver, RoundEnd, KnifeRoundFailed, scoreVars, TimedInv
  <1>4. CASE LO3 \/ SwapTeams \/ MapChange
    <2>1. CASE LO3
      BY <1>1, <2>1 DEF LO3, scoreVars
    <2> QED
      BY <1>4, <2>1 DEF SwapTeams, MapChange, scoreVars
  <1>5. CASE NextDue \/ ReadyDone
    <2>1. PICK tk, rdy : RunState(tk, rdy)
      BY <1>5 DEF NextDue, ReadyDone
    <2>2. NextPhase \in {"SECOND_HALF", "OVERTIME"}
      BY DEF NextPhase, AfterHalftime
    <2> QED
      BY <2>1, <2>2 DEF RunState, scoreVars
  <1>6. CASE VoteMapFail
    BY <1>1, <1>6 DEF VoteMapFail, TimedInv, OrderlyInv, Ordered, NextOrder
  <1>7. ~VoteStop
    BY <1>1 DEF VoteStop, VoteMapStop, VoteTeamStop, VoteOvertimeStop, KnifeVoteEnd, VoteOpen,
                TimedInv, OrderlyInv, Ordered, SetupOrder, Exists
  <1>8. CASE Admin
    BY <1>1, <1>8 DEF Admin, StartVoteMap, StartVoteTeam, StartMatch, StopMatch, RestarPeriod,
                      EndGame, ToggleReady, ChangeMap, scoreVars
  <1> QED
    BY <1>2, <1>3, <1>4, <1>5, <1>6, <1>7, <1>8 DEF Next, Callback

\* RunState to a halftime is called from a live period, or to a halftime that fails to end.
LEMMA RunStateHalftime ==
    ASSUME TimedInv, NEW tk, NEW rdy, RunState(tk, rdy), state' = "HALFTIME"
    PROVE  /\ NextPhase \in {"HALFTIME", "SECOND_HALF", "OVERTIME"}
           /\ UNCHANGED <<round, score>>
  <1>1. ~EnterWarmup(tk) /\ ~EnterStart(tk, voteMap, voteTeam) /\ ~EnterEnd(tk, rdy)
    BY DEF EnterWarmup, EnterStart, EnterEnd
  <1>2. ~EnterPeriod("FIRST_HALF", tk)
    BY DEF EnterPeriod, EnterWarmup
  <1> QED
    BY <1>1, <1>2 DEF RunState, scoreVars

LEMMA OneHalftimeNext == ASSUME Orderly, Timed, LiveInv, Next PROVE OneHalftime'
  <1> SUFFICES ASSUME OvertimeType # 1
      PROVE  state' # "OVERTIME" /\ (state' = "HALFTIME" => FirstHalfDone')
    BY DEF OneHalftime
  <1>1. TimedInv /\ state # "OVERTIME" /\ (state = "HALFTIME" => FirstHalfDone)
    BY DEF LiveInv, OneHalftime
  <1>2. CASE state' = state
    <2>1. state = "HALFTIME" => round' = round
      BY <1>1, <1>2, HalftimeKept
    <2> QED
      BY <1>1, <1>2, <2>1 DEF FirstHalfDone
  <1>3. CASE state' # state /\ state' \in InMatch
    <2>1. NextDue \/ ReadyDone \/ VoteMapFail
      BY <1>1, <1>3, Advances
    <2>2. /\ state \in Halves => Exists(task, "NEXT")
          /\ \E tk, rdy : RunState(tk, rdy)
      BY <1>1, <1>3, <2>1, AdvancesBy
    <2>3. state' # "OVERTIME"
      <3> SUFFICES ASSUME state' = "OVERTIME" PROVE FALSE
        OBVIOUS
      <3>1. NextPhase = "OVERTIME"
        BY <2>2, RunStateOvertime
      <3>2. state = "HALFTIME"
        BY <1>1, <3>1, TimedParts
           DEF NextPhase, AfterHalftime, AfterSecondHalf, Phases, Live, TimedInv
      <3> QED
        BY <1>1, <3>1, <3>2, BreakPhase
    <2>4. ASSUME state' = "HALFTIME" PROVE FirstHalfDone'
      <3>1. NextPhase \in {"HALFTIME", "SECOND_HALF", "OVERTIME"} /\ UNCHANGED <<round, score>>
        BY <1>1, <2>2, <2>4, RunStateHalftime
      <3>2. state = "FIRST_HALF"
        BY <1>1, <1>3, <2>4, <3>1, TimedParts
           DEF NextPhase, AfterHalftime, AfterSecondHalf, Phases, Live, TimedInv
      <3>3. FirstHalfDone
        BY <1>1, <2>2, <3>2 DEF TimedInv, Schedule, FirstTally, FirstHalfDone, Halves
      <3> QED
        BY <3>1, <3>3 DEF FirstHalfDone
    <2> QED
      BY <2>3, <2>4
  <1>4. CASE state' \notin InMatch
    BY <1>4 DEF InMatch, Live
  <1> QED
    BY <1>2, <1>3, <1>4

LEMMA RestartingKept ==
    ASSUME Restarting, state' = state, Exists(task', "NEXT") => Exists(task, "NEXT"),
           Exists(task', "LO3R") => Exists(task, "LO3R")
    PROVE  Restarting'
  BY DEF Restarting

\* A change of phase restarts the period it begins, and leaves no other restart behind.
LEMMA EnterRestarting ==
    ASSUME NEW tk \in TaskTable, ~Exists(tk, "LO3R"), NEW rdy
    PROVE  /\ EnterWarmup(tk) => Restarting'
           /\ EnterHalftime(tk, rdy) => Restarting'
           /\ EnterEnd(tk, rdy) => Restarting'
  <1>1. ASSUME EnterWarmup(tk) PROVE task'["LO3R"] = tk["LO3R"]
    BY <1>1, ReadyLoadSlots, SlotNames DEF EnterWarmup
  <1>2. ASSUME EnterHalftime(tk, rdy) PROVE task'["LO3R"] = tk["LO3R"]
    <2>1. ArmSwap(tk) \in TaskTable /\ ArmSwap(tk)["LO3R"] = tk["LO3R"]
      BY ArmType, ArmSwapSlots, SlotNames DEF Phases
    <2> QED
      BY <1>2, <2>1, ArmNextSlots, ReadyLoadSlots, SlotNames DEF EnterHalftime
  <1>3. ASSUME EnterEnd(tk, rdy) PROVE task'["LO3R"] = tk["LO3R"]
    BY <1>3, ArmNextSlots, SlotNames DEF EnterEnd
  <1> QED
    BY <1>1, <1>2, <1>3 DEF Restarting, Exists

LEMMA PeriodRestarting ==
    ASSUME NEW tk \in TaskTable, ~Exists(tk, "LO3R"), ~Exists(tk, "NEXT"), NEW p \in Live,
           EnterPeriod(p, tk)
    PROVE  Restarting'
  <1> DEFINE quiet == Remove(tk, "LIST")
  <1>1. quiet \in TaskTable /\ quiet["NEXT"] = tk["NEXT"] /\ quiet["LO3R"] = tk["LO3R"]
    BY QuietSlots, SlotNames
  <1>2. \/ state' = p /\ task' = StartLO3(quiet, p)
        \/ EnterWarmup(quiet)
        \/ EnterHalftime(quiet, FALSE)
    BY DEF EnterPeriod
  <1> HIDE DEF quiet
  <1>3. CASE state' = p /\ task' = StartLO3(quiet, p)
    <2>1. task'["NEXT"] = tk["NEXT"]
      BY <1>1, <1>3, StartLO3Slots, SlotNames
    <2> QED
      BY <1>3, <2>1 DEF Restarting, Exists
  <1>4. ~Exists(quiet, "LO3R")
    BY <1>1 DEF Exists
  <1> QED
    BY <1>1, <1>2, <1>3, <1>4, EnterRestarting

LEMMA RunStateRestarting ==
    ASSUME NEW tk \in TaskTable, ~Exists(tk, "LO3R"), ~Exists(tk, "NEXT"), NEW rdy,
           RunState(tk, rdy)
    PROVE  Restarting'
  <1>1. CASE EnterStart(tk, voteMap, voteTeam)
    <2>1. task'["LO3R"] = tk["LO3R"]
      BY <1>1, EnterStartSlots
    <2> QED
      BY <2>1 DEF Restarting, Exists
  <1>2. CASE \E p \in Live : EnterPeriod(p, tk)
    BY <1>2, PeriodRestarting
  <1>3. CASE EnterWarmup(tk) \/ EnterHalftime(tk, rdy) \/ EnterEnd(tk, rdy)
    BY <1>3, EnterRestarting
  <1> QED
    BY <1>1, <1>2, <1>3 DEF RunState, Live

\* No round that ends a period is decided while it restarts.
LEMMA RoundRestarting ==
    ASSUME Orderly, Timed, Unbroken, LiveInv, RoundOver, TimedInv'
    PROVE  Restarting'
  <1>0. TimedInv /\ Restarting /\ OneHalftime /\ state \in Phases
    BY TimedParts DEF LiveInv, TimedInv
  <1>1. PICK win \in Team \cup {"DRAW"} : RoundEnd(win)
    BY <1>0, OrderedParts DEF RoundOver, KnifeRoundFailed, TimedInv
  <1>2. CASE state \notin Live
    <2>1. state' = state /\ task' = task
      BY <1>0, <1>1, <1>2, OrderedParts DEF RoundEnd, TimedInv
    <2> QED
      BY <1>0, <2>1 DEF Restarting
  <1>3. CASE state \in Live
    <2>1. state' = state /\ task'["LO3R"] = task["LO3R"]
      BY <1>0, <1>1, <1>3, RoundParts, RoundCalm
    <2>2. CASE state \in Halves
      BY <2>1, <2>2, <1>3 DEF TimedInv, Schedule, Blank, Restarting
    <2>3. CASE state = "OVERTIME"
      <3>1. OvertimeType = 1 /\ "EarlyEnd" \notin Requests
        BY <1>0, <2>3 DEF OneHalftime, Unbroken
      <3>2. game = "play"
        BY <1>1, <3>1 DEF RoundEnd, MayEnd
      <3>3. ~Exists(task, "LO3R")
        BY <1>0, <1>3, <3>2 DEF TimedInv, Schedule, CalmBefore, Calm
      <3> QED
        BY <2>1, <3>3 DEF Restarting, Exists
    <2> QED
      BY <1>3, <2>2, <2>3 DEF Live, Halves
  <1> QED
    BY <1>2, <1>3

LEMMA CallbackRestarting ==
    ASSUME LiveInv, Callback \/ ReadyDone
    PROVE  Restarting'
  <1>0. TimedInv /\ Restarting /\ task \in TaskTable /\ OrderlyInv
    BY TimedParts DEF LiveInv, TimedInv
  <1>1. CASE NextDue \/ VoteMapFail
    <2> DEFINE tk == Remove(task, "NEXT")
    <2>1. /\ tk \in TaskTable /\ ~Exists(tk, "NEXT") /\ tk["LO3R"] = task["LO3R"]
          /\ Exists(task, "NEXT")
      BY <1>0, <1>1, NextGoneSlots, SlotNames DEF NextDue, VoteMapFail, Due
    <2>2. ~Exists(tk, "LO3R")
      BY <1>0, <2>1 DEF Restarting, Exists
    <2>3. \/ RunState(tk, ready)
          \/ task' = OpenVote(tk, "VoteMap.Stop", state)
          \/ task' = ChangelevelDelay(tk, state)
      BY <1>1 DEF NextDue, VoteMapFail
    <2> HIDE DEF tk
    <2>4. CASE RunState(tk, ready)
      BY <2>1, <2>2, <2>4, RunStateRestarting
    <2>5. CASE task' = OpenVote(tk, "VoteMap.Stop", state) \/ task' = ChangelevelDelay(tk, state)
      <3>1. task'["LO3R"] = tk["LO3R"]
        BY <2>1, <2>5, OpenVoteSlots, ChangelevelSlots, SlotNames
      <3> QED
        BY <2>2, <3>1 DEF Restarting, Exists
    <2> QED
      BY <2>3, <2>4, <2>5
  <1>2. CASE ReadyDone
    <2> DEFINE tk == Remove(task, "LIST")
    <2>1. task["LIST"].run = "Ready.List" /\ RunState(tk, FALSE)
      BY <1>2 DEF ReadyDone
    <2>2. state \in {"WARMUP", "HALFTIME"} /\ ~Exists(task, "NEXT")
      BY <1>0, <2>1 DEF OrderlyInv, Ordered, ReadyOrder, NextOrder
    <2>3. tk \in TaskTable /\ tk["NEXT"] = task["NEXT"] /\ tk["LO3R"] = task["LO3R"]
      BY <1>0, QuietSlots, SlotNames
    <2> HIDE DEF tk
    <2>4. ~Exists(tk, "NEXT") /\ ~Exists(tk, "LO3R")
      BY <1>0, <2>2, <2>3 DEF Exists, Restarting, Live
    <2> QED
      BY <2>1, <2>3, <2>4, RunStateRestarting
  <1>3. CASE LO3
    <2> DEFINE tk == Remove(task, "LO3R")
               n == task["LO3R"].arg
    <2>1. /\ state' = state /\ Exists(task, "LO3R")
          /\ task' = tk \/ task' = Create(tk, "LO3R", "LO3", n + 1, n + 1, state)
      BY <1>3 DEF LO3, Due
    <2>2. tk \in TaskTable /\ ~Exists(tk, "LO3R") /\ tk["NEXT"] = task["NEXT"]
      BY <1>0, RestartGoneSlots, SlotNames
    <2> HIDE DEF tk, n
    <2>3. task'["NEXT"] = task["NEXT"]
      BY <2>1, <2>2, CreateSlot, SlotNames
    <2> QED
      BY <1>0, <2>1, <2>3 DEF Restarting, Exists
  <1>4. CASE SwapTeams
    <2>1. state' = state /\ task' = Remove(task, "EXEC")
      BY <1>4 DEF SwapTeams
    <2>2. task'["NEXT"] = task["NEXT"] /\ task'["LO3R"] = task["LO3R"]
      BY <1>0, <2>1, RemoveSlot, SlotNames
    <2> QED
      BY <1>0, <2>1, <2>2 DEF Restarting, Exists
  <1>5. CASE MapChange
    BY <1>5, BootSlots DEF MapChange, Restarting
  <1> QED
    BY <1>1, <1>2, <1>3, <1>4, <1>5 DEF Callback

LEMMA VoteStopRestarting == ASSUME LiveInv, VoteStop PROVE Restarting'
  <1>0. Restarting /\ task \in TaskTable
    BY TimedParts DEF LiveInv, TimedInv
  <1>1. Exists(task, "VOTE")
    BY DEF VoteStop, VoteMapStop, VoteTeamStop, VoteOvertimeStop, KnifeVoteEnd, VoteOpen, Exists
  <1>2. state = "START" /\ task["VOTE"].run \in {"VoteMap.Stop", "VoteTeam.Stop"}
    BY <1>1 DEF LiveInv, TimedInv, OrderlyInv, Ordered, SetupOrder
  <1>3. ~Exists(task, "LO3R")
    BY <1>0, <1>2 DEF Restarting, Live
  <1>4. /\ VoteClosed \in TaskTable /\ VoteClosed["LO3R"] = task["LO3R"]
        /\ VoteAndListClosed \in TaskTable /\ VoteAndListClosed["LO3R"] = task["LO3R"]
    BY <1>0, ClosedType, ClosedSlots, SlotNames
  <1>5. \/ task' = ChangelevelDelay(VoteClosed, state)
        \/ task' = Create(VoteAndListClosed, "NEXT", "VoteMap.Fail", 0, 5, state)
        \/ \E mode : SetMode(mode, VoteAndListClosed, state)
        \/ task' = ArmNext(VoteAndListClosed, 3, state)
    BY <1>2 DEF VoteStop, VoteMapStop, VoteTeamStop, VoteOvertimeStop, KnifeVoteEnd, VoteOpen
  <1>6. task'["LO3R"] = task["LO3R"]
    <2>1. CASE task' = ChangelevelDelay(VoteClosed, state)
      BY <1>4, <2>1, ChangelevelSlots, SlotNames
    <2>2. CASE \E mode : SetMode(mode, VoteAndListClosed, state)
      BY <1>4, <2>2, SetModeSwap, SlotNames
    <2>3. CASE \/ task' = Create(VoteAndListClosed, "NEXT", "VoteMap.Fail", 0, 5, state)
               \/ task' = ArmNext(VoteAndListClosed, 3, state)
      BY <1>4, <2>3, CreateSlot, ArmNextSlots, SlotNames
    <2> QED
      BY <1>5, <2>1, <2>2, <2>3
  <1> QED
    BY <1>3, <1>6 DEF Restarting, Exists

LEMMA PlayerRestarting == ASSUME Orderly, LiveInv, Player PROVE Restarting'
  <1>0. Restarting /\ task \in TaskTable /\ TimedInv
    BY TimedParts DEF LiveInv, TimedInv
  <1>1. CASE Join
    BY <1>0, <1>1, RestartingKept DEF Join
  <1>2. ASSUME NEW last \in BOOLEAN, CaptainPick(last) PROVE Restarting'
    <2> DEFINE quiet == Remove(task, "LIST")
    <2>1. state = "START" /\ (task' = task \/ task' = ArmNext(quiet, 3, state))
      BY <1>0, <1>2, OrderedParts DEF CaptainPick, CaptainStop, TimedInv
    <2>2. ~Exists(task, "LO3R")
      BY <1>0, <2>1 DEF Restarting, Live
    <2>3. quiet \in TaskTable /\ quiet["LO3R"] = task["LO3R"]
      BY <1>0, QuietSlots, SlotNames
    <2> HIDE DEF quiet
    <2>4. task'["LO3R"] = task["LO3R"]
      BY <2>1, <2>3, ArmNextSlots, SlotNames
    <2> QED
      BY <2>2, <2>4 DEF Restarting, Exists
  <1> QED
    BY <1>1, <1>2 DEF Player, Disconnect, Orderly

LEMMA AdminRestarting == ASSUME Orderly, Timed, Unbroken, LiveInv, Admin PROVE Restarting'
  <1>0. Restarting /\ task \in TaskTable
    BY TimedParts DEF LiveInv, TimedInv
  <1>1. /\ ~StartVoteMap /\ ~StartMatch /\ ~RestarPeriod
        /\ \A winner \in Team : ~EndGame(winner)
    BY DEF StartVoteMap, StartMatch, RestarPeriod, EndGame, Orderly, Timed, Unbroken
  <1>2. CASE StartVoteTeam
    <2>1. EnterStart(task, FALSE, -1) /\ state = "WARMUP"
      BY <1>2 DEF StartVoteTeam
    <2>2. task'["LO3R"] = task["LO3R"]
      BY <1>0, <2>1, EnterStartSlots
    <2>3. ~Exists(task, "LO3R")
      BY <1>0, <2>1 DEF Restarting, Live
    <2> QED
      BY <2>2, <2>3 DEF Restarting, Exists
  <1>3. CASE StopMatch
    <2> DEFINE tk == Remove(task, "LO3R")
    <2>1. tk \in TaskTable /\ ~Exists(tk, "LO3R") /\ EnterEnd(tk, ready)
      BY <1>0, <1>3, RestartGoneSlots DEF StopMatch
    <2> HIDE DEF tk
    <2> QED
      BY <2>1, EnterRestarting
  <1>4. CASE ToggleReady \/ ChangeMap
    <2>1. /\ state' = state
          /\ \/ task' = Remove(task, "LIST")
             \/ task' = ReadyLoad(task, state)
             \/ task' = ChangelevelDelay(task, state)
      BY <1>4 DEF ToggleReady, ChangeMap
    <2>2. task'["NEXT"] = task["NEXT"] /\ task'["LO3R"] = task["LO3R"]
      BY <1>0, <2>1, QuietSlots, ReadyLoadSlots, ChangelevelSlots, SlotNames
    <2> QED
      BY <1>0, <2>1, <2>2, RestartingKept DEF Exists
  <1> QED
    BY <1>1, <1>2, <1>3, <1>4 DEF Admin

LEMMA EngineRestarting == ASSUME LiveInv, EngineStep \/ Tick PROVE Restarting'
  <1>1. Restarting /\ task \in TaskTable
    BY TimedParts DEF LiveInv, TimedInv
  <1>2. state' = state /\ (task' = task \/ task' = Elapse(task))
    BY DEF EngineStep, RoundRestart, FreezeEnd, Tick
  <1> QED
    BY <1>1, <1>2, ElapseSlots, SlotNames, RestartingKept

LEMMA LiveNext ==
    ASSUME Orderly, Timed, Unbroken, LiveInv, [Next]_vars
    PROVE  LiveInv'
  <1>1. TimedInv'
    BY TimedNext DEF LiveInv
  <1>2. CASE Next
    <2>1. OneHalftime'
      BY <1>2, OneHalftimeNext
    <2>2. Restarting'
      BY <1>1, <1>2, EngineRestarting, RoundRestarting, CallbackRestarting, VoteStopRestarting,
         PlayerRestarting, AdminRestarting DEF Next
    <2> QED
      BY <1>1, <2>1, <2>2 DEF LiveInv
  <1>3. CASE UNCHANGED vars
    BY <1>1, <1>3 DEF LiveInv, Restarting, OneHalftime, FirstHalfDone, vars
  <1> QED
    BY <1>2, <1>3

\* "Match is live" is announced in a live period: a match that is stopped, or a half whose
\* rounds are played, leaves no restart to be called in the phase that follows.
THEOREM LiveIsLive == ASSUME Orderly, Timed, Unbroken PROVE Spec => LiveWhileLive
  <1>1. Init => LiveInv
    <2> SUFFICES ASSUME Init PROVE LiveInv
      OBVIOUS
    <2>1. state = BootPhase /\ task = BootTasks
      BY DEF Init
    <2>2. Restarting /\ OneHalftime
      BY <2>1, BootSlots, BootTimers DEF Restarting, OneHalftime
    <2> QED
      BY <2>2, TimedInit DEF LiveInv
  <1>2. LiveInv /\ [Next]_vars => LiveInv'
    BY LiveNext
  <1>3. LiveInv => [LO3 => state \in Live]_vars
    BY DEF LiveInv, Restarting, LO3, Due
  <1> QED
    BY <1>1, <1>2, <1>3, PTL DEF Spec, LiveWhileLive

(* ------------------- every roster has changed its side -------------------- *)

\* Periods start whoever is there.
Unchecked == ~PlayCheckPlayers

\* A swap that is armed outlives no phase: it runs before RunState leaves the end of the
\* match, the warmup or the setup, and none is armed while a first half is played.
Idles(tk) ==
    /\ Exists(tk, "NEXT") => tk["NEXT"].left > 0
    /\ tk["LIST"].run = "Ready.List" => tk["LIST"].left > 0

SwapPlace ==
    Exists(task, "EXEC") =>
        /\ state \notin {"FIRST_HALF", "DEAD"}
        /\ state \in {"WARMUP", "START"} => task["EXEC"].left = 0 /\ Idles(task)
        /\ state = "END" => Exists(task, "NEXT") /\ task["EXEC"].left <= task["NEXT"].left

\* Roster A starts as the Terrorists, and the swap gives their side to roster B.
Sides ==
    /\ state = "FIRST_HALF" => rosterT = "A"
    /\ state = "SECOND_HALF" \/ (state = "HALFTIME" /\ FirstHalfDone) =>
          rosterT = IF Exists(task, "EXEC") THEN "A" ELSE "B"

SidesInv == SwapInv /\ TimedInv /\ SwapPlace /\ Sides

LEMMA SidesParts ==
    ASSUME SidesInv
    PROVE  /\ TimedInv /\ OrderlyInv /\ SwapPlace /\ Sides /\ task \in TaskTable
           /\ state \in Phases
           /\ \A s \in Slots : task[s].left \in Nat
           /\ task["EXEC"].left <= 5
           /\ state \in Live /\ Exists(task, "EXEC") => Exists(task, "LO3R")
  BY TimedParts DEF SidesInv, TimedInv, SwapInv, SwapFirst, TaskTable, TaskType

LEMMA PlaceKept ==
    ASSUME SwapPlace, state' = state, task'["EXEC"] = task["EXEC"],
           task'["NEXT"] = task["NEXT"], task'["LIST"] = task["LIST"]
    PROVE  SwapPlace'
  BY DEF SwapPlace, Idles, Exists

LEMMA NoPlace == ASSUME ~Exists(task', "EXEC") PROVE SwapPlace'
  BY DEF SwapPlace

\* Captains, and RunState in three seconds, give the swap its time.
LEMMA SetModeIdles ==
    ASSUME NEW tk \in TaskTable, ~Exists(tk, "NEXT"), tk["LIST"].run # "Ready.List",
           NEW mode, NEW p, SetMode(mode, tk, p)
    PROVE  Idles(task')
  <1>1. /\ Remove(tk, "LIST") \in TaskTable
        /\ ~Exists(Remove(tk, "LIST"), "LIST")
    BY QuietSlots
  <1>2. CASE task' = Create(tk, "LIST", "Captain.List", 0, 0, p)
    <2>1. task'["LIST"].run = "Captain.List" /\ task'["NEXT"] = tk["NEXT"]
      BY <1>2, CreateSlot, SlotNames
    <2> QED
      BY <2>1 DEF Idles, Exists
  <1>3. CASE task' = ArmNext(Remove(tk, "LIST"), 3, p)
    <2>1. task'["NEXT"].left = 3 /\ task'["LIST"] = Remove(tk, "LIST")["LIST"]
      BY <1>1, <1>3, ArmNextSlots, SlotNames
    <2> QED
      BY <1>1, <2>1 DEF Idles, Exists
  <1>4. CASE task' = ArmNext(tk, 3, p)
    <2>1. task'["NEXT"].left = 3 /\ task'["LIST"] = tk["LIST"]
      BY <1>4, ArmNextSlots, SlotNames
    <2> QED
      BY <2>1 DEF Idles
  <1> QED
    BY <1>2, <1>3, <1>4 DEF SetMode, CaptainStop

LEMMA StartPlace ==
    ASSUME NEW tk \in TaskTable, ~Exists(tk, "NEXT"), Exists(tk, "EXEC") => tk["EXEC"].left = 0,
           NEW vm, NEW vt, EnterStart(tk, vm, vt)
    PROVE  SwapPlace'
  <1> DEFINE quiet == Remove(tk, "LIST")
  <1>1. /\ quiet \in TaskTable /\ ~Exists(quiet, "LIST") /\ quiet["NEXT"] = tk["NEXT"]
    BY QuietSlots, SlotNames
  <1>2. state' = "START" /\ task'["EXEC"] = tk["EXEC"]
    BY EnterStartSlots DEF EnterStart
  <1>3. \/ \E stop : task' = OpenVote(quiet, stop, "START")
        \/ task' = ChangelevelDelay(quiet, "START")
        \/ SetMode(vt, quiet, "START")
    BY DEF EnterStart
  <1> HIDE DEF quiet
  <1>4. ~Exists(quiet, "NEXT") /\ quiet["LIST"].run = "none"
    BY <1>1 DEF Exists
  <1>5. Idles(task')
    <2>1. CASE \E stop : task' = OpenVote(quiet, stop, "START")
      <3>1. task'["LIST"].run = "Vote.List" /\ task'["NEXT"] = quiet["NEXT"]
        BY <1>1, <2>1, OpenVoteSlots, SlotNames
      <3> QED
        BY <1>4, <3>1 DEF Idles, Exists
    <2>2. CASE task' = ChangelevelDelay(quiet, "START")
      <3>1. task'["LIST"] = quiet["LIST"] /\ task'["NEXT"] = quiet["NEXT"]
        BY <1>1, <2>2, ChangelevelSlots, SlotNames
      <3> QED
        BY <1>4, <3>1 DEF Idles, Exists
    <2>3. CASE SetMode(vt, quiet, "START")
      BY <1>1, <1>4, <2>3, SetModeIdles
    <2> QED
      BY <1>3, <2>1, <2>2, <2>3
  <1> QED
    BY <1>2, <1>5 DEF SwapPlace, Exists

LEMMA WarmupPlace ==
    ASSUME NEW tk \in TaskTable, ~Exists(tk, "NEXT"), Exists(tk, "EXEC") => tk["EXEC"].left = 0,
           EnterWarmup(tk)
    PROVE  SwapPlace'
  <1>1. /\ state' = "WARMUP" /\ task'["LIST"].left = 1
        /\ task'["NEXT"] = tk["NEXT"] /\ task'["EXEC"] = tk["EXEC"]
    BY ReadyLoadSlots, SlotNames DEF EnterWarmup
  <1> QED
    BY <1>1 DEF SwapPlace, Idles, Exists

LEMMA EndPlace ==
    ASSUME NEW tk \in TaskTable, tk["EXEC"].left <= 5, NEW rdy, EnterEnd(tk, rdy)
    PROVE  SwapPlace'
  <1>1. /\ state' = "END" /\ Exists(task', "NEXT") /\ task'["NEXT"].left = 5
        /\ task'["EXEC"] = tk["EXEC"]
    BY ArmNextSlots, SlotNames DEF EnterEnd
  <1> QED
    BY <1>1 DEF SwapPlace

\* RunState, when it leaves a phase whose swap has run or is about to.
LEMMA RunStatePlace ==
    ASSUME Unchecked, state \in Phases, NEW tk \in TaskTable, ~Exists(tk, "NEXT"),
           tk["EXEC"].left <= 5,
           Exists(tk, "EXEC") => /\ state \notin {"DEAD", "WARMUP", "START", "FIRST_HALF"}
                                 /\ state = "END" => tk["EXEC"].left = 0,
           NEW rdy, RunState(tk, rdy)
    PROVE  SwapPlace'
  <1>1. CASE NextPhase \in {"WARMUP", "START"}
    <2>1. state \in {"DEAD", "WARMUP", "END"}
      BY <1>1 DEF NextPhase, AfterHalftime, AfterSecondHalf, Phases, Live
    <2>2. EnterWarmup(tk) \/ EnterStart(tk, voteMap, voteTeam)
      BY <1>1 DEF RunState
    <2> QED
      BY <2>1, <2>2, WarmupPlace, StartPlace
  <1>2. CASE NextPhase = "FIRST_HALF"
    <2> DEFINE quiet == Remove(tk, "LIST")
    <2>1. state = "START"
      BY <1>2 DEF NextPhase, AfterHalftime, AfterSecondHalf, Phases, Live
    <2>2. task' = StartLO3(quiet, "FIRST_HALF")
      BY <1>2 DEF RunState, EnterPeriod, MayFail, Unchecked
    <2>3. quiet \in TaskTable /\ quiet["EXEC"] = tk["EXEC"]
      BY QuietSlots, SlotNames
    <2> HIDE DEF quiet
    <2>4. task'["EXEC"] = tk["EXEC"]
      BY <2>2, <2>3, StartLO3Slots, SlotNames
    <2> QED
      BY <2>1, <2>4, NoPlace DEF Exists
  <1>3. CASE NextPhase \in {"HALFTIME", "SECOND_HALF", "OVERTIME"}
    <2>1. state' \in {"HALFTIME", "SECOND_HALF", "OVERTIME"}
      BY <1>3 DEF RunState, EnterHalftime, EnterPeriod, MayFail, Unchecked
    <2> QED
      BY <2>1 DEF SwapPlace
  <1>4. CASE NextPhase = "END"
    BY <1>4, EndPlace DEF RunState
  <1> QED
    BY <1>1, <1>2, <1>3, <1>4 DEF RunState

LEMMA EnginePlace == ASSUME SidesInv, EngineStep \/ Tick PROVE SwapPlace'
  <1>1. CASE EngineStep
    <2>1. state' = state /\ task' = task
      BY <1>1 DEF EngineStep, RoundRestart, FreezeEnd
    <2> QED
      BY <2>1, PlaceKept, SidesParts
  <1>2. CASE Tick
    <2>1. /\ state' = state /\ task' = Elapse(task)
          /\ \A s \in {"EXEC", "NEXT"} : ~Due(task, s)
      BY <1>2 DEF Tick, OneShots, Slots
    <2>2. \A s \in {"EXEC", "NEXT", "LIST"} :
              /\ task'[s].run = task[s].run /\ task[s].left \in Nat
              /\ task'[s].left = IF task[s].left > 0 THEN task[s].left - 1 ELSE 0
      BY <2>1, SidesParts, ElapseSlots, SlotNames
    <2>3. SUFFICES ASSUME Exists(task', "EXEC")
          PROVE  /\ state \notin {"FIRST_HALF", "DEAD", "WARMUP", "START"}
                 /\ state = "END" =>
                       Exists(task', "NEXT") /\ task'["EXEC"].left <= task'["NEXT"].left
      BY <2>1 DEF SwapPlace
    <2>4. Exists(task, "EXEC") /\ task["EXEC"].left > 0
      BY <2>1, <2>2, <2>3 DEF Exists, Due
    <2>5. state \notin {"FIRST_HALF", "DEAD", "WARMUP", "START"}
      BY <2>4, SidesParts DEF SwapPlace
    <2>6. state = "END" => Exists(task, "NEXT") /\ task["EXEC"].left <= task["NEXT"].left
      BY <2>4, SidesParts DEF SwapPlace
    <2> QED
      BY <2>2, <2>4, <2>5, <2>6 DEF Exists
  <1> QED
    BY <1>1, <1>2

LEMMA RoundPlace == ASSUME Orderly, Timed, SidesInv, RoundOver PROVE SwapPlace'
  <1>0. TimedInv /\ SwapPlace /\ task \in TaskTable
    BY SidesParts
  <1>1. PICK win \in Team \cup {"DRAW"} : RoundEnd(win)
    BY <1>0, OrderedParts DEF RoundOver, KnifeRoundFailed, TimedInv
  <1>2. CASE state \notin Live
    <2>1. state' = state /\ task' = task
      BY <1>0, <1>1, <1>2, OrderedParts DEF RoundEnd, TimedInv
    <2> QED
      BY <1>0, <2>1, PlaceKept
  <1>3. CASE state \in Live
    <2>1. state' = state /\ (task' = task \/ task' = ArmNext(task, RoundDelay, state))
      BY <1>0, <1>1, <1>3, RoundParts
    <2>2. task'["EXEC"] = task["EXEC"]
      BY <1>0, <2>1, ArmNextSlots, SlotNames
    <2> QED
      BY <1>0, <1>3, <2>1, <2>2 DEF SwapPlace, Live, Exists
  <1> QED
    BY <1>2, <1>3

LEMMA CallbackPlace ==
    ASSUME Unchecked, SidesInv, Callback \/ ReadyDone
    PROVE  SwapPlace'
  <1>0. /\ SwapPlace /\ task \in TaskTable /\ OrderlyInv /\ state \in Phases
        /\ task["EXEC"].left <= 5 /\ \A s \in Slots : task[s].left \in Nat
    BY SidesParts
  <1>1. CASE NextDue \/ VoteMapFail
    <2> DEFINE tk == Remove(task, "NEXT")
    <2>1. /\ tk \in TaskTable /\ ~Exists(tk, "NEXT") /\ tk["EXEC"] = task["EXEC"]
          /\ Exists(task, "NEXT") /\ task["NEXT"].left = 0
      BY <1>0, <1>1, NextGoneSlots, SlotNames DEF NextDue, VoteMapFail, Due
    <2>2. Exists(task, "EXEC") => /\ state \notin {"DEAD", "WARMUP", "START", "FIRST_HALF"}
                                  /\ state = "END" => task["EXEC"].left = 0
      <3>1. task["EXEC"].left \in Nat
        BY <1>0, SlotNames
      <3> QED
        BY <1>0, <2>1, <3>1 DEF SwapPlace, Idles
    <2>3. \/ RunState(tk, ready)
          \/ state = "START" /\ task' = OpenVote(tk, "VoteMap.Stop", state)
          \/ state = "START" /\ task' = ChangelevelDelay(tk, state)
      BY <1>0, <1>1 DEF NextDue, VoteMapFail, OrderlyInv, Ordered, NextOrder
    <2> HIDE DEF tk
    <2>4. CASE RunState(tk, ready)
      <3>1. /\ tk["EXEC"].left <= 5
            /\ Exists(tk, "EXEC") => /\ state \notin {"DEAD", "WARMUP", "START", "FIRST_HALF"}
                                     /\ state = "END" => tk["EXEC"].left = 0
        BY <1>0, <2>1, <2>2 DEF Exists
      <3> QED
        BY <1>0, <2>1, <2>4, <3>1, RunStatePlace
    <2>5. CASE /\ state = "START"
               /\ \/ task' = OpenVote(tk, "VoteMap.Stop", state)
                  \/ task' = ChangelevelDelay(tk, state)
      <3>1. task'["EXEC"] = tk["EXEC"]
        BY <2>1, <2>5, OpenVoteSlots, ChangelevelSlots, SlotNames
      <3> QED
        BY <2>1, <2>2, <2>5, <3>1, NoPlace DEF Exists
    <2> QED
      BY <2>3, <2>4, <2>5
  <1>2. CASE ReadyDone
    <2> DEFINE tk == Remove(task, "LIST")
    <2>1. task["LIST"].run = "Ready.List" /\ task["LIST"].left = 0 /\ RunState(tk, FALSE)
      BY <1>2 DEF ReadyDone, Due
    <2>2. state \in {"WARMUP", "HALFTIME"} /\ ~Exists(task, "NEXT")
      BY <1>0, <2>1 DEF OrderlyInv, Ordered, ReadyOrder, NextOrder
    <2>3. tk \in TaskTable /\ tk["NEXT"] = task["NEXT"] /\ tk["EXEC"] = task["EXEC"]
      BY <1>0, QuietSlots, SlotNames
    <2> HIDE DEF tk
    <2>4. Exists(task, "EXEC") => state = "HALFTIME"
      BY <1>0, <2>1, <2>2 DEF SwapPlace, Idles
    <2>5. /\ ~Exists(tk, "NEXT") /\ tk["EXEC"].left <= 5
          /\ Exists(tk, "EXEC") => state = "HALFTIME"
      BY <1>0, <2>2, <2>3, <2>4 DEF Exists
    <2> QED
      BY <1>0, <2>1, <2>3, <2>5, RunStatePlace
  <1>3. CASE LO3
    <2> DEFINE tk == Remove(task, "LO3R")
               n == task["LO3R"].arg
    <2>1. /\ state' = state
          /\ task' = tk \/ task' = Create(tk, "LO3R", "LO3", n + 1, n + 1, state)
      BY <1>3 DEF LO3
    <2>2. /\ tk \in TaskTable /\ tk["NEXT"] = task["NEXT"] /\ tk["EXEC"] = task["EXEC"]
          /\ tk["LIST"] = task["LIST"]
      BY <1>0, RestartGoneSlots, SlotNames
    <2> HIDE DEF tk, n
    <2>3. /\ task'["NEXT"] = task["NEXT"] /\ task'["EXEC"] = task["EXEC"]
          /\ task'["LIST"] = task["LIST"]
      BY <2>1, <2>2, CreateSlot, SlotNames
    <2> QED
      BY <1>0, <2>1, <2>3, PlaceKept
  <1>4. CASE SwapTeams
    BY <1>0, <1>4, RemoveSlot, NoPlace, SlotNames DEF SwapTeams
  <1>5. CASE MapChange
    BY <1>5, BootSlots, NoPlace DEF MapChange
  <1> QED
    BY <1>1, <1>2, <1>3, <1>4, <1>5 DEF Callback

LEMMA VoteStopPlace == ASSUME SidesInv, VoteStop PROVE SwapPlace'
  <1>0. SwapPlace /\ task \in TaskTable /\ OrderlyInv
    BY SidesParts
  <1>1. Exists(task, "VOTE")
    BY DEF VoteStop, VoteMapStop, VoteTeamStop, VoteOvertimeStop, KnifeVoteEnd, VoteOpen, Exists
  <1>2. /\ state = "START" /\ ~Exists(task, "NEXT")
        /\ task["VOTE"].run \in {"VoteMap.Stop", "VoteTeam.Stop"}
    BY <1>0, <1>1 DEF OrderlyInv, Ordered, SetupOrder
  <1>3. /\ VoteClosed \in TaskTable /\ VoteClosed["EXEC"] = task["EXEC"]
        /\ VoteClosed["NEXT"] = task["NEXT"] /\ VoteClosed["LIST"] = task["LIST"]
        /\ VoteAndListClosed \in TaskTable /\ VoteAndListClosed["EXEC"] = task["EXEC"]
        /\ VoteAndListClosed["NEXT"] = task["NEXT"] /\ ~Exists(VoteAndListClosed, "LIST")
    BY <1>0, ClosedType, ClosedSlots, SlotNames
  <1>4. /\ state' = "START"
        /\ \/ task' = ChangelevelDelay(VoteClosed, state)
           \/ task' = Create(VoteAndListClosed, "NEXT", "VoteMap.Fail", 0, 5, state)
           \/ \E mode : SetMode(mode, VoteAndListClosed, state)
           \/ task' = ArmNext(VoteAndListClosed, 3, state)
    BY <1>2 DEF VoteStop, VoteMapStop, VoteTeamStop, VoteOvertimeStop, KnifeVoteEnd, VoteOpen
  <1>5. CASE task' = ChangelevelDelay(VoteClosed, state)
    <2>1. /\ task'["EXEC"] = task["EXEC"] /\ task'["NEXT"] = task["NEXT"]
          /\ task'["LIST"] = task["LIST"]
      BY <1>3, <1>5, ChangelevelSlots, SlotNames
    <2> QED
      BY <1>0, <1>2, <1>4, <2>1, PlaceKept
  <1>6. CASE task'["EXEC"] = task["EXEC"] /\ Idles(task')
    BY <1>0, <1>2, <1>4, <1>6 DEF SwapPlace, Exists
  <1>7. CASE \/ task' = Create(VoteAndListClosed, "NEXT", "VoteMap.Fail", 0, 5, state)
             \/ task' = ArmNext(VoteAndListClosed, 3, state)
    <2>1. /\ task'["EXEC"] = task["EXEC"] /\ task'["NEXT"].left > 0
          /\ task'["LIST"] = VoteAndListClosed["LIST"]
      BY <1>3, <1>7, CreateSlot, ArmNextSlots, SlotNames
    <2> QED
      BY <1>3, <1>6, <2>1 DEF Idles, Exists
  <1>8. CASE \E mode : SetMode(mode, VoteAndListClosed, state)
    <2>1. task'["EXEC"] = task["EXEC"]
      BY <1>3, <1>8, SetModeSwap, SlotNames
    <2>2. ~Exists(VoteAndListClosed, "NEXT") /\ VoteAndListClosed["LIST"].run # "Ready.List"
      BY <1>2, <1>3 DEF Exists
    <2>3. Idles(task')
      BY <1>3, <1>8, <2>2, SetModeIdles
    <2> QED
      BY <1>6, <2>1, <2>3
  <1> QED
    BY <1>4, <1>5, <1>7, <1>8

LEMMA PlayerPlace == ASSUME Orderly, SidesInv, Player PROVE SwapPlace'
  <1>0. SwapPlace /\ task \in TaskTable /\ OrderlyInv
    BY SidesParts
  <1>1. CASE Join
    BY <1>0, <1>1, PlaceKept DEF Join
  <1>2. ASSUME NEW last \in BOOLEAN, CaptainPick(last) PROVE SwapPlace'
    <2> DEFINE quiet == Remove(task, "LIST")
    <2>1. /\ state = "START" /\ state' = state
          /\ task' = task \/ task' = ArmNext(quiet, 3, state)
      BY <1>0, <1>2, OrderedParts DEF CaptainPick, CaptainStop
    <2>2. /\ quiet \in TaskTable /\ quiet["EXEC"] = task["EXEC"] /\ ~Exists(quiet, "LIST")
      BY <1>0, QuietSlots, SlotNames
    <2> HIDE DEF quiet
    <2>3. CASE task' = ArmNext(quiet, 3, state)
      <3>1. /\ task'["EXEC"] = task["EXEC"] /\ task'["NEXT"].left = 3
            /\ task'["LIST"] = quiet["LIST"]
        BY <2>2, <2>3, ArmNextSlots, SlotNames
      <3> QED
        BY <1>0, <2>1, <2>2, <3>1 DEF SwapPlace, Idles, Exists
    <2> QED
      BY <1>0, <2>1, <2>3, PlaceKept
  <1> QED
    BY <1>1, <1>2 DEF Player, Disconnect, Orderly

LEMMA AdminPlace == ASSUME Orderly, Timed, SidesInv, Admin PROVE SwapPlace'
  <1>0. SwapPlace /\ task \in TaskTable /\ OrderlyInv /\ task["EXEC"].left <= 5
    BY SidesParts
  <1>1. ~StartVoteMap /\ ~StartMatch /\ ~RestarPeriod
    BY DEF StartVoteMap, StartMatch, RestarPeriod, Orderly, Timed
  <1>2. CASE StartVoteTeam
    <2>1. EnterStart(task, FALSE, -1) /\ state = "WARMUP"
      BY <1>2 DEF StartVoteTeam
    <2>2. ~Exists(task, "NEXT") /\ (Exists(task, "EXEC") => task["EXEC"].left = 0)
      BY <1>0, <2>1 DEF OrderlyInv, Ordered, NextOrder, SwapPlace
    <2> QED
      BY <1>0, <2>1, <2>2, StartPlace
  <1>3. CASE StopMatch
    <2> DEFINE tk == Remove(task, "LO3R")
    <2>1. tk \in TaskTable /\ tk["EXEC"] = task["EXEC"] /\ EnterEnd(tk, ready)
      BY <1>0, <1>3, RestartGoneSlots, SlotNames DEF StopMatch
    <2> HIDE DEF tk
    <2> QED
      BY <1>0, <2>1, EndPlace
  <1>4. ASSUME NEW winner \in Team, EndGame(winner) PROVE SwapPlace'
    BY <1>0, <1>4, EndPlace DEF EndGame
  <1>5. CASE ToggleReady
    <2>1. /\ state = "WARMUP" /\ state' = state
          /\ task' = Remove(task, "LIST") \/ task' = ReadyLoad(task, state)
      BY <1>5 DEF ToggleReady
    <2>2. /\ task'["EXEC"] = task["EXEC"] /\ task'["NEXT"] = task["NEXT"]
          /\ ~Exists(task', "LIST") \/ task'["LIST"].left = 1
      BY <1>0, <2>1, QuietSlots, ReadyLoadSlots, SlotNames
    <2> QED
      BY <1>0, <2>1, <2>2 DEF SwapPlace, Idles, Exists
  <1>6. CASE ChangeMap
    <2>1. state' = state /\ task' = ChangelevelDelay(task, state)
      BY <1>6 DEF ChangeMap
    <2>2. /\ task'["EXEC"] = task["EXEC"] /\ task'["NEXT"] = task["NEXT"]
          /\ task'["LIST"] = task["LIST"]
      BY <1>0, <2>1, ChangelevelSlots, SlotNames
    <2> QED
      BY <1>0, <2>1, <2>2, PlaceKept
  <1> QED
    BY <1>1, <1>2, <1>3, <1>4, <1>5, <1>6 DEF Admin

LEMMA PlaceNext ==
    ASSUME Orderly, Timed, Unchecked, SidesInv, Next
    PROVE  SwapPlace'
  <1>1. CASE EngineStep \/ Tick \/ RoundOver
    BY <1>1, EnginePlace, RoundPlace
  <1>2. CASE Callback \/ ReadyDone
    BY <1>2, CallbackPlace
  <1>3. CASE VoteStop \/ Player \/ Admin
    BY <1>3, VoteStopPlace, PlayerPlace, AdminPlace
  <1> QED
    BY <1>1, <1>2, <1>3 DEF Next

\* With half of the rounds played the sides do change, and the score is not level.
LEMMA HalfwayMoves ==
    ASSUME Timed, TimedInv, FirstHalfDone
    PROVE  ~StayPut /\ ~Level
  <1>1. /\ Half \in Nat /\ Half >= 1 /\ PlayRounds = 2 * Half /\ Team = {"T", "CT"}
    BY EvenHalves, TimedParts DEF TimedInv
  <1>2. GetRound = Half
    BY <1>1 DEF FirstHalfDone, GetRound, Rounds
  <1>3. Regular("T") + Regular("CT") = Half
    BY <1>1, RegularRounds DEF TimedInv, FirstHalfDone
  <1> QED
    BY <1>1, <1>2, <1>3 DEF StayPut, Level

\* RunState takes the rosters through the phases.
LEMMA RunStateSides ==
    ASSUME Timed, Unchecked, SidesInv, state \in Halves => Exists(task, "NEXT"),
           NEW tk \in TaskTable, tk["EXEC"] = task["EXEC"], NEW rdy, RunState(tk, rdy)
    PROVE  Sides'
  <1>0. TimedInv /\ Sides /\ Schedule /\ state \in Phases
    BY SidesParts DEF TimedInv
  <1>1. CASE EnterWarmup(tk) \/ EnterStart(tk, voteMap, voteTeam) \/ EnterEnd(tk, rdy)
    BY <1>1 DEF Sides, EnterWarmup, EnterStart, EnterEnd
  <1>2. CASE ClearPeriod("FIRST_HALF", rosterT) /\ EnterPeriod("FIRST_HALF", tk)
    BY <1>2 DEF Sides, ClearPeriod, EnterPeriod, MayFail, Unchecked
  <1>3. CASE NextPhase = "HALFTIME" /\ EnterHalftime(tk, rdy) /\ UNCHANGED <<scoreVars, rosterT>>
    <2>1. /\ state' = "HALFTIME" /\ rosterT' = rosterT /\ (FirstHalfDone' <=> FirstHalfDone)
          /\ \/ task' = ArmNext(ArmSwap(tk), 7, "HALFTIME")
             \/ task' = ReadyLoad(ArmSwap(tk), "HALFTIME")
      BY <1>3 DEF EnterHalftime, FirstHalfDone, scoreVars
    <2>2. Exists(task', "EXEC")
      <3> DEFINE armed == ArmSwap(tk)
      <3>1. armed \in TaskTable /\ Exists(armed, "EXEC")
        BY ArmType, ArmSwapSlots DEF Phases
      <3>2. task' = ArmNext(armed, 7, "HALFTIME") \/ task' = ReadyLoad(armed, "HALFTIME")
        BY <2>1
      <3> HIDE DEF armed
      <3>3. task'["EXEC"] = armed["EXEC"]
        BY <3>1, <3>2, ArmNextSlots, ReadyLoadSlots, SlotNames
      <3> QED
        BY <3>1, <3>3 DEF Exists
    <2>3. FirstHalfDone => state = "FIRST_HALF"
      <3>1. state \in Live
        BY <1>0, <1>3 DEF NextPhase, AfterHalftime, AfterSecondHalf, Phases, Live
      <3>2. state = "SECOND_HALF" => Level
        <4> SUFFICES ASSUME state = "SECOND_HALF" PROVE Level
          OBVIOUS
        <4>1. GetScores("T") = Half /\ GetScores("CT") = Half
          BY <1>3 DEF NextPhase, AfterSecondHalf
        <4> QED
          BY <1>0, <4>1, SecondHalfPoints DEF Level, Team
      <3>3. state = "OVERTIME" => Level
        BY <1>0 DEF Schedule, OvertimeTally
      <3> QED
        BY <1>0, <3>1, <3>2, <3>3, HalfwayMoves DEF Live
    <2> QED
      BY <1>0, <2>1, <2>2, <2>3 DEF Sides
  <1>4. CASE /\ NextPhase \in {"SECOND_HALF", "OVERTIME"} /\ EnterPeriod(NextPhase, tk)
             /\ UNCHANGED <<scoreVars, rosterT>>
    <2> DEFINE quiet == Remove(tk, "LIST")
    <2>1. state = "HALFTIME"
      BY <1>0, <1>4 DEF NextPhase, AfterHalftime, AfterSecondHalf, Phases, Live
    <2>2. /\ state' = NextPhase /\ rosterT' = rosterT
          /\ task' = StartLO3(quiet, NextPhase)
      BY <1>4 DEF EnterPeriod, MayFail, Unchecked
    <2>3. quiet \in TaskTable /\ quiet["EXEC"] = task["EXEC"]
      BY QuietSlots, SlotNames
    <2> HIDE DEF quiet
    <2>4. task'["EXEC"] = task["EXEC"]
      BY <2>2, <2>3, StartLO3Slots, SlotNames
    <2>5. NextPhase = "SECOND_HALF" => FirstHalfDone
      BY <1>0, <2>1, BreakPhase
    <2> QED
      BY <1>0, <1>4, <2>1, <2>2, <2>4, <2>5 DEF Sides, Exists
  <1> QED
    BY <1>1, <1>2, <1>3, <1>4 DEF RunState

\* A step that stays in a phase of the match moves no roster and no swap, but for the swap.
LEMMA StaySides ==
    ASSUME Orderly, Timed, Unchecked, SidesInv, Next, state' = state,
           state \in InMatch, ~SwapTeams
    PROVE  rosterT' = rosterT /\ (Exists(task', "EXEC") <=> Exists(task, "EXEC"))
  <1>0. /\ task \in TaskTable /\ TimedInv /\ OrderlyInv /\ state \in Phases
        /\ state \notin {"START", "WARMUP"}
    BY SidesParts DEF InMatch, Live
  <1>1. CASE EngineStep
    BY <1>1 DEF EngineStep, RoundRestart, FreezeEnd
  <1>2. CASE Tick
    <2>1. task' = Elapse(task) /\ rosterT' = rosterT
      BY <1>2 DEF Tick
    <2> QED
      BY <1>0, <2>1, ElapseSlots, SlotNames DEF Exists
  <1>3. CASE RoundOver
    <2>1. PICK win \in Team \cup {"DRAW"} : RoundEnd(win)
      BY <1>0, <1>3, OrderedParts DEF RoundOver, KnifeRoundFailed
    <2>2. rosterT' = rosterT
      BY <2>1 DEF RoundEnd
    <2>3. task' = task \/ task' = ArmNext(task, RoundDelay, state)
      <3>1. CASE state \in Live
        BY <1>0, <2>1, <3>1, RoundParts
      <3>2. CASE state \notin Live
        BY <1>0, <2>1, <3>2, OrderedParts DEF RoundEnd
      <3> QED
        BY <3>1, <3>2
    <2>4. task'["EXEC"] = task["EXEC"]
      BY <1>0, <2>3, ArmNextSlots, SlotNames
    <2> QED
      BY <2>2, <2>4 DEF Exists
  <1>4. ~NextDue /\ ~ReadyDone /\ ~VoteMapFail
    <2>1. ~VoteMapFail
      BY <1>0 DEF VoteMapFail, OrderlyInv, Ordered, NextOrder
    <2>2. ASSUME NEW tk, NEW rdy, RunState(tk, rdy) PROVE FALSE
      <3>1. state' = NextPhase
        BY <2>2 DEF RunState, EnterWarmup, EnterStart, EnterPeriod, EnterHalftime, EnterEnd,
                    MayFail, Unchecked
      <3>2. NextPhase # state
        BY DEF NextPhase, AfterHalftime, AfterSecondHalf, InMatch, Live
      <3> QED
        BY <3>1, <3>2
    <2> QED
      BY <2>1, <2>2 DEF NextDue, ReadyDone
  <1>5. CASE LO3
    <2> DEFINE tk == Remove(task, "LO3R")
               n == task["LO3R"].arg
    <2>1. /\ rosterT' = rosterT
          /\ task' = tk \/ task' = Create(tk, "LO3R", "LO3", n + 1, n + 1, state)
      BY <1>5 DEF LO3
    <2>2. tk \in TaskTable /\ tk["EXEC"] = task["EXEC"]
      BY <1>0, RestartGoneSlots, SlotNames
    <2> HIDE DEF tk, n
    <2>3. task'["EXEC"] = task["EXEC"]
      BY <2>1, <2>2, CreateSlot, SlotNames
    <2> QED
      BY <2>1, <2>3 DEF Exists
  <1>6. ~MapChange
    BY BootTimers DEF MapChange, InMatch, Live
  <1>7. ~VoteStop
    BY <1>0 DEF VoteStop, VoteMapStop, VoteTeamStop, VoteOvertimeStop, KnifeVoteEnd, VoteOpen,
                OrderlyInv, Ordered, SetupOrder, Exists
  <1>8. CASE Player
    <2>1. Join
      BY <1>0, <1>8, OrderedParts DEF Player, Disconnect, CaptainPick, Orderly
    <2> QED
      BY <2>1 DEF Join
  <1>9. CASE Admin
    <2>1. ~StartVoteMap /\ ~StartMatch /\ ~RestarPeriod /\ ~StartVoteTeam /\ ~ToggleReady
      BY <1>0 DEF StartVoteMap, StartMatch, RestarPeriod, StartVoteTeam, ToggleReady, Orderly,
                  Timed
    <2>2. ~StopMatch /\ \A winner \in Team : ~EndGame(winner)
      BY DEF StopMatch, EndGame, EnterEnd, InMatch, Live
    <2>3. ChangeMap
      BY <1>9, <2>1, <2>2 DEF Admin
    <2>4. rosterT' = rosterT /\ task' = ChangelevelDelay(task, state)
      BY <2>3 DEF ChangeMap
    <2>5. task'["EXEC"] = task["EXEC"]
      BY <1>0, <2>4, ChangelevelSlots, SlotNames
    <2> QED
      BY <2>4, <2>5 DEF Exists
  <1> QED
    BY <1>1, <1>2, <1>3, <1>4, <1>5, <1>6, <1>7, <1>8, <1>9 DEF Next, Callback

\* The swap of the halftime gives roster B the side of the Terrorists.
LEMMA SwapTeamsSides ==
    ASSUME Timed, SidesInv, SwapTeams
    PROVE  Sides'
  <1>1. /\ Exists(task, "EXEC") /\ task \in TaskTable /\ TimedInv /\ Schedule /\ SwapPlace /\ Sides
        /\ state \in Live => Exists(task, "LO3R")
    BY SidesParts DEF SwapTeams, Due, TimedInv
  <1>2. state' = state /\ round' = round /\ ~Exists(task', "EXEC")
    BY <1>1, RemoveSlot, SlotNames DEF SwapTeams
  <1>3. state # "FIRST_HALF"
    BY <1>1 DEF SwapPlace
  <1>4. state = "SECOND_HALF" => FirstHalfDone
    BY <1>1 DEF Schedule, SecondTally, Blank, FirstHalfDone, Halves, Live
  <1>5. FirstHalfDone' <=> FirstHalfDone
    BY <1>2 DEF FirstHalfDone
  <1>6. FirstHalfDone => rosterT' = Other(rosterT)
    BY <1>1, HalfwayMoves DEF SwapTeams
  <1> QED
    BY <1>1, <1>2, <1>3, <1>4, <1>5, <1>6 DEF Sides, Other

LEMMA SidesNext ==
    ASSUME Orderly, Timed, Unchecked, SidesInv, Next
    PROVE  Sides'
  <1>0. /\ task \in TaskTable /\ TimedInv /\ OrderlyInv /\ Sides
    BY SidesParts
  <1>1. CASE state' \notin InMatch
    BY <1>1 DEF Sides, InMatch, Live
  <1>2. CASE state' \in InMatch /\ state' # state
    <2>1. NextDue \/ ReadyDone \/ VoteMapFail
      BY <1>0, <1>2, Advances
    <2>2. state \in Halves => Exists(task, "NEXT")
      BY <1>0, <2>1, AdvancesBy
    <2>3. /\ Remove(task, "NEXT") \in TaskTable /\ Remove(task, "NEXT")["EXEC"] = task["EXEC"]
          /\ Remove(task, "LIST") \in TaskTable /\ Remove(task, "LIST")["EXEC"] = task["EXEC"]
      BY <1>0, NextGoneSlots, QuietSlots, SlotNames
    <2>4. \/ RunState(Remove(task, "NEXT"), ready)
          \/ RunState(Remove(task, "LIST"), FALSE)
      BY <1>2, <2>1 DEF NextDue, ReadyDone, VoteMapFail
    <2> QED
      BY <2>2, <2>3, <2>4, RunStateSides
  <1>3. CASE state' \in InMatch /\ state' = state /\ ~SwapTeams
    <2>1. rosterT' = rosterT /\ (Exists(task', "EXEC") <=> Exists(task, "EXEC"))
      BY <1>3, StaySides
    <2>2. state = "HALFTIME" => (FirstHalfDone' <=> FirstHalfDone)
      BY <1>0, <1>3, HalftimeKept DEF FirstHalfDone
    <2> QED
      BY <1>0, <1>3, <2>1, <2>2 DEF Sides
  <1>4. CASE SwapTeams
    BY <1>4, SwapTeamsSides
  <1> QED
    BY <1>1, <1>2, <1>3, <1>4

\* Each roster plays one half on each side: when the second half is live the teams have
\* changed sides, once, however the halftime was left.
THEOREM SidesAreSwapped ==
    ASSUME Orderly, Timed, Unchecked
    PROVE  Spec => []SidesSwapped
  <1>1. Init => SidesInv
    <2> SUFFICES ASSUME Init PROVE SidesInv
      OBVIOUS
    <2>1. state \notin InMatch /\ ~Exists(task, "EXEC")
      BY BootSlots DEF Init, BootPhase, InMatch, Live
    <2>2. SwapPlace /\ Sides
      BY <2>1 DEF SwapPlace, Sides, InMatch, Live
    <2> QED
      BY <2>2, SwapInit, TimedInit DEF SidesInv
  <1>2. SidesInv /\ [Next]_vars => SidesInv'
    <2>1. SidesInv /\ [Next]_vars => SwapInv' /\ TimedInv'
      BY SwapNext, TimedNext DEF SidesInv
    <2>2. SidesInv /\ Next => SwapPlace' /\ Sides'
      BY PlaceNext, SidesNext
    <2>3. SidesInv /\ UNCHANGED vars => SwapPlace' /\ Sides'
      BY DEF SidesInv, SwapPlace, Idles, Sides, FirstHalfDone, vars
    <2> QED
      BY <2>1, <2>2, <2>3 DEF SidesInv
  <1>3. SidesInv => SidesSwapped
    BY SidesParts DEF Sides, SidesSwapped, Live
  <1> QED
    BY <1>1, <1>2, <1>3, PTL DEF Spec

===============================================================================
