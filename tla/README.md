# A verification model of RePugMod

RePugMod is a Metamod plugin for Counter-Strike 1.6 servers. It runs a pickup
match without an administrator: players join and get ready, vote for a map and
for the way teams are made, play two halves (and overtimes), and the server goes
back to a warmup or changes the map. This directory holds a TLA+ model of that
machinery, TLC configurations that check it on small instances, and proofs for
every value of its parameters.

## Inventory

The plugin is single-threaded. The engine calls it through hooks (end and restart
of a round, a client that joins or leaves, a chat command, a menu key) and once per
frame (`DLL_POST_StartFrame`), when `CTask::Think` runs the timers that are due.
There are no locks; what makes the code hard is that every component keeps its
own flags, that all of them share *seven timer slots* (`Task.h`), and that people
and timers can call any handler in any phase.

| Component | State | Operations | Must hold |
|---|---|---|---|
| `CPugMod` (match) | phase `m_State`, `m_Round`, `m_Score`, `m_Pause` | `SetState`, `RunState`, `RoundEnd`, `LO3`, `SwapTeams`, `RestarPeriod`, `EndGame`, `StartMatch`, `StopMatch`, ... | score belongs to the right players; halves have their length; a match ends and has a winner; no timer of one phase acts in another |
| `CTask` (timers) | one entry per slot | `Create`, `Remove`, `Exists`, `Think` | a slot holds what its user thinks it holds |
| `CReady` | running flag, marks, clock | `Load`, `Unload`, `Toggle`, `Ready`, `NotReady`, `List` | while it runs it is polled |
| `CVoteMap`, `CVoteTeam`, `CVoteOvertime` | ballots | `Init`, menu handlers, `Stop`, `Fail` | every outcome leads on; an outcome belongs to the phase it was asked in |
| `CCaptain` | captains, who picks | `Init`, `Menu`, `GetPlayer`, clocks, `Stop` | picking ends |
| `CKnifeRound` | running flag, ballots | `Init`, `RoundEnd`, `VoteEnd`, `Stop` | the winners get the side they chose |
| `CVotePause`, `PauseMatch` | pausing side, counts, votes | vote, round restart, round start, clock | a pause ends; limits hold per half |
| `CVoteStop`, `CVoteRestart`, `CVoteLevel`, `CVoteKick` | votes, counts | one handler each | thresholds; no stale vote counts |
| `CMenu` | items, page, handler | `Show`, `Handle`, `Hide` | an answer goes to the question asked |
| `CStats`, `CStatsCommand` | counters per player and round | engine events, `Save` | totals are the sums of rounds |
| `CLibCurl`, `CAuth` | requests in flight | `Get`, `PostJSON`, `Frame`, callback | an answer is for the client that asked |
| `CAntiRetry`, `CAntiFlood` | a clock per player | connect, disconnect, chat | delays are enforced |
| `CAdmin`, `CCommands`, `CPlayer`, `CUtil`, `CCvars` | flags, cvars | dispatch, counts, change of map | |

`PROJECT.json` lists each part with its sources and what is left out of it, and
under `hazards` every place where the code is hard to test.

Interaction, as far as the model is concerned:

    engine -- RoundEnd ------> CKnifeRound -> CPugMod.RestarPeriod
                          \--> CPugMod.RoundEnd -> slot NEXT | CVoteOvertime.Init
    slot NEXT -> CPugMod.RunState -> SetState -> CReady | CVoteMap | CVoteTeam | LO3 | slot EXEC
    slot VOTE -> CVoteMap.Stop | CVoteTeam.Stop | CVoteOvertime.Stop | CKnifeRound.VoteEnd
    slot LIST -> CReady.List (starts the match) | the lists of a vote or of the captains
    slot LO3R -> CPugMod.LO3     slot EXEC -> CPugMod.SwapTeams     slot CMAP -> changelevel
    players  -> join, leave, pick, vote        administrators -> start, stop, restart, ...

The hard behaviours: two components that use one slot at the same time; a callback
that fires in a phase it was not meant for; requests that arrive between a round
that decides a half and the timer that ends it; players who leave while teams are
being made; rounds that end before they are played; scores, sides and players that
have to change together over halves, restarts and overtimes.

## Modules

Eleven modules of specifications and instances and eight of proofs. `PugMod` is the centre and knows of
the others only that they may end, pick or ask; each of the others opens one of these black boxes.

| Module | Code | In it |
|---|---|---|
| `Task` | `CTask` | the timer slots |
| `PugMod`, `MCPugMod` | `CPugMod` and the sessions that drive it | phases, scores, restarts, swaps, requests |
| `Scoreboard`, `PugModScoreboard` | what the scores promise | the abstract specification and the mapping |
| `Captains` | `CCaptain` | seats, captains, clocks, menus |
| `Draft` | what the captains promise | the abstract specification; `Captains` instantiates it |
| `RoundClock` | `CVotePause`, `PauseMatch`, `CKnifeRound`, `SetRoundTime` | the engine's round clock and who moves it |
| `Votes` | `CVoteStop`, `CVoteRestart`, `CVoteLevel`, `CVoteKick`, `CReady`, ballots of the vote sessions | tables of votes by slot, menus, thresholds |
| `Stats` | `CStats` | damage and rounds by player and side |
| `Connections` | `CAuth`, `CLibCurl`, `CAntiRetry`, `CAntiFlood` | slots, ids, requests in flight, delays |
| `PugModProofs`, `TimersProofs`, `ScoreboardProofs`, `CaptainsProofs`, `RoundClockProofs`, `VotesProofs`, `StatsProofs`, `ConnectionsProofs` | | the theorems |

* `Task.tla`: `CTask`. A record per slot with its callback, its parameter and the
  seconds left. `from` is a history field: the phase that created the timer.
* `PugMod.tla`: the match controller with the sessions that drive it, one action
  per handler, timer callback or engine event. Each `Enter...` operator is an arm of
  `SetState`, with everything that arm calls.
* `MCPugMod.tla`: the instance TLC checks (cfg syntax has no negative numbers:
  `Voted` is -1).
* `PugModProofs.tla`, `TimersProofs.tla`: theorems about `PugMod`; the second has those about its timers,
  and the first what all of them share.
* `Captains.tla`: `CCaptain`, seen from inside. Where `PugMod` only knows that captains are picking
  and that they may end it, this module has the seat of every client, the two captains, the side that
  picks, the two clocks, the menus, and whether `Stop` has asked for the next phase. `menu` is `gMenu` of each
  slot: it outlives the client, because nothing closes it when he leaves, and the next client of the slot can answer it.
* `Draft.tla`: what the captains promise the players, without menus, clocks and captains: two sides of one
  player each take the others in turn, one at a time, who is in a side stays in it, the loss of a captain
  costs his side neither the place nor the turn, and a turn is lost only by choosing somebody who has left
  (`Forfeit`). The mapping is by name: `seat` and `turn` of `Captains`.
* `Scoreboard.tla`: what the match promises to its two rosters, without sides, timers, votes and
  restarts: one point at a time in the period being played, a period may be replayed from nothing,
  finished periods stand, a surrender gives the match to the other roster.
* `PugModScoreboard.tla`: the refinement mapping. A roster has the points of the side it sits on;
  between matches the old counters count for nobody. `ImplementsScoreboard` is the specification
  `Scoreboard!Spec` under it.
* `RoundClock.tla`: what moves the engine's round clock. `freeze`, `elapsed`, `length`, `restartIn`,
  `reset` and `winStatus` are the engine's fields; `paus` is slot PAUS with the callback it holds,
  which the timeout of a team and the pause of an administrator share; `vote`, `sideVotes` and
  `asked` are the side vote of a knife round, which puts the engine's restart off. The phases are
  a half, the halftime and the second half. `refrozen` is a history variable: the freeze was begun by slot PAUS in
  a round that was being played.
* `Votes.tla`: one table of votes by slot for each vote of the vote menu, for the ready marks and
  for a session. They share nothing but the players, so a behaviour has one *topic* and the run covers
  all of them. `screen` is what can still be answered in the menu of a slot (`gMenu[slot]`), which outlives the client.
  `outdated` is a history variable: a vote or a menu has outlived the situation it was made in, because its client
  left and the slot was taken again (or, for a restart vote, just left), a player changed team with it pending, or the sides
  changed under surrender votes.
* `Stats.tla`: of the counters of `CStats`, the two that relate pieces of state: the share a player has
  in a round his side wins, and the rounds he has played.
* `Connections.tla`: clients in slots, the requests that ask the API about them, the delay of those who
  left, and the chat limit. A behaviour is about connections or about the chat: the two share only the
  slots.

State and code. `state`, `round`, `score`, `task`, `ready` and `knife` are the fields of
the same meaning. `voteMap` and `voteTeam` are the two cvars the code writes. `inGame`
counts the players of both teams. `picking` says that captains choose. `game`, `gameIn`,
`ended` and `endless` stand for the engine: what the round is doing, how many seconds
until it moves on, whether the round has been decided, and `mp_round_infinite`, which
the cfg files of the warmup and the halftime set. `rosterT` and `credit` are history
variables: who sits on the Terrorist side, and which *roster* won the rounds the code
credits to *sides*.

What is abstracted:

* Ballots and ready marks are choices: any outcome a vote can have may happen, at any
  time until its timer expires; no votes at all only when it expires. When the last
  player closes a menu vote the outcome is one of the items.
* A roster is the set of players who started the match on one side. Shuffles pick
  either roster, and where rosters are made anew (first half) the history starts over.
* `CheckBalanceTeams` depends on who sits where and on what the engine's `BalanceTeams`
  can do: with enough players it may succeed or fail, with too few it fails.
* In `PugMod` the last pick of the captains is a choice, because spectators are not counted there.
  `Captains` shows what that choice rests on: a selection goes on as long as there are spectators,
  and it may stop for ever when there are none (`v_captain_stuck`).
* In `Captains` the operators `Menu`, `GetPlayer`, `Stop` and `ReplaceCaptain` take the seats, captains
  and menus as their caller has left them, because the code calls them in the middle of a handler; a
  client is there from its choice of a team on; all players are human; only the timer of slot NEXT
  advances the phase (administrators can neither start nor stop anything in START).
* Of a client who has left, the entity stays until the slot is taken again: `UTIL_PlayerByIndexSafe`
  (cssdk/dlls/player.h:639) tests no connection, so handlers that were given its index still find it. It is dormant
  for the lists and counts of `CPlayer`. Hence in `Captains` one who left can be chosen, joins a team in which nobody
  counts it, and the turn passes; in `Votes` kick votes are counted against it.
* In `RoundClock` the three restarts of LO3 are one complete reset, and the game is never won: `NextState`
  moves from half to halftime to half. A client who leaves only changes head counts.
* In `Votes` the match goes on around the votes: phases, freeze times and the slots EXEC and VOTE change at
  any time. Clients are human and none is an administrator (who cannot be chosen in the kick menu). Ballots
  are kept as pairs to say that an item is chosen once per menu; the code has counts per item, and the
  winner among equals is chance.
* In `Stats` damage comes in units of which `Health` kill. The engine kills, and ends the round of a side
  that has lost its last player, before the hook counts the hit, as `ReGameDLL_CBasePlayer_TakeDamage` has it.
* In `Connections` every client may connect to any free slot; an answer concerns whoever is in the slot. The
  API refuses a fixed set of ids and a request may fail at any time.
* Time passes in seconds and only when every due callback has run (`Tick`); the order of
  callbacks within a frame is free, as is their order against engine events, which is more
  than the code allows (`Think` goes by slot number).
* A cfg file that `SetState` executes takes effect with the phase.
* An `EarlyEnd` request is not a person: it allows the engine to decide a round in freeze
  time or while a restart is pending, for instance when a team has left.

## Plan

Done, in this order: `Task` and `PugMod` with their type invariant and counters proved; `Captains`
and its proofs; `Scoreboard` with the refinement, checked and proved; the points of the rosters proved;
`RoundClock`, `Votes`, `Stats` and `Connections`, each checked, with its main invariants proved; the timers of
the match, so that every safety property of `PugMod` has a theorem; `Draft` and the refinement of the captains;
the sums of `Stats`, the pauses of `RoundClock`, and what keeps a selection and a check by the API moving.

Left, by what it would add:

1. Menus (`CMenu`): pages, and one slot used for two questions; they are only what can be answered now.
2. The algorithms that deal players to teams (`TeamsRandomize`, `TeamsOptimize`) as operators with a
   reference definition.
3. Theorems: weaker conditions for those of `TimersProofs` (leavers above the minimum of players, an overtime
   vote).
4. The clock of the head-count ready system, and `pug_reconnect_ban_time`.

## Runs

The runs of the match use `MCPugMod`; the others use the module they are about. Bounds common to the first: two to four players, 2 or 4 rounds in regular time,
2, 4 or 6 in overtime, `MaxRounds` rounds in all (no round is decided beyond it; it leaves
room for regular time, an overtime and a half of another). Delays keep the order that the
real ones have: the engine takes 5 s after a round (`RoundDelay`), freeze time 2, a vote 6
or 15 s, so that a vote may be longer or shorter than the three restarts (9 s) and than the
halftime (7 s). A run names the requests that may occur in it, because each of them
multiplies the state space; each request occurs in some run.

| Run | Question | Why its bounds are enough |
|---|---|---|
| `regulation` | Are sides, scores and the length of halves right when matches are stopped at any time and rounds end early? Does the controller implement the scoreboard? Under fairness: does team selection end, and does a match end? | two rounds per half give a first and a last round; three team modes: captains, kept and swapped sides; all outcomes of votes |
| `leavers` | Can people who leave block the team selection or spoil the counters? | two players: one is below the minimum, none ends the match; captains need two; knife rounds repeat |
| `overtime` | Does a finished match have a winner, do scores follow players over overtimes? | two halves of an overtime and the beginning of the next |
| `admin` | Do requests of administrators break the order of swap and start, finished halves, or the selection? | one round of requests can be repeated without limit |
| `mapvotes` | Do map votes, overtime votes and changes of map leave the server with nothing to do, or switch off the poll of the ready system? | two rounds: a map vote can overlap each phase |
| `captains` | While captains pick and anybody may leave: are there always two captains, one clock that runs while there is anybody to pick, no player taken out of a team, do the sides take players in turn, losing a turn only on somebody who has left, as in `Draft`, and does the selection go on? | five clients: two captains and three to pick, so that a turn comes back to the first side after a captain was replaced; `CaptainQuorum` 2 for the 5 of the code; nobody joins while they pick, because with clients who leave and come for ever no selection need end (the proofs of safety include joins, except to a slot with an open menu) |
| `rounds` | Are timeouts given their full time but in the two known cases, do freezes end, and do the winners of the knife round get the side they chose? | three players, so that one side has a majority of two and the other decides alone; one timeout per half and side, one extension, rounds of 3 s, longer than a pause (2 s) as they are by default, so that the timer of a pause also comes due in a round that is played, and a freeze of 1 s, no longer than a complete reset, so that a reset cuts a timeout short |
| `votes` | Do votes belong to those who are there, are nominations heard, are surrenders, restarts and kicks backed, and is a session decided once? | three clients, two and one per side, and all votes needed (`VotePercentage` 100, `PlayersMin` 2): three, two or one for a restart as clients come and leave, two of three for a map. In every topic clients leave with votes cast and menus open, slots are taken again, players change team where the code lets them, and sides change under surrender votes. With four clients the kick topic alone has tens of millions of states |
| `stats` | Do the shares of a round fit its damage, and are the rounds of players those of the match? | three players, two hits to kill, three decided rounds over both halves; a client leaves once between two complete resets (bound) |
| `connections` | Does who is refused leave, and is his check in flight until then, does who left wait, and does the chat limit hold? | three clients for two slots: a slot passes on while the answer is under way; two requests at a time (`MaxRequests`), a time limit of 2 s, a delay of 3 s, chat for four `FloodTime` (`MaxTime` 8), which is more than the repeat limit needs |

`rounds` and `votes` check deadlock, and there is none; in `stats` and `connections` behaviours stop at
a bound, so their cfg says `CHECK_DEADLOCK FALSE`.

The `v_` runs find disagreements of the code with its documentation. Each checks one property and
ends in a counterexample, whose reading is the finding in `PROJECT.json`:

| Run | What TLC finds |
|---|---|
| `v_overtime_unwon` | an overtime won round by round by one side never ends |
| `v_captain_stuck` | the last spectator replaces a captain who left; the clock of the other finds nobody to pick, and START never ends |

The passing runs leave these out by their parameters. `regulation` has no period restart, no leavers
and no overtime; `overtime` has no stop and restarts nothing; `leavers` and `admin` use
`pug_vote_map_end 0`. Other things known from TLC that no run states:

* `pug_auto_start_delay 0` starts the warmup at once, where Cvars.cpp:34 says it disables the start
  (`NextState(0)` runs `RunState`).
* A map vote that an administrator starts in a live half and that nobody answers ends the half:
  `Fail` calls `NextState(0)`, where Cvars.cpp:70 says that type 0 continues the match.
* The end of an overtime half is tested after every round: its first round, if it is drawn, ends it
  (`GetRound() % half == 0` holds of the total with which the half begins).
* When the side vote of a knife round expires, the engine has restarted the round and cleared the win
  status: winners are taken for Terrorists, and Counter-Terrorists who chose get the opposite.
  `KnifeWinnersChoose` excludes exactly this case; it holds when their vote ends by ballots.
* In a frame the engine ends the freeze of a pause before `Think` runs, and the round's clock starts again: the
  timer of slot PAUS waits once more and, in a round that lasts longer than `pug_vote_pause_time`, freezes the
  round in the middle for `mp_freezetime`. A timeout granted in that round is forgotten by the end of that freeze, although
  its team was told "Match will pause for %d seconds on next round" (VotePause.cpp:119) and has used one of its timeouts. The default times
  (60 s in rounds of 105 s) allow it, and so does the run. `PauseServed` names this case (`refrozen`) and the
  other one, a complete reset that takes as long as the freeze (`reset`), and says that there is no third:
  with either dropped TLC finds it violated.
* Surrender votes are not cleared by a change of sides, nor at the end of a match: a side can surrender by the votes its
  opponents cast in the first half, where Cvars.cpp:82 promises the minimum percentage. `VoteIsBacked` fails without
  `outdated`, with the change of sides that every match makes.
* Nobody calls `CVoteRestart::ClientDisconnected`: a client who left still counts, the next one of its slot has voted for the restart
  already (`VoteIsBacked` fails without `outdated`), and `m_RestartCount` is never reset, so that the limit "per half" (Cvars.cpp:94) lasts for the map.
* A kick menu stays open when its owner's team changes or its target leaves. The vote then counts against another number
  or against an empty slot, and the next client of that slot begins with votes against it; whoever takes the owner's
  slot can answer its menu (`VoteIsBacked` fails without `outdated`, with four clients).
* A captain who leaves with his menu open leaves it in his slot. The next client of the slot may answer it with `menuselect`, as a spectator or
  out of turn, and `GetPlayer` moves the player he names: with "Inherit" among the `Events`, `CaptainsPresent`,
  `TeamsKept` and `ImplementsDraft` fail.
* A captain whose menu shows somebody who has left meanwhile may choose him: `GetPlayer` joins the entity to his team, where nobody
  counts it, and the turn passes. His side has lost a pick (`Forfeit`).
* The menu of a session is hidden on the screens of players in teams only. The client who takes the slot of a leaver, or a player
  who went to the spectators in the warmup or after the match with it open, answers it after the session is over: a
  ballot is counted, and `Stop` may run once more (`OneElection` fails without `outdated`).
* A nominated map stays nominated: a vote that is cast after the change was asked for is not heard again,
  because a map already nominated cannot be nominated a second time.
* In the second half, restarts keep the played rounds of `CStats` (only the first half resets them) while
  `CPugMod` wipes its own. `SharesFit` fails with the event `Switch` (a player who comes back on the other
  side within a round), and `FirstHalfCounted` with `EarlyEnd` (a round decided in freeze time).
* A map change forgets the requests in flight, so clients stay who were never checked; and an answer
  about a client who is gone drops the next one in the slot.
* A half restarted between its last round and its end keeps the timer that ends it (`HalftimeOnSchedule` fails
  with the request `RestarPeriod`): it goes to halftime with no round played.
* A match ended in its knife round leaves the knife running; with `pug_vote_map_end` 1 the next knife vote takes
  slot VOTE from the map vote, and the server stays in START with nothing pending (`SetupPending` fails).
* `Stop` of the captains closes no menu. A captain who still has one, because the last spectator was taken at
  once, answers it after the selection: `GetPlayer` calls `Stop` again and the phase advances twice. `TeamsKept`
  therefore speaks of the time while captains pick.
* With an overtime vote (type 3) and `StopMatch`, the vote survives the match and sets OVERTIME after END.
* A match that ends by surrender or by leavers during LO3 is announced live after its end; only
  StopMatch removes the slot.
* A second half that fails the player check returns to HALFTIME and swaps the sides again.
* A knife vote that outlives its half, after a failed restart, removes the poll of the ready system.
* A side vote that ends in a halftime moves the players and not their points, so `ScoreFollowsRoster` is
  checked in matches without a knife round.
* A map vote that fails in a half takes the timer that ends the half, which is then played on.

The history variables `outdated` and `refrozen` restrict nothing: every behaviour of the code is in the runs, and the
properties of votes and timeouts speak of it up to the first vote or menu that has become outdated, or of every freeze
that was not begun in a round. The bullets above say what the code does beyond that.

`MaxRounds` and liveness: `MatchCompletes` is vacuous for no behaviour of `regulation`, because a
match there ends within `PlayRounds + 1` rounds, below `MaxRounds`; drawn rounds do not count.

## Fairness

`Fairness` is what the server guarantees: the clock runs (`Tick`), the engine leaves freeze
time and restarts rounds (`EngineStep`), `Think` runs in every frame, so a timer that is due is
called (`Callback`, and `VoteStop` for a vote that has expired; a vote is never obliged to end
early), and a captain who does not choose is answered by his 10 s clock (`CaptainPick`).
`Attendance` is about people: they join while there is room, they get ready infinitely often
when they can (strong fairness, because marks can be withdrawn), and they win rounds. Nothing is
assumed about administrators, leavers, early ends or the outcome of votes. `MatchCompletes`
excludes by its antecedent behaviours in which the engine decides every round before it is played.

In `Captains` only the clocks are fair (`WF_vars(Clock)`): `Think` calls a clock that is due in every frame, and
`Menu`, which restarts it, is called only by a pick or by the loss of a captain. No captain is obliged to answer.

In `RoundClock`, `FairSpec` has the clock (`Tick`), the engine, which restarts a round, ends a freeze and ends a
round whose time is over, and `Think`, which calls the timers of slots PAUS and VOTE. Nobody is obliged to
vote or to win a round. In `Connections` the clock is fair and libcurl gives up a transfer after its time
(`CURLOPT_TIMEOUT`); no answer is obliged to come. `Votes` and `Stats` assume no fairness: their properties are
safety.

## Proofs

`PugModProofs` proves, for every value of the constants that the assumptions in `PugMod` allow:

* `TypeCorrect`: `Spec => []TypeOK`.
* `RoundsCorrect`: `Spec => []RoundsAreScores`.
* `FirstHalfIsFinal`: `Spec => FinishedHalfStands`.

The assumptions are that round counts are at least 2 (with fewer, `HalfOvertime` is 0 and the
code divides by it), that modes and types are in their ranges, and that delays are positive.

`MatchInv` is the inductive invariant: `TypeOK`, which is cut in five parts (scores, flow, engine, choices,
votes) so that each action is shown to keep the parts it changes, and `RoundsAreScores`. It needs
the types, because the sums of points are only known to be sums of naturals, and `RoundsAreScores`
has to be proved through every action that writes a counter: the round that counts, the restart of a
period, LO3, the swap of sides, the declared score of a surrender and the knife round that fails and
counts its own end in the period it has restarted. `FirstHalfIsFinal` needs that no step from a
period other than the first half writes the first half's entries. The lemmas about steps say, for
each operator that enters a phase, which phase comes next (`Later`), so that a step that would
wipe everything (`Cleared` with `FIRST_HALF`) is shown to leave the match or to be in its first half.

`TimersProofs` is about the same specification. Lemmas (`CreateSlot`, `ArmNextSlots`,
`StartLO3Slots`, ...) say what each operation leaves in which slot, and its proofs use nothing else of the table.

| Theorem | States | Under |
|---|---|---|
| `SidesChangeFirst` | `SwapBeforeLive` | nothing |
| `SetupNeverStalls` | `[]SetupPending` | `SetupCond` |
| `NextNeverStale`, `ReadyNeverForgotten`, `PointsFollowAnyTeams` | `[]NextIsFresh`, `[]ReadyIsPolled`, `[]ScoreFollowsRoster` | `Orderly` |
| `HalftimeKeepsSchedule`, `OvertimeIsTied`, `MatchHasWinner` | `HalftimeOnSchedule`, `OvertimeNeedsTie`, `EndHasWinner` | `Orderly`, `Timed` |
| `LiveIsLive` | `LiveWhileLive` | `Orderly`, `Timed`, `Unbroken` |
| `SidesAreSwapped` (the second half; overtimes are not spoken of) | `[]SidesSwapped` | `Orderly`, `Timed`, `Unchecked` |

The conditions are on constants. Each excludes something the code lets happen and that breaks the property (the list
under *Runs* has most of these behaviours), so they say when the code may be relied on:

* `SetupCond`: there is no knife round, or no map vote follows a match. Else the vote of a knife round that was left running
  takes slot VOTE from the map vote.
* `Orderly`: a server that runs its matches unattended. Nobody leaves, no administrator opens a map vote or
  starts the match by hand, there is no knife round and no overtime vote. Each of them makes a timer of one
  phase outlive it: a match that leavers end in its halftime is still polled by the ready system, which calls RunState a
  second time; a map vote takes the timer of the half; a forced start leaves the timers of the setup; a knife or
  overtime vote ends in a later phase. A restart that fails
  its player check and a stop that finds too few players for a warmup do the same, hence the last two conjuncts.
  Stops, restarts, surrenders, ready toggles, team votes, changes of the map and rounds decided early remain.
* `Timed`: freeze time of at least 2 s and at least 3 s after a round (the engine has 5), so that no round is decided between
  the one that ends a half and the timer that leaves it, nor between the last restart and its effect; an even number of rounds; and no restart of
  a half by vote, since one between the last round of a half and its timer leaves the timer armed.
* `Unbroken`: no surrender, and in overtimes no round decided before it is played: either ends the match during
  the three restarts, whose timer stays and announces it live.
* `Unchecked`: `pug_play_check_players` 0. A second half that fails the check goes back and swaps again.

TLC evaluates the same properties on instances that meet them: `regulation` meets all five, `overtime` meets `Orderly`
and `Timed`, `admin` and `leavers` meet `SetupCond`. `mapvotes` checks `ReadyIsPolled` with map votes by administrators and
`pug_vote_map_fail_type` 2, which `Orderly` excludes.

The inductive invariants grow in that order. `SwapInv` counts the seconds of slots EXEC and LO3R against each other: the
swap, five seconds after a period ends, comes before the last restart of the next. `SetupInv` says who owes the
end of START and END: a captain, RunState, a change of map or the vote that is open. `OrderlyInv` says
which timers a phase may have (`NextOrder`, `SetupOrder`, `ReadyOrder`) and, where a match can be stopped, that its
players are there (`AttendanceOrder`). `TimedInv` adds how far the match is by phase (`FirstTally`,
`SecondTally`, `BreakTally`, `OvertimeTally`: RunState is armed exactly when a half has run its rounds) and `CalmBefore`: before
a timer that will leave or wipe the period the engine decides no round. `LiveInv` adds that a restart runs only in a
live period that nobody is about to leave, and `SidesInv` where a swap that is armed may still be, and on
which side roster A is. The tallies are where the care lies: `HalftimeOnSchedule` alone is far from inductive, because a half
is ended by a timer set five seconds before, by a count taken then.

`CaptainsProofs` proves, for every finite set of clients, any minimum of players, a quorum of at least 1 (the
code has 5; more than one player is needed for two captains), and with clients that leave and come while
captains pick:

* `TypeCorrect`: `Spec => []TypeOK`.
* `ClockCorrect`: `Spec => []ClockIsTurn`.
* `CaptainsCorrect`: `Spec => []CaptainsPresent`, `PicksCorrect`: `Spec => TeamsKept` and
  `DraftImplemented`: `Spec => ImplementsDraft`, all three under `NoInheritance`: nobody comes, while captains pick, to a slot in which one who
  left while they pick has left a menu open. Without it they are false of the code (see under *Runs*); leavers, joins to other slots
  and menus that outlive their captain are included.
* `TurnsAreTimed`: `Spec => []TurnTimed` if nobody joins while captains pick, as in the run.
* `TurnsTakeOne`: `Spec => [][TakesOne]_vars` under the same condition: a step within a selection adds no spectator, and one of the clock takes one.
* `EvenTeamsHolds`: `Spec => EvenTeams` if nobody leaves while captains pick: after each step of a selection, the
  last one included, the sides differ by one player at most. Of a side that loses a player who is no captain
  nobody takes notice, so leavers do make uneven teams.

`ClockCorrect` has an induction of its own. For the others the inductive invariant adds four facts to the three
invariants. Nobody is captain while nobody picks, so that a client who leaves then replaces nobody. A menu that is open while captains pick is the menu of the captain whose
turn it is, and lists spectators or clients who are gone, or it is the menu of
a slot whose captain has left: this is what makes `TeamsKept` true, since
`MenuHandle` asks neither whose turn it is nor where the chosen player sits. No menu is open before the first
selection, and no selection begins after the phase has been advanced; together they are why menus left open by `Stop`
(see above) never reach another selection within the phase. Each of `Stop`, `Menu`, `GetPlayer` and
`ReplaceCaptain` has a lemma that says what it leaves behind, given what its callers pass, and the step lemma
has a case for each action. The same invariant carries the refinement: `MenuHandle` and `GetRandomPlayer` are
a step of the draft because, of those who are there, only the captain on turn has a menu (`MenuIsTurn`) and a clock (`ClockIsTurn`); a menu answered after the
selection is a step in which the seats are not the draft's business (`Free`). `EvenTeams` follows from the draft alone,
by counting the sides: the side on turn is level or one behind.

`TurnsAreTimed` and `TurnsTakeOne` are what `PickingGoesOn` rests on: the clock of the captain on turn runs until nobody
is left to pick, and each time it is due there is one spectator fewer. What is left to TLC is that a clock that runs
comes due (`WF_vars(Clock)`). A client who joins when the last spectator has left finds no clock running, because
`GetRandomPlayer` picks nobody and calls no `Menu`: hence the condition. A captain who is lost is replaced by
`ReplaceCaptain`, which calls `Menu` again; with that call left out TLC finds `TurnTimed` violated.

`ScoreboardProofs` proves `BoardImplemented`: `Spec => ImplementsScoreboard`, and `PointsFollow`:
`Spec => []ScoreFollowsRoster`, both under `PlainTeams`: teams are made by hand (`TeamModes` has
at most mode 2 and `pug_vote_team_type` is the vote or mode 2), there is no knife round and no overtime vote. Leavers,
map votes, forced starts and restarts are all allowed. The invariant, `SeatedInv`, has `MatchInv`, that no captain picks, no knife round runs and the
team mode is one of the two (`Seated`), that slot VOTE holds neither of the two callbacks that move players or phases late (`NoSideVote`), and that in
the first half the other periods are empty. The refinement goes action by action: every step of the controller is a
named step of the scoreboard or leaves phase and tally alone; the swap of players and the swap of points, one
action of the code, are a stutter. For the points, `Follows` states `ScoreFollowsRoster` in every phase, because a
match starts from the counters of the one before.

`BoardImplementedAnyTeams` and `PointsFollowAnyTeams` have the same for every way of making teams (captains, shuffles, teams kept
or swapped), under `Orderly`. Other modes make rosters anew or swap them, so a step is one of the scoreboard only if none of
them comes in the course of a match: `OrderlyInv` keeps votes and captains in the setup. Neither pair contains the other: with
teams made by hand the scoreboard needs no order of the timers. A knife round breaks both: its side vote moves the players without their
points when it ends in a halftime.

`RoundClockProofs` proves `KnifeCorrect`: `Spec => KnifeWinnersChoose`, if `pug_vote_pause_time` is above 0: `PauseMatch`
uses it as the length of the freeze, and a freeze of no length would let a round end, and overwrite the win status,
while the vote is open. The invariant says that the engine's restart and the vote end together (`RoundWaits`), and
after the restart the round is frozen, so that no other round is decided.

It proves `PauseIsServed`: `Spec => PauseServed` too, for any times. The team timeout and the pause of an
administrator share slot PAUS, and both callbacks compare their own time with the time since the round or its freeze
began, whichever of them is running. The invariant (`PauseInv`) says that a freeze in which a team has a timeout has the
length of the timeout and its own callback in the slot, unless slot PAUS began that freeze in a round or a complete
reset is under way (`PauseRuns`); that the callback which froze a round again has given its slot back (`RefrozenOnce`), so
a timeout granted in *that* freeze is given in full; and that timeouts have a length where they are granted
(`PauseTimed`). Hence the callback of the other pause is never due in the freeze of a timeout, and the freeze ends no
earlier than it should. What the two exceptions stand for is under *Runs*.

`VotesProofs` proves `PresentVotes`, `NominationsHeard`, `ElectionIsFinal` and `VotesBacked` without assumptions on
the clients: they leave, come and change sides in any topic. `NominationsHeard` rests on that one vote adds at
most one voter, so the exact test cannot be passed over. `ElectionIsFinal` (`SessionInv`) on that, until something is
outdated, an open menu is that of a player while the session runs, or of a slot whose client has left; `VotesBacked`
(`BackedInv`) on that a vote is the vote of a client who sits where he sat when he cast it (`VotersSeated`). Both speak of
behaviours up to the first outdated vote or menu, and `Outdating` says that `outdated`, once set, stays. After it the code fails
both; under *Runs* is how.

`StatsProofs` proves `FirstHalfIsCounted` without rounds decided in their freeze time, with switches of players
allowed; while a complete reset is pending the match has no rounds, and whoever is not there is noted. And
`SharesFitTheSide`: `Spec => []SharesFit` without switches of single players, with rounds decided in their freeze time
allowed. `SharesFit` alone is not inductive: it speaks of the players who are in the game, and one who comes back takes
his damage with him. The invariant (`SharesInv`) has an equation for all who have the side, there or not, so that each
hit adds the same to both of its sides and each change of sides comes with `ResetRound`.

The sums are the library's fold over a finite set, whose value is a choice among the functions that satisfy a
recursion. The induction theorems of the library take operators and cannot be applied, so the lemmas about sums
argue by a least number: that of the smallest set for which a lemma fails, which exists by the theorem on
well-founded orders (`WFMin`), as that one speaks of sets. `FoldExists` and `FoldUnique` show that the recursion has one solution,
`SumEquation` that a sum without one member is what remains; from there on the lemmas (`SumOfFewer`, `SumOfEqual`,
`SumOfMore`) are those one would expect.

`ConnectionsProofs` proves `RetriesWait` (a delay and the time since the client left make up the whole of it) and
`ChatIsLimited`, whose invariant (`Paid`) counts the messages of a slot that were in time: `FloodTime` passes from one
to the next, and each pays for itself and for one early message, because it forgives one; the early messages that are
not paid for are in the counter of the slot, which has a limit. `RefusalIsPending`: `Spec => []RefusalPending`, the
safety half of `RefusedLeave`: a client whom the API refuses has a request of his own in flight, with its time limit, for as
long as he is there and no map change has forgotten it. An answer takes one request away and possibly the client of
its slot; it cannot leave a client without his request, because his own, if it is the one that is taken, refuses him. The
invariant needs that nobody is in two slots. What is left to TLC is that a request in flight comes to its end.

Only model-checked:

* Liveness (`SetupEnds`, `MatchCompletes`, `PickingGoesOn`, `PlayResumes`, `RefusedLeave`), which rests on fairness and
  ENABLED. Of the third and the last the state that the progress starts from is proved (`TurnTimed`, `RefusalPending`).
* The properties where the conditions of their theorems do not hold: a run checks them on its own instance, and the
  list under *Runs* says where they fail.

Every invariant and every safety action property of the passing runs is a theorem. No module declares a RECURSIVE operator.

## Not modelled

The components marked `not_modelled` in `PROJECT.json`. Menus are layout around the question of who may answer
what, which each module states for its own menus. Round damage (`CStatsCommand`) is a table that is cleared and
printed. Text, translation, the command table and the glue to Metamod have no behaviour a model could check. The
bundled headers and libraries (json.hpp, curl, cssdk, metamod) are most of the lines of the repository and none
of the program. Of the modelled components the parts left out are named with each in `PROJECT.json`: printing,
the counters of `CStats` that nothing relates, the dealing of players to teams, bots, bans, and the access flags
of administrators.
