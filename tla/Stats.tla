-------------------------------- MODULE Stats ---------------------------------
(***************************************************************************)
(* CStats (Stats.cpp): the shares of a round won and the rounds played, of *)
(* what the plugin counts for the document that Save posts at the end of a *)
(* match.  The counters of the match (m_Data) and of the round (m_Round)   *)
(* are kept by authentication id, the damage of a side (m_RoundDamage) by  *)
(* the side the attacker had when he hit.  RoundEnd gives each winner his  *)
(* damage over that of his side.                                           *)
(*                                                                         *)
(* Damage is counted in units.  Counters that are incremented and printed  *)
(* (weapons, hit boxes, frags, assists, bombs, money, events) are left out.*)
(***************************************************************************)
EXTENDS Integers, FiniteSets, Functions

CONSTANTS
    Clients, Terrorists,    \* the players; those who start as T
    Health,                 \* units of damage that kill
    MaxRounds,              \* bound: rounds decided in a match
    Events                  \* what may happen besides hits and rounds

Team == {"T", "CT"}
Other(t) == IF t = "T" THEN "CT" ELSE "T"
Halves == {"FIRST_HALF", "SECOND_HALF"}
EventNames == {"Leave", "Switch", "Restart", "EarlyEnd"}

ASSUME ClientsAssumption == IsFiniteSet(Clients) /\ Terrorists \subseteq Clients
ASSUME NumbersAssumption == Health \in Nat \ {0} /\ MaxRounds \in Nat
ASSUME EventsAssumption == Events \subseteq EventNames

VARIABLES
    state,      \* CPugMod::m_State
    played,     \* CPugMod::m_Round of the half
    decided,    \* bound: rounds decided so far
    freeze, over, reset,    \* m_bFreezePeriod, m_bRoundTerminating, m_bCompleteReset
    here,       \* the clients who are in the game
    seat, hp,   \* side and health; the dead have none
    play,       \* m_Data[].Rounds[ROUND_PLAY]
    damage,     \* m_Round[].DamageSum
    sideDamage, \* m_RoundDamage
    away        \* history: clients who were out since the first half began

engineVars == <<freeze, over, reset>>
matchVars == <<state, played, decided>>
playerVars == <<here, seat, hp>>
statsVars == <<play, damage, sideDamage>>
vars == <<matchVars, engineVars, playerVars, statsVars, away>>

IsLive == state \in Halves
Members(t) == {c \in here : seat[c] = t}
Alive(t) == {c \in Members(t) : hp[c] > 0}
Nobody == [c \in Clients |-> 0]
NoSideDamage == [t \in Team |-> 0]

Init ==
    /\ state = "FIRST_HALF" /\ played = 0 /\ decided = 0
    /\ freeze = FALSE /\ over = FALSE /\ reset = TRUE
    /\ here = Clients /\ hp = [c \in Clients |-> Health]
    /\ seat = [c \in Clients |-> IF c \in Terrorists THEN "T" ELSE "CT"]
    /\ play = Nobody /\ damage = Nobody /\ sideDamage = NoSideDamage
    /\ away = {}

-------------------------------------------------------------------------------
(* CStats::Reset and RoundEnd, and the count of CPugMod::RoundEnd.         *)

ResetRound == damage' = Nobody /\ sideDamage' = NoSideDamage

\* A mutant: the match does not look at the pending restart.
CountsFreeze == ~freeze

Counts == ~reset /\ ~freeze

\* A round that somebody won is played by whoever is there.
Decide(winner) ==
    /\ over' = TRUE
    /\ IF winner \in Team
       THEN /\ decided' = decided + 1
            /\ play' = [c \in Clients |-> play[c] + IF c \in here THEN 1 ELSE 0]
            /\ played' = played + IF Counts THEN 1 ELSE 0
       ELSE UNCHANGED <<decided, play, played>>

MayDecide == IsLive /\ ~over /\ decided < MaxRounds

RoundEnd(winner) ==
    /\ MayDecide /\ (freeze => "EarlyEnd" \in Events)
    /\ Decide(winner)
    /\ UNCHANGED <<state, freeze, reset, playerVars, damage, sideDamage, away>>

-------------------------------------------------------------------------------
(* Hits and kills.                                                         *)

\* CBasePlayer::TakeDamage of the engine kills, and ends the round of a side that has lost its
\* last player, before the hook counts the damage: the hit that decides a round is not in
\* the shares of that round.
Hit(a, v, units) ==
    /\ IsLive /\ ~freeze
    /\ a \in Alive(seat[a]) /\ v \in Alive(Other(seat[a])) /\ units <= hp[v]
    /\ hp' = [hp EXCEPT ![v] = @ - units]
    /\ IF units = hp[v] /\ Alive(seat[v]) = {v} /\ ~over
       THEN decided < MaxRounds /\ Decide(seat[a])
       ELSE UNCHANGED <<over, decided, play, played>>
    /\ damage' = [damage EXCEPT ![a] = @ + units]
    /\ sideDamage' = [sideDamage EXCEPT ![seat[a]] = @ + units]
    /\ UNCHANGED <<state, freeze, reset, here, seat, away>>

-------------------------------------------------------------------------------
(* The rounds of the engine and the phases of the match.                   *)

\* CStats::RoundRestart clears everything on the complete resets of the first half.
ResetMatch == state = "FIRST_HALF" /\ reset

RestartRound ==
    /\ over \/ reset
    /\ freeze' = TRUE /\ over' = FALSE /\ reset' = FALSE
    /\ hp' = [c \in Clients |-> IF c \in here THEN Health ELSE 0]
    /\ IF ResetMatch
       THEN play' = Nobody /\ ResetRound /\ away' = Clients \ here
       ELSE UNCHANGED <<statsVars, away>>
    /\ UNCHANGED <<matchVars, here, seat>>

\* A mutant: the data of the round survive a change of sides.
ResetsFirst == state = "FIRST_HALF"

\* CStats::RoundFreezeEnd clears the round.
Resets == IsLive

FreezeEnd ==
    /\ freeze
    /\ freeze' = FALSE
    /\ IF Resets THEN ResetRound ELSE UNCHANGED <<damage, sideDamage>>
    /\ UNCHANGED <<matchVars, over, reset, playerVars, play, away>>

\* The players change sides in the halftime; LO3 resets the round of the next half.
NextState ==
    /\ over
    /\ \/ state = "FIRST_HALF" /\ played > 0
          /\ state' = "HALFTIME" /\ UNCHANGED <<played, reset, seat>>
       \/ state = "HALFTIME"
          /\ state' = "SECOND_HALF" /\ played' = 0 /\ reset' = TRUE
          /\ seat' = [c \in Clients |-> Other(seat[c])]
    /\ UNCHANGED <<decided, freeze, over, here, hp, statsVars, away>>

\* CPugMod::RestarPeriod.
RestarPeriod ==
    /\ "Restart" \in Events /\ IsLive
    /\ played' = 0 /\ reset' = TRUE
    /\ UNCHANGED <<state, decided, freeze, over, playerVars, statsVars, away>>

\* Bound: a client leaves once between two complete resets of the first half.
Leave(c) ==
    /\ "Leave" \in Events /\ c \in here \ away
    /\ here' = here \ {c} /\ hp' = [hp EXCEPT ![c] = 0] /\ away' = away \cup {c}
    /\ UNCHANGED <<matchVars, engineVars, seat, statsVars>>

\* A client comes back, on the side of its roster unless Switch is allowed; the engine spawns
\* it at once or lets it wait for the next round.
Return(c, t) ==
    /\ c \notin here
    /\ t = seat[c] \/ "Switch" \in Events
    /\ here' = here \cup {c} /\ seat' = [seat EXCEPT ![c] = t]
    /\ \E health \in {0, Health} : hp' = [hp EXCEPT ![c] = health]
    /\ UNCHANGED <<matchVars, engineVars, statsVars, away>>

Next ==
    \/ \E w \in Team \cup {"DRAW"} : RoundEnd(w)
    \/ \E a, v \in Clients : \E units \in 1..Health : Hit(a, v, units)
    \/ RestartRound \/ FreezeEnd \/ NextState \/ RestarPeriod
    \/ \E c \in Clients : Leave(c) \/ \E t \in Team : Return(c, t)

Spec == Init /\ [][Next]_vars

-------------------------------------------------------------------------------
(* Properties.                                                             *)

DamageOf(t) == FoldFunctionOnSet(+, 0, damage, Members(t))

\* The shares of a round add up to one at most: when a round of the match is decided, nobody's
\* damage counts for a side it was not done for, although sides change in the halftime, rounds
\* are restarted and decided at any moment, and players leave and come back.
SharesFit == IsLive /\ ~freeze /\ ~reset => \A t \in Team : DamageOf(t) <= sideDamage[t]

\* In the first half the rounds of a player who has been there throughout are the rounds of
\* the match, and nobody has more: rounds of the warmup and rounds that a restart has taken
\* back are in neither count.
FirstHalfCounted ==
    state = "FIRST_HALF" /\ ~reset =>
        \A c \in Clients : play[c] <= played /\ (c \notin away => play[c] = played)

===============================================================================
