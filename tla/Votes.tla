-------------------------------- MODULE Votes ---------------------------------
(***************************************************************************)
(* The votes of the vote menu that act on the match: surrender (CVoteStop),*)
(* restart of a period (CVoteRestart), change of map (CVoteLevel) and kick *)
(* (CVoteKick).  Each keeps one table of votes by slot, counts it when a   *)
(* vote is cast, and acts when exactly as many votes as needed are there.  *)
(* Timeouts, the fifth item, are in RoundClock.  The marks of the ready    *)
(* system (CReady) are a table as well.  The ballots of a vote session     *)
(* (CVoteMap, CVoteTeam, CVoteOvertime) belong to nobody: they are counted *)
(* by item, and the session ends when there are as many as players.        *)
(*                                                                         *)
(* The tables share nothing but the players, so a behaviour has one topic, *)
(* chosen at the beginning.  The match goes on around the votes: phases,   *)
(* freeze times and the slots EXEC and VOTE are moved by PugMod, and may   *)
(* change here at any time.                                                *)
(*                                                                         *)
(* A client who leaves stays behind as an entity: a menu that shows it can *)
(* still name it, and the menu it had open waits for the next client of    *)
(* its slot, as nothing closes gMenu[slot].  The history variable outdated *)
(* tells that a vote or a menu has outlived what it was about.             *)
(***************************************************************************)
EXTENDS Integers, FiniteSets

CONSTANTS
    Clients, Terrorists,    \* slots of the server; those who start as T
    Maps,                   \* maps.txt; the items of a session
    None,                   \* no item
    PlayersMin,             \* pug_players_min
    VotePercentage,         \* pug_vote_percentage, in percent
    VoteRestartLimit,       \* pug_vote_restart_limit
    Topics,                 \* topics of this instance
    LeaveIn, JoinIn, HalvesIn   \* topics in which clients leave or join, or the phase changes

AllTopics == {"stop", "restart", "level", "kick", "ready", "session"}
Team == {"T", "CT"}
Other(t) == IF t = "T" THEN "CT" ELSE "T"
Halves == {"FIRST_HALF", "SECOND_HALF"}
Phases == {"WARMUP", "START", "HALFTIME", "END"} \cup Halves

ASSUME ClientsAssumption == IsFiniteSet(Clients) /\ Terrorists \subseteq Clients
ASSUME CvarsAssumption == {PlayersMin, VotePercentage, VoteRestartLimit} \subseteq Nat
ASSUME TopicsAssumption == Topics \cup LeaveIn \cup JoinIn \cup HalvesIn \subseteq AllTopics

VARIABLES
    topic,      \* the vote of this behaviour
    state,      \* CPugMod::m_State
    freeze,     \* IsFreezePeriod
    slots,      \* slot EXEC or VOTE is in use
    seat,       \* m_iTeam of every client, or "OUT"
    votes,      \* the table: pairs of a client and what it votes for
    screen,     \* the items that can be chosen in the menu open in a slot, gMenu[slot]
    restarts,   \* CVoteRestart::m_RestartCount
    changing,   \* slot CMAP: a changelevel is pending
    open,       \* CReady::m_Running, or slot VOTE of the session
    elected,    \* the outcome of the last session
    outdated    \* (history) a vote or a menu has outlived the situation it was made in

matchVars == <<state, freeze, slots>>
sessionVars == <<open, elected>>
vars == <<topic, matchVars, seat, votes, screen, restarts, changing, sessionVars, outdated>>

IsLive == state \in Halves
Players == {c \in Clients : seat[c] \in Team}
Members(t) == {c \in Clients : seat[c] = t}
VotersFor(table, what) == {c \in Clients : <<c, what>> \in table}
Percent(n) == (n * VotePercentage) \div 100

Init ==
    /\ topic \in Topics
    /\ state \in {"WARMUP", "START", "FIRST_HALF"} /\ freeze = FALSE /\ slots = FALSE
    /\ seat = [c \in Clients |-> IF c \in Terrorists THEN "T" ELSE "CT"]
    /\ votes = {} /\ screen = [c \in Clients |-> {}]
    /\ restarts = [h \in Halves |-> 0] /\ changing = FALSE
    /\ open = FALSE /\ elected = None /\ outdated = FALSE

-------------------------------------------------------------------------------
(* The votes.                                                              *)

\* A mutant: one vote less is enough.
EnoughLess(table, what, need) == Cardinality(VotersFor(table, what)) >= need - 1

Enough(table, what, need) == Cardinality(VotersFor(table, what)) = need

VoteStop(c) ==
    LET t == seat[c]
        table == votes \cup {<<c, t>>}
    IN /\ topic = "stop"
       /\ t \in Team /\ IsLive /\ ~slots
       /\ <<c, t>> \notin votes
       /\ votes' = table
       /\ state' = IF Enough(table, t, Percent(Cardinality(Members(t)))) THEN "END" ELSE state
       /\ UNCHANGED <<topic, outdated, freeze, slots, seat, screen, restarts, changing, sessionVars>>

VoteRestart(c) ==
    LET table == votes \cup {<<c, "period">>}
    IN /\ topic = "restart"
       /\ seat[c] \in Team /\ VoteRestartLimit # 0 /\ IsLive /\ ~slots /\ ~freeze
       /\ restarts[state] < VoteRestartLimit
       /\ <<c, "period">> \notin votes
       /\ IF Enough(table, "period", Percent(Cardinality(Players)))
          THEN /\ restarts' = [restarts EXCEPT ![state] = @ + 1]
               /\ votes' = {} /\ freeze' = TRUE
          ELSE votes' = table /\ UNCHANGED <<restarts, freeze>>
       /\ UNCHANGED <<topic, outdated, state, slots, seat, screen, changing, sessionVars>>

\* The menu of maps: a map the client has nominated is shown and refused.
LevelMenu(c) ==
    /\ topic = "level"
    /\ seat[c] \in Team /\ (IsLive \/ state = "WARMUP") /\ ~slots
    /\ screen' = [screen EXCEPT ![c] = {m \in Maps : <<c, m>> \notin votes}]
    /\ UNCHANGED <<topic, outdated, matchVars, seat, votes, restarts, changing, sessionVars>>

\* A mutant: the votes are counted before the new one is in the table.
NominatedLate(c, m) == Enough(votes, m, Percent(PlayersMin))

Nominated(c, m) == Enough(votes \cup {<<c, m>>}, m, Percent(PlayersMin))

VoteLevel(c, m) ==
    /\ topic = "level"
    /\ seat[c] # "OUT" /\ m \in screen[c]
    /\ screen' = [screen EXCEPT ![c] = {}]
    /\ votes' = votes \cup {<<c, m>>}
    /\ changing' = (changing \/ Nominated(c, m))
    /\ UNCHANGED <<topic, outdated, matchVars, seat, restarts, sessionVars>>

\* The menu of team-mates, asked for by a team of half the players of a match.
KickMenu(c) ==
    /\ topic = "kick"
    /\ seat[c] \in Team /\ ~slots
    /\ 2 * Cardinality(Players) > PlayersMin
    /\ Cardinality(Members(seat[c])) >= PlayersMin \div 2
    /\ screen' = [screen EXCEPT ![c] = Members(seat[c]) \ {c}]
    /\ UNCHANGED <<topic, outdated, matchVars, seat, votes, restarts, changing, sessionVars>>

\* A mutant: the votes of a client outlive it.
ForgetTarget(table, c) == {v \in table : v[2] # c}

\* ClientDisconnected: CVoteRestart has the handler too, but nobody calls it; ballots have
\* no voter.
Forget(table, c) ==
    IF topic \in {"restart", "session"} THEN table ELSE {v \in table : v[1] # c /\ v[2] # c}

Drop(table, c) ==
    /\ seat' = [seat EXCEPT ![c] = "OUT"]
    /\ votes' = Forget(table, c)

\* The target may have left since the menu was shown: the vote is counted all the same, and
\* with enough of them an empty slot is dropped, which only clears its votes.
VoteKick(c, target) ==
    LET table == votes \cup {<<c, target>>}
    IN /\ topic = "kick"
       /\ seat[c] # "OUT" /\ target \in screen[c]
       /\ screen' = [screen EXCEPT ![c] = {}]
       /\ IF <<c, target>> \notin votes /\ Enough(table, target, Cardinality(Members(seat[c])) - 1)
          THEN Drop(table, target)
          ELSE votes' = table /\ UNCHANGED seat
       /\ UNCHANGED <<topic, outdated, matchVars, restarts, changing, sessionVars>>

-------------------------------------------------------------------------------
(* The ready system.                                                       *)

NextPhase == [WARMUP |-> "START", HALFTIME |-> "SECOND_HALF"]

\* In the warmup, by its beginning or by an administrator, and in a halftime that fails its
\* player check; the marks of before are forgotten.
ReadyLoad ==
    /\ topic = "ready" /\ ~open /\ state \in DOMAIN NextPhase
    /\ open' = TRUE /\ votes' = {}
    /\ UNCHANGED <<topic, outdated, matchVars, seat, screen, restarts, changing, elected>>

ReadyUnload ==
    /\ topic = "ready" /\ open /\ state = "WARMUP"
    /\ open' = FALSE
    /\ UNCHANGED <<topic, outdated, matchVars, seat, votes, screen, restarts, changing, elected>>

\* .ready, and .notready of those who are.
Ready(c) ==
    /\ topic = "ready" /\ open /\ seat[c] \in Team
    /\ votes' = IF <<c, "ready">> \in votes THEN votes \ {<<c, "ready">>}
                ELSE votes \cup {<<c, "ready">>}
    /\ UNCHANGED <<topic, outdated, matchVars, seat, screen, restarts, changing, sessionVars>>

\* The poll of CReady::List; Unload keeps the marks.
ReadyList ==
    /\ topic = "ready" /\ open
    /\ Cardinality(VotersFor(votes, "ready") \cap Players) >= PlayersMin
    /\ open' = FALSE
    /\ state' = NextPhase[state]
    /\ UNCHANGED <<topic, outdated, freeze, slots, seat, votes, screen, restarts, changing, elected>>

-------------------------------------------------------------------------------
(* Sessions: Init, MenuHandle, Stop and GetWinner of the three votes.      *)

\* The players get the menu; those who come later do not.
OpenSession ==
    /\ topic = "session" /\ ~open
    /\ open' = TRUE /\ votes' = {} /\ elected' = None
    /\ screen' = [c \in Clients |-> IF c \in Players THEN Maps ELSE screen[c]]
    /\ UNCHANGED <<topic, outdated, matchVars, seat, restarts, changing>>

\* Any of the items with most ballots: ties are broken by chance.
Winners(table) ==
    {m \in Maps : \A n \in Maps :
        Cardinality(VotersFor(table, m)) >= Cardinality(VotersFor(table, n))}

\* A mutant: the menus of those who have not voted stay open.
HiddenNot == screen

Hidden == [c \in Clients |-> IF c \in Players THEN {} ELSE screen[c]]

StopSession(table) ==
    /\ open' = FALSE /\ screen' = Hidden
    /\ IF table = {} THEN elected' = None ELSE elected' \in Winners(table)

\* Ballots of players who have left count, and so may end the session before all have voted.
Ballot(c, m) ==
    LET table == votes \cup {<<c, m>>}
    IN /\ topic = "session"
       /\ seat[c] # "OUT" /\ m \in screen[c]
       /\ votes' = table
       /\ IF Cardinality(table) >= Cardinality(Players)
          THEN StopSession(table)
          ELSE screen' = [screen EXCEPT ![c] = {}] /\ UNCHANGED sessionVars
       /\ UNCHANGED <<topic, outdated, matchVars, seat, restarts, changing>>

SessionExpires ==
    /\ topic = "session" /\ open
    /\ StopSession(votes)
    /\ UNCHANGED <<topic, outdated, matchVars, seat, votes, restarts, changing>>

-------------------------------------------------------------------------------
(* The players and the match around them.                                  *)

\* Something about c waits to be answered or counted: the menu of its slot, a vote of it or
\* against it, a menu that names it.  Ballots belong to nobody.
Pending(c) ==
    \/ screen[c] # {}
    \/ topic # "session" /\ \E v \in votes : c \in {v[1], v[2]}
    \/ topic = "kick" /\ \E d \in Clients : c \in screen[d]

\* The menu of the slot stays as it is; a vote for a restart stays as well.
Disconnect(c) ==
    /\ topic \in LeaveIn
    /\ seat[c] # "OUT"
    /\ Drop(votes, c)
    /\ outdated' = (outdated \/ (topic = "restart" /\ \E v \in votes : v[1] = c))
    /\ UNCHANGED <<topic, matchVars, screen, restarts, changing, sessionVars>>

\* CPugMod::ClientJoinTeam: in START one may only come to the spectators, and players change
\* their team only before and after a match.
Join(c, t) ==
    /\ topic \in JoinIn
    /\ t # seat[c]
    /\ IF seat[c] \in Team THEN state \in {"WARMUP", "END"}
                          ELSE state = "START" => t = "SPEC"
    /\ seat' = [seat EXCEPT ![c] = t]
    /\ outdated' = (outdated \/ Pending(c))
    /\ UNCHANGED <<topic, matchVars, votes, screen, restarts, changing, sessionVars>>

Swapped == [c \in Clients |-> IF seat[c] \in Team THEN Other(seat[c]) ELSE seat[c]]

NextState ==
    /\ topic \in HalvesIn
    /\ \/ /\ state = "WARMUP" /\ topic # "ready" /\ state' = "FIRST_HALF" /\ UNCHANGED seat
       \/ /\ state = "START" /\ state' = "FIRST_HALF" /\ UNCHANGED seat
       \/ /\ state = "FIRST_HALF" /\ state' = "HALFTIME" /\ UNCHANGED seat
       \/ /\ state = "HALFTIME" /\ state' = "SECOND_HALF" /\ seat' = Swapped
       \/ /\ state = "SECOND_HALF" /\ state' = "END" /\ UNCHANGED seat
       \/ /\ state = "END" /\ state' = "WARMUP" /\ UNCHANGED seat
    /\ open' = (open /\ topic # "ready")
    /\ outdated' = (outdated \/ (topic = "stop" /\ seat' # seat /\ votes # {}))
    /\ UNCHANGED <<topic, freeze, slots, votes, screen, restarts, changing, elected>>

\* Rounds freeze and start (only a restart asks for that), other votes and side swaps begin
\* and end.
Around ==
    /\ \/ topic = "restart" /\ freeze' = ~freeze /\ UNCHANGED slots
       \/ topic \notin {"ready", "session"} /\ slots' = ~slots /\ UNCHANGED freeze
    /\ UNCHANGED <<topic, outdated, state, seat, votes, screen, restarts, changing, sessionVars>>

Next ==
    \/ ReadyLoad \/ ReadyUnload \/ ReadyList \/ OpenSession \/ SessionExpires
    \/ \E c \in Clients :
        \/ Ready(c)
        \/ \E m \in Maps : Ballot(c, m)
        \/ VoteStop(c) \/ VoteRestart(c) \/ LevelMenu(c) \/ KickMenu(c) \/ Disconnect(c)
        \/ \E m \in Maps : VoteLevel(c, m)
        \/ \E target \in Clients : VoteKick(c, target)
        \/ \E t \in Team \cup {"SPEC"} : Join(c, t)
    \/ NextState \/ Around

Spec == Init /\ [][Next]_vars

-------------------------------------------------------------------------------
(* Properties.                                                             *)

\* A vote is the vote of a client who is there: whoever takes a slot later has not voted, and
\* is not ready.  Restarts are left out, whose votes nobody clears.
VotesArePresent ==
    topic \notin {"restart", "session"} => \A v \in votes : seat[v[1]] # "OUT"

\* A nomination is heard: enough votes for a map change it, in whatever order players
\* nominate, leave and come, although votes are counted only when one is cast and the test
\* is for the exact number (a number that is not 0).
NominationHeard ==
    topic = "level" /\ Percent(PlayersMin) > 0 =>
        \A m \in Maps : Cardinality(VotersFor(votes, m)) >= Percent(PlayersMin) => changing

Backed(voters, all) == Cardinality(voters \cap all) >= Percent(Cardinality(all))
NewVotes == votes' \ votes

\* What a vote does is backed by those it is about: a side surrenders with the percentage of
\* the players who are in it, a period is restarted with that of the players in the game, and
\* a client is kicked by all of its team-mates (Cvars.cpp: "Minimum percentage to take
\* actions in vote systems") - until a vote or a menu has become outdated.
VoteIsBacked ==
    [][ ~outdated =>
        /\ topic = "stop" /\ IsLive /\ state' = "END" =>
            \A v \in NewVotes : Backed(VotersFor(votes', v[2]), Members(v[2]))
        /\ \A c \in Clients : VoteRestart(c) /\ restarts' # restarts =>
            Backed(VotersFor(votes, "period") \cup {c}, Players)
        /\ \A c, target \in Clients : VoteKick(c, target) /\ seat' # seat =>
            \A d \in Members(seat[target]) \ {c, target} : <<d, target>> \in votes ]_vars

\* A session has one outcome, which nobody changes afterwards: menus that are still open when
\* it ends, by its last ballot or by its clock, are of slots whose clients have left - until
\* such a slot is taken, or a player leaves its team with the menu open.
OneElection ==
    [][topic = "session" /\ ~open /\ ~open' /\ ~outdated => UNCHANGED <<votes, elected>>]_vars

===============================================================================
