----------------------------- MODULE VotesProofs ------------------------------
(***************************************************************************)
(* Proofs about Votes: tables hold votes of present clients only, a        *)
(* nomination with enough votes is heard, and, until a vote or a menu is   *)
(* outdated, what a vote does is backed and a session has one outcome.     *)
(***************************************************************************)
EXTENDS Votes, TLAPS, FiniteSetTheorems

Seats == Team \cup {"OUT", "SPEC"}

\* The inductive invariant for the tables, with the types it needs.
SeatsTyped == seat \in [Clients -> Seats]
ScreensTyped == screen = [c \in Clients |-> screen[c]]
VotersTyped == \A v \in votes : v[1] \in Clients /\ (topic = "kick" => v[2] \in Clients)
TablesInv == SeatsTyped /\ VotersTyped /\ VotesArePresent

\* The inductive invariant for sessions: until a menu is outdated, an open menu is that of a
\* player while the session runs, or of a slot whose client has left.
ScreensOfPlayers ==
    topic = "session" /\ ~outdated =>
        \A c \in Clients : screen[c] # {} => (open /\ seat[c] \in Team) \/ seat[c] = "OUT"
SessionInv == SeatsTyped /\ ScreensTyped /\ ScreensOfPlayers

-------------------------------------------------------------------------------

\* Whoever is dropped has no vote left, and loses no vote of others, save those against it:
\* ClientDisconnected of CVoteStop, CVoteLevel and CVoteKick.
LEMMA Forgotten ==
    ASSUME NEW table, NEW c \in Clients, topic \notin {"restart", "session"}
    PROVE  Forget(table, c) = {v \in table : v[1] # c /\ v[2] # c}
    BY DEF Forget

\* The types and the presence of the voters hold at the beginning.
LEMMA TablesInit == Init => TablesInv
    BY TopicsAssumption, ClientsAssumption
    DEF Init, TablesInv, SeatsTyped, VotersTyped, VotesArePresent, Seats, Team

\* A client who is dropped leaves a table of present clients behind.
LEMMA DropKeeps ==
    ASSUME NEW table, NEW c \in Clients, SeatsTyped,
           \A v \in table : v[1] \in Clients /\ (topic = "kick" => v[2] \in Clients),
           topic \notin {"restart", "session"} => \A v \in table : seat[v[1]] # "OUT",
           Drop(table, c), topic' = topic
    PROVE  TablesInv'
    <1>1. SeatsTyped'
        BY DEF SeatsTyped, Drop, Seats
    <1>2. VotersTyped'
        BY DEF Drop, Forget, VotersTyped
    <1>3. VotesArePresent'
        BY DEF Drop, Forget, VotesArePresent, SeatsTyped
    <1> QED  BY <1>1, <1>2, <1>3 DEF TablesInv

\* Every step keeps the types and the presence of the voters.
LEMMA TablesNext == TablesInv /\ [Next]_vars => TablesInv'
    <1> SUFFICES ASSUME TablesInv, [Next]_vars PROVE TablesInv'
        OBVIOUS
    <1> USE DEF TablesInv
    <1>1. CASE ReadyLoad
        BY <1>1 DEF ReadyLoad, SeatsTyped, VotersTyped, VotesArePresent
    <1>2. CASE ReadyUnload
        BY <1>2 DEF ReadyUnload, SeatsTyped, VotersTyped, VotesArePresent
    <1>3. CASE ReadyList
        BY <1>3 DEF ReadyList, SeatsTyped, VotersTyped, VotesArePresent
    <1>4. CASE OpenSession
        BY <1>4 DEF OpenSession, SeatsTyped, VotersTyped, VotesArePresent
    <1>5. CASE SessionExpires
        BY <1>5 DEF SessionExpires, SeatsTyped, VotersTyped, VotesArePresent
    <1>6. ASSUME NEW c \in Clients, Ready(c) PROVE TablesInv'
        BY <1>6 DEF Ready, SeatsTyped, VotersTyped, VotesArePresent, Team
    <1>7. ASSUME NEW c \in Clients, NEW m \in Maps, Ballot(c, m) PROVE TablesInv'
        BY <1>7 DEF Ballot, SeatsTyped, VotersTyped, VotesArePresent
    <1>8. ASSUME NEW c \in Clients, VoteStop(c) PROVE TablesInv'
        BY <1>8 DEF VoteStop, SeatsTyped, VotersTyped, VotesArePresent, Team
    <1>9. ASSUME NEW c \in Clients, VoteRestart(c) PROVE TablesInv'
        <2>1. topic = "restart" /\ topic' = topic /\ seat' = seat
            BY <1>9 DEF VoteRestart
        <2>2. votes' = {} \/ votes' = votes \cup {<<c, "period">>}
            BY <1>9 DEF VoteRestart
        <2> QED  BY <2>1, <2>2 DEF SeatsTyped, VotersTyped, VotesArePresent
    <1>10. ASSUME NEW c \in Clients, LevelMenu(c) PROVE TablesInv'
        BY <1>10 DEF LevelMenu, SeatsTyped, VotersTyped, VotesArePresent
    <1>11. ASSUME NEW c \in Clients, KickMenu(c) PROVE TablesInv'
        BY <1>11 DEF KickMenu, SeatsTyped, VotersTyped, VotesArePresent
    <1>12. ASSUME NEW c \in Clients, Disconnect(c) PROVE TablesInv'
        <2>1. Drop(votes, c) /\ topic' = topic
            BY <1>12 DEF Disconnect
        <2> QED  BY <2>1, DropKeeps DEF VotersTyped, VotesArePresent
    <1>13. ASSUME NEW c \in Clients, NEW m \in Maps, VoteLevel(c, m) PROVE TablesInv'
        BY <1>13 DEF VoteLevel, SeatsTyped, VotersTyped, VotesArePresent
    <1>14. ASSUME NEW c \in Clients, NEW target \in Clients, VoteKick(c, target)
           PROVE  TablesInv'
        <2> DEFINE table == votes \cup {<<c, target>>}
        <2>1. /\ topic = "kick" /\ topic' = topic
              /\ seat[c] # "OUT"
              /\ \/ Drop(table, target)
                 \/ votes' = table /\ seat' = seat
            BY <1>14 DEF VoteKick
        <2>2. \A v \in table : v[1] \in Clients /\ v[2] \in Clients /\ seat[v[1]] # "OUT"
            BY <2>1 DEF VotersTyped, VotesArePresent
        <2>3. CASE votes' = table /\ seat' = seat
            BY <2>1, <2>2, <2>3 DEF SeatsTyped, VotersTyped, VotesArePresent
        <2>4. CASE Drop(table, target)
            <3> HIDE DEF table
            <3> QED  BY <2>1, <2>2, <2>4, DropKeeps
        <2> QED  BY <2>1, <2>3, <2>4
    <1>15. ASSUME NEW c \in Clients, NEW t \in Team \cup {"SPEC"}, Join(c, t)
           PROVE  TablesInv'
        <2>1. seat' = [seat EXCEPT ![c] = t] /\ UNCHANGED <<topic, votes>>
            BY <1>15 DEF Join
        <2> QED  BY <2>1 DEF SeatsTyped, VotersTyped, VotesArePresent, Seats, Team
    <1>16. CASE NextState
        <2>1. (seat' = seat \/ seat' = Swapped) /\ UNCHANGED <<topic, votes>>
            BY <1>16 DEF NextState
        <2> QED  BY <2>1 DEF Swapped, Other, SeatsTyped, VotersTyped, VotesArePresent, Seats, Team
    <1>17. CASE Around
        BY <1>17 DEF Around, SeatsTyped, VotersTyped, VotesArePresent
    <1>18. CASE UNCHANGED vars
        BY <1>18 DEF vars, matchVars, sessionVars, SeatsTyped, VotersTyped, VotesArePresent
    <1> QED
        BY <1>1, <1>2, <1>3, <1>4, <1>5, <1>6, <1>7, <1>8, <1>9, <1>10, <1>11, <1>12, <1>13,
           <1>14, <1>15, <1>16, <1>17, <1>18 DEF Next

\* For any number of clients and maps, any percentage and every order of votes, kicks, joins
\* and losses, votes against clients who have left included: no vote is of a client who is
\* gone, so that whoever takes a slot has not voted.
THEOREM PresentVotes == Spec => []VotesArePresent
    <1>1. TablesInv => VotesArePresent
        BY DEF TablesInv
    <1> QED  BY <1>1, TablesInit, TablesNext, PTL DEF Spec

-------------------------------------------------------------------------------

\* At the beginning nobody has a menu.
LEMMA SessionInit == Init => SessionInv
    BY ClientsAssumption
    DEF Init, SessionInv, SeatsTyped, ScreensTyped, ScreensOfPlayers, Seats, Team

\* What is outdated stays so.
LEMMA Outdating == [Next]_vars => (outdated => outdated')
    BY DEF Next, ReadyLoad, ReadyUnload, ReadyList, OpenSession, SessionExpires, Ready,
           Ballot, VoteStop, VoteRestart, LevelMenu, KickMenu, Disconnect, VoteLevel,
           VoteKick, Join, NextState, Around, vars

\* In a session only its own steps, and the players who come and go, change anything; each
\* of them keeps menus with players and with slots that are empty.
LEMMA SessionNext == SessionInv /\ [Next]_vars => SessionInv'
    <1> SUFFICES ASSUME SessionInv, [Next]_vars PROVE SessionInv'
        OBVIOUS
    <1> USE DEF SessionInv
    <1>1. SeatsTyped'
        <2>1. seat' = seat \/ seat' = Swapped
              \/ (\E c \in Clients : \E t \in Seats : seat' = [seat EXCEPT ![c] = t])
            <3>1. ASSUME NEW c \in Clients, Drop(votes, c) \/ Disconnect(c)
                  PROVE  \E t \in Seats : seat' = [seat EXCEPT ![c] = t]
                BY <3>1 DEF Drop, Disconnect, Seats
            <3>2. ASSUME NEW c \in Clients, NEW target \in Clients, VoteKick(c, target)
                  PROVE  seat' = seat \/ \E t \in Seats : seat' = [seat EXCEPT ![target] = t]
                BY <3>2 DEF VoteKick, Drop, Seats
            <3>3. ASSUME NEW c \in Clients, NEW t \in Team \cup {"SPEC"}, Join(c, t)
                  PROVE  t \in Seats /\ seat' = [seat EXCEPT ![c] = t]
                BY <3>3 DEF Join, Seats
            <3>4. ASSUME ReadyLoad \/ ReadyUnload \/ ReadyList \/ OpenSession \/ SessionExpires
                         \/ Around \/ UNCHANGED vars
                  PROVE  seat' = seat
                BY <3>4 DEF ReadyLoad, ReadyUnload, ReadyList, OpenSession, SessionExpires,
                            Around, vars
            <3>5. ASSUME NEW c \in Clients, Ready(c) \/ VoteStop(c) \/ VoteRestart(c)
                         \/ LevelMenu(c) \/ KickMenu(c)
                  PROVE  seat' = seat
                BY <3>5 DEF Ready, VoteStop, VoteRestart, LevelMenu, KickMenu
            <3>6. ASSUME NEW c \in Clients, NEW m \in Maps, Ballot(c, m) \/ VoteLevel(c, m)
                  PROVE  seat' = seat
                BY <3>6 DEF Ballot, VoteLevel
            <3>7. CASE NextState
                BY <3>7 DEF NextState
            <3> QED  BY <3>1, <3>2, <3>3, <3>4, <3>5, <3>6, <3>7 DEF Next
        <2>2. Swapped \in [Clients -> Seats]
            BY DEF Swapped, Other, SeatsTyped, Seats, Team
        <2> QED  BY <2>1, <2>2 DEF SeatsTyped
    <1>2. ScreensTyped'
        <2>1. ASSUME NEW c \in Clients, LevelMenu(c) \/ KickMenu(c)
              PROVE  ScreensTyped'
            BY <2>1 DEF LevelMenu, KickMenu, ScreensTyped
        <2>2. ASSUME NEW c \in Clients, NEW m \in Maps, Ballot(c, m) \/ VoteLevel(c, m)
              PROVE  ScreensTyped'
            BY <2>2 DEF Ballot, StopSession, Hidden, VoteLevel, ScreensTyped
        <2>3. ASSUME NEW c \in Clients, NEW target \in Clients, VoteKick(c, target)
              PROVE  ScreensTyped'
            BY <2>3 DEF VoteKick, ScreensTyped
        <2>4. CASE OpenSession \/ SessionExpires
            BY <2>4 DEF OpenSession, SessionExpires, StopSession, Hidden, ScreensTyped
        <2>5. ASSUME ReadyLoad \/ ReadyUnload \/ ReadyList \/ NextState \/ Around
                     \/ UNCHANGED vars
              PROVE  ScreensTyped'
            BY <2>5 DEF ReadyLoad, ReadyUnload, ReadyList, NextState, Around, vars, ScreensTyped
        <2>6. ASSUME NEW c \in Clients, Ready(c) \/ VoteStop(c) \/ VoteRestart(c)
              PROVE  ScreensTyped'
            BY <2>6 DEF Ready, VoteStop, VoteRestart, ScreensTyped
        <2>7. ASSUME NEW c \in Clients, NEW t \in Team \cup {"SPEC"}, Join(c, t) \/ Disconnect(c)
              PROVE  ScreensTyped'
            BY <2>7 DEF Join, Disconnect, ScreensTyped
        <2> QED  BY <2>1, <2>2, <2>3, <2>4, <2>5, <2>6, <2>7 DEF Next, Team
    <1>3. ScreensOfPlayers'
        <2> SUFFICES ASSUME topic' = "session", ~outdated' PROVE ScreensOfPlayers'
            BY DEF ScreensOfPlayers
        <2>0. ~outdated
            BY Outdating
        <2>1. topic = "session"
            BY DEF Next, ReadyLoad, ReadyUnload, ReadyList, OpenSession, SessionExpires, Ready,
                   Ballot, VoteStop, VoteRestart, LevelMenu, KickMenu, Disconnect, VoteLevel,
                   VoteKick, Join, NextState, Around, vars
        <2>2. CASE OpenSession
            BY <2>0, <2>1, <2>2 DEF OpenSession, Players, ScreensOfPlayers
        <2>3. CASE SessionExpires
            BY <2>0, <2>1, <2>3 DEF SessionExpires, StopSession, Hidden, Players, ScreensOfPlayers
        <2>4. ASSUME NEW c \in Clients, NEW m \in Maps, Ballot(c, m) PROVE ScreensOfPlayers'
            <3>1. seat' = seat
                BY <2>4 DEF Ballot
            <3>2. \/ screen' = Hidden
                  \/ screen' = [screen EXCEPT ![c] = {}] /\ (open => open')
                BY <2>4 DEF Ballot, StopSession, sessionVars
            <3> QED  BY <2>0, <2>1, <3>1, <3>2 DEF Hidden, Players, ScreensTyped, ScreensOfPlayers
        <2>5. ASSUME NEW c \in Clients, Disconnect(c) PROVE ScreensOfPlayers'
            <3>1. seat' = [seat EXCEPT ![c] = "OUT"] /\ open' = open /\ screen' = screen
                BY <2>5 DEF Disconnect, Drop, sessionVars
            <3> QED  BY <2>0, <2>1, <3>1 DEF SeatsTyped, ScreensOfPlayers
        <2>6. ASSUME NEW c \in Clients, NEW t \in Team \cup {"SPEC"}, Join(c, t)
              PROVE  ScreensOfPlayers'
            <3>1. /\ screen[c] = {} /\ seat' = [seat EXCEPT ![c] = t]
                  /\ screen' = screen /\ open' = open
                BY <2>6 DEF Join, Pending, sessionVars
            <3> QED  BY <2>0, <2>1, <3>1 DEF SeatsTyped, ScreensOfPlayers
        <2>7. CASE NextState
            <3>1. /\ screen' = screen /\ (open => open')
                  /\ seat' = seat \/ seat' = Swapped
                BY <2>0, <2>1, <2>7 DEF NextState, ScreensOfPlayers
            <3> QED  BY <2>0, <2>1, <3>1 DEF Swapped, Other, ScreensOfPlayers, Team
        <2>8. CASE Around \/ UNCHANGED vars
            BY <2>0, <2>1, <2>8 DEF Around, vars, sessionVars, ScreensOfPlayers
        <2> QED
            BY <2>0, <2>1, <2>2, <2>3, <2>4, <2>5, <2>6, <2>7, <2>8
            DEF Next, ReadyLoad, ReadyUnload, ReadyList, Ready, VoteStop, VoteRestart,
                LevelMenu, KickMenu, VoteLevel, VoteKick
    <1> QED  BY <1>1, <1>2, <1>3

\* A closed session stays as it is.
LEMMA SessionStep ==
    ASSUME SessionInv, [Next]_vars, topic = "session", ~open, ~open', ~outdated
    PROVE  UNCHANGED <<votes, elected>>
    <1>1. \A c \in Clients : screen[c] # {} => seat[c] = "OUT"
        BY DEF SessionInv, ScreensOfPlayers
    <1>2. ASSUME NEW c \in Clients, Disconnect(c) PROVE UNCHANGED <<votes, elected>>
        BY <1>2 DEF Disconnect, Drop, Forget, sessionVars
    <1>3. ASSUME NEW c \in Clients, NEW m \in Maps, Ballot(c, m) PROVE FALSE
        BY <1>1, <1>3 DEF Ballot
    <1> QED
        BY <1>2, <1>3
        DEF Next, ReadyLoad, ReadyUnload, ReadyList, OpenSession, SessionExpires, Ready,
            VoteStop, VoteRestart, LevelMenu, KickMenu, VoteLevel, VoteKick, Join, NextState,
            Around, vars, sessionVars

\* The outcome of a session is final, for any number of clients and items, in every order of
\* ballots, joins and losses, and however the session ends, until a menu is outdated: the
\* slot of a client who left with the menu open is taken, or a player leaves its team.
THEOREM ElectionIsFinal == Spec => OneElection
    <1>1. SessionInv /\ [Next]_vars
          => [topic = "session" /\ ~open /\ ~open' /\ ~outdated => UNCHANGED <<votes, elected>>]_vars
        BY SessionStep
    <1> QED  BY <1>1, SessionInit, SessionNext, PTL DEF Spec, OneElection

-------------------------------------------------------------------------------

\* The number of votes asked for is a number.
LEMMA NeedType == Percent(PlayersMin) \in Int
    BY CvarsAssumption DEF Percent

\* The voters are finitely many, and no more when votes are taken away.
LEMMA FewerVoters ==
    ASSUME NEW table, NEW less, NEW m, less \subseteq table
    PROVE  /\ Cardinality(VotersFor(table, m)) \in Nat
           /\ Cardinality(VotersFor(less, m)) \in Nat
           /\ Cardinality(VotersFor(less, m)) <= Cardinality(VotersFor(table, m))
    <1>1. VotersFor(table, m) \subseteq Clients /\ VotersFor(less, m) \subseteq VotersFor(table, m)
        BY DEF VotersFor
    <1>2. IsFiniteSet(VotersFor(table, m)) /\ IsFiniteSet(VotersFor(less, m))
        BY <1>1, ClientsAssumption, FS_Subset
    <1> QED  BY <1>1, <1>2, FS_Subset, FS_CardinalityType

\* One vote more is at most one voter more.
LEMMA OneVoterMore ==
    ASSUME NEW table, NEW c \in Clients, NEW m
    PROVE  Cardinality(VotersFor(table \cup {<<c, m>>}, m))
               \in {Cardinality(VotersFor(table, m)), Cardinality(VotersFor(table, m)) + 1}
    <1> DEFINE voters == VotersFor(table, m)
    <1>1. VotersFor(table \cup {<<c, m>>}, m) = voters \cup {c}
        BY DEF VotersFor
    <1>2. IsFiniteSet(voters)
        <2>1. voters \subseteq Clients
            BY DEF VotersFor
        <2> QED  BY <2>1, ClientsAssumption, FS_Subset
    <1>3. Cardinality(voters \cup {c})
              = IF c \in voters THEN Cardinality(voters) ELSE Cardinality(voters) + 1
        <2> HIDE DEF voters
        <2> QED  BY <1>2, FS_AddElement
    <1> QED  BY <1>1, <1>3

\* No nomination is heard of at the beginning, as there is none.
LEMMA NominationInit == Init => NominationHeard
    <1> SUFFICES ASSUME Init, Percent(PlayersMin) > 0, NEW m \in Maps,
                        Cardinality(VotersFor(votes, m)) >= Percent(PlayersMin)
                 PROVE  FALSE
        BY DEF NominationHeard
    <1>1. VotersFor(votes, m) = {}
        BY DEF Init, VotersFor
    <1> QED  BY <1>1, FS_EmptySet, NeedType

\* A vote is counted when it is cast, so that the number needed is never passed unnoticed.
LEMMA NominationNext == NominationHeard /\ [Next]_vars => NominationHeard'
    <1> SUFFICES ASSUME NominationHeard, [Next]_vars,
                        topic' = "level", Percent(PlayersMin) > 0, NEW m \in Maps,
                        Cardinality(VotersFor(votes', m)) >= Percent(PlayersMin)
                 PROVE  changing'
        <2>1. Percent(PlayersMin)' = Percent(PlayersMin)
            BY DEF Percent
        <2>2. \A n \in Maps : VotersFor(votes, n)' = VotersFor(votes', n)
            BY DEF VotersFor
        <2> QED  BY <2>1, <2>2 DEF NominationHeard
    <1>1. topic = "level"
        BY DEF Next, ReadyLoad, ReadyUnload, ReadyList, OpenSession, SessionExpires, Ready,
               Ballot, VoteStop, VoteRestart, LevelMenu, KickMenu, Disconnect, VoteLevel,
               VoteKick, Join, NextState, Around, vars
    <1>2. Cardinality(VotersFor(votes, m)) >= Percent(PlayersMin) => changing
        BY <1>1 DEF NominationHeard
    <1>3. ASSUME votes' \subseteq votes, changing' = changing PROVE changing'
        BY <1>2, <1>3, FewerVoters, NeedType
    <1>4. ASSUME NEW c \in Clients, NEW n \in Maps, VoteLevel(c, n) PROVE changing'
        <2>1. votes' = votes \cup {<<c, n>>} /\ changing' = (changing \/ Nominated(c, n))
            BY <1>4 DEF VoteLevel
        <2>2. CASE n # m
            <3>1. VotersFor(votes', m) = VotersFor(votes, m)
                BY <2>1, <2>2 DEF VotersFor
            <3> QED  BY <1>2, <2>1, <3>1
        <2>3. CASE n = m
            <3>1. CASE Cardinality(VotersFor(votes, m)) >= Percent(PlayersMin)
                BY <1>2, <2>1, <3>1
            <3>2. CASE ~(Cardinality(VotersFor(votes, m)) >= Percent(PlayersMin))
                <4>1. Cardinality(VotersFor(votes', m)) = Percent(PlayersMin)
                    BY <2>1, <2>3, <3>2, OneVoterMore, FewerVoters, NeedType
                <4> QED  BY <2>1, <2>3, <4>1 DEF Nominated, Enough
            <3> QED  BY <3>1, <3>2
        <2> QED  BY <2>2, <2>3
    <1>5. ASSUME NEW c \in Clients, Disconnect(c) PROVE changing'
        BY <1>3, <1>5 DEF Disconnect, Drop, Forget
    <1> QED
        BY <1>1, <1>3, <1>4, <1>5
        DEF Next, ReadyLoad, ReadyUnload, ReadyList, OpenSession, SessionExpires, Ready,
            Ballot, VoteStop, VoteRestart, LevelMenu, KickMenu, VoteKick, Join, NextState,
            Around, vars

\* For any number of clients and maps and any positive number of votes needed: the test for
\* the exact number never misses the nomination that passes it.
THEOREM NominationsHeard == Spec => []NominationHeard
    BY NominationInit, NominationNext, PTL DEF Spec

-------------------------------------------------------------------------------
(* What a vote does is backed.                                             *)

\* Until something is outdated, who votes sits where the vote counts, and the menus to kick
\* show team-mates and those who have left.
VotersSeated ==
    /\ topic = "stop" => \A v \in votes : v[2] \in Team /\ seat[v[1]] = v[2]
    /\ topic = "restart" => \A v \in votes : seat[v[1]] \in Team
    /\ topic = "kick" =>
        /\ \A v \in votes :
               v[1] # v[2] /\ seat[v[1]] \in Team /\ seat[v[2]] \in {seat[v[1]], "OUT"}
        /\ \A c \in Clients : seat[c] # "OUT" => \A d \in screen[c] :
               d \in Clients /\ d # c /\ seat[c] \in Team /\ seat[d] \in {seat[c], "OUT"}
BackedInv == TablesInv /\ ScreensTyped /\ (~outdated => VotersSeated)

LEMMA BackedInit == Init => BackedInv
    BY TablesInit, ClientsAssumption
    DEF Init, BackedInv, ScreensTyped, VotersSeated

\* Who is dropped takes its votes and the votes against it along.
LEMMA DropKeepsSeats ==
    ASSUME BackedInv, VotersSeated, NEW table, NEW c \in Clients, Drop(table, c),
           topic # "restart", topic' = topic,
           \A v \in table : v[1] \in Clients /\ (topic = "kick" => v[2] \in Clients),
           topic = "stop" => \A v \in table : v[2] \in Team /\ seat[v[1]] = v[2],
           topic = "kick" =>
               \A v \in table :
                   v[1] # v[2] /\ seat[v[1]] \in Team /\ seat[v[2]] \in {seat[v[1]], "OUT"},
           \A d \in Clients : screen'[d] \in {screen[d], {}}
    PROVE  VotersSeated'
    <1>1. /\ seat' = [seat EXCEPT ![c] = "OUT"] /\ seat \in [Clients -> Seats]
          /\ topic \in {"stop", "kick"} => votes' = {v \in table : v[1] # c /\ v[2] # c}
        BY DEF Drop, Forget, BackedInv, TablesInv, SeatsTyped
    <1>2. topic = "stop" => \A v \in votes' : v[2] \in Team /\ seat'[v[1]] = v[2]
        BY <1>1
    <1>3. topic = "kick" => \A v \in votes' :
              v[1] # v[2] /\ seat'[v[1]] \in Team /\ seat'[v[2]] \in {seat'[v[1]], "OUT"}
        BY <1>1
    <1>4. ASSUME topic = "kick", NEW b \in Clients, seat'[b] # "OUT", NEW d \in screen'[b]
          PROVE  d \in Clients /\ d # b /\ seat'[b] \in Team /\ seat'[d] \in {seat'[b], "OUT"}
        <2>1. d \in screen[b] /\ seat[b] = seat'[b]
            BY <1>1, <1>4
        <2>2. d \in Clients /\ d # b /\ seat[b] \in Team /\ seat[d] \in {seat[b], "OUT"}
            BY <1>4, <2>1 DEF VotersSeated
        <2>3. seat'[d] \in {seat[d], "OUT"}
            BY <1>1, <2>2
        <2> QED  BY <2>1, <2>2, <2>3
    <1> QED  BY <1>2, <1>3, <1>4 DEF VotersSeated

\* Every step keeps voters where their votes count.
LEMMA BackedNext ==
    ASSUME BackedInv, [Next]_vars
    PROVE  BackedInv'
    <1>1. TablesInv'
        BY TablesNext DEF BackedInv
    <1>2. ScreensTyped'
        <2>1. ASSUME NEW c \in Clients, LevelMenu(c) \/ KickMenu(c)
              PROVE  ScreensTyped'
            BY <2>1 DEF LevelMenu, KickMenu, BackedInv, ScreensTyped
        <2>2. ASSUME NEW c \in Clients, NEW m \in Maps, Ballot(c, m) \/ VoteLevel(c, m)
              PROVE  ScreensTyped'
            BY <2>2 DEF Ballot, StopSession, Hidden, VoteLevel, BackedInv, ScreensTyped
        <2>3. ASSUME NEW c \in Clients, NEW target \in Clients, VoteKick(c, target)
              PROVE  ScreensTyped'
            BY <2>3 DEF VoteKick, BackedInv, ScreensTyped
        <2>4. CASE OpenSession \/ SessionExpires
            BY <2>4 DEF OpenSession, SessionExpires, StopSession, Hidden, ScreensTyped
        <2>5. ASSUME ReadyLoad \/ ReadyUnload \/ ReadyList \/ NextState \/ Around
                     \/ UNCHANGED vars
              PROVE  ScreensTyped'
            BY <2>5 DEF ReadyLoad, ReadyUnload, ReadyList, NextState, Around, vars, BackedInv,
                        ScreensTyped
        <2>6. ASSUME NEW c \in Clients, Ready(c) \/ VoteStop(c) \/ VoteRestart(c)
              PROVE  ScreensTyped'
            BY <2>6 DEF Ready, VoteStop, VoteRestart, BackedInv, ScreensTyped
        <2>7. ASSUME NEW c \in Clients, NEW t \in Team \cup {"SPEC"}, Join(c, t) \/ Disconnect(c)
              PROVE  ScreensTyped'
            BY <2>7 DEF Join, Disconnect, BackedInv, ScreensTyped
        <2> QED  BY <2>1, <2>2, <2>3, <2>4, <2>5, <2>6, <2>7 DEF Next, Team
    <1>3. ASSUME ~outdated' PROVE VotersSeated'
        <2> SUFFICES ASSUME topic' \in {"stop", "restart", "kick"} PROVE VotersSeated'
            BY DEF VotersSeated
        <2>0. ~outdated /\ VotersSeated
            BY <1>3, Outdating DEF BackedInv
        <2> USE <2>0
        <2>1. topic' = topic
            BY DEF Next, ReadyLoad, ReadyUnload, ReadyList, OpenSession, SessionExpires, Ready,
                   Ballot, VoteStop, VoteRestart, LevelMenu, KickMenu, Disconnect, VoteLevel,
                   VoteKick, Join, NextState, Around, vars
        <2>2. ASSUME NEW c \in Clients, VoteStop(c) PROVE VotersSeated'
            BY <2>2 DEF VoteStop, BackedInv, VotersSeated
        <2>3. ASSUME NEW c \in Clients, VoteRestart(c) PROVE VotersSeated'
            <3>1. topic' = "restart" /\ seat[c] \in Team /\ seat' = seat
                BY <2>3 DEF VoteRestart
            <3>2. votes' = {} \/ votes' = votes \cup {<<c, "period">>}
                BY <2>3 DEF VoteRestart
            <3> QED  BY <2>1, <3>1, <3>2 DEF BackedInv, VotersSeated
        <2>4. ASSUME NEW c \in Clients, KickMenu(c) PROVE VotersSeated'
            <3>1. /\ topic = "kick" /\ topic' = "kick" /\ votes' = votes /\ seat' = seat
                  /\ seat[c] \in Team
                  /\ screen' = [screen EXCEPT ![c] = Members(seat[c]) \ {c}]
                BY <2>4 DEF KickMenu
            <3>2. ASSUME NEW b \in Clients, seat[b] # "OUT", NEW d \in screen'[b]
                  PROVE  d \in Clients /\ d # b /\ seat[b] \in Team /\ seat[d] \in {seat[b], "OUT"}
                <4>1. CASE b = c
                    BY <3>1, <3>2, <4>1 DEF BackedInv, ScreensTyped, Members
                <4>2. CASE b # c
                    BY <3>1, <3>2, <4>2 DEF BackedInv, ScreensTyped, VotersSeated
                <4> QED  BY <4>1, <4>2
            <3> QED  BY <3>1, <3>2 DEF BackedInv, VotersSeated
        <2>5. ASSUME NEW c \in Clients, Disconnect(c) PROVE VotersSeated'
            <3>1. Drop(votes, c) /\ screen' = screen
                BY <2>5 DEF Disconnect
            <3>2. CASE topic = "restart"
                <4>1. \A v \in votes : v[1] # c
                    BY <1>3, <2>5, <3>2 DEF Disconnect
                <4>2. votes' = votes /\ seat' = [seat EXCEPT ![c] = "OUT"]
                    BY <3>1, <3>2 DEF Drop, Forget
                <4> QED  BY <2>1, <3>2, <4>1, <4>2 DEF BackedInv, TablesInv, VotersTyped,
                                                     SeatsTyped, VotersSeated
            <3>3. CASE topic # "restart"
                BY <2>1, <3>1, <3>3, DropKeepsSeats
                DEF BackedInv, TablesInv, VotersTyped, VotersSeated
            <3> QED  BY <3>2, <3>3
        <2>6. ASSUME NEW c \in Clients, NEW target \in Clients, VoteKick(c, target)
              PROVE  VotersSeated'
            <3> DEFINE table == votes \cup {<<c, target>>}
            <3>1. /\ topic = "kick" /\ topic' = "kick"
                  /\ seat[c] # "OUT" /\ target \in screen[c]
                  /\ screen' = [screen EXCEPT ![c] = {}]
                  /\ \/ Drop(table, target)
                     \/ votes' = table /\ seat' = seat
                BY <2>6 DEF VoteKick
            <3>2. c # target /\ seat[c] \in Team /\ seat[target] \in {seat[c], "OUT"}
                BY <3>1 DEF BackedInv, VotersSeated
            <3>3. \A v \in table : /\ v[1] \in Clients /\ v[2] \in Clients
                                   /\ v[1] # v[2] /\ seat[v[1]] \in Team
                                   /\ seat[v[2]] \in {seat[v[1]], "OUT"}
                BY <3>1, <3>2 DEF BackedInv, TablesInv, VotersTyped, VotersSeated
            <3>4. \A d \in Clients : screen'[d] \in {screen[d], {}}
                BY <3>1 DEF BackedInv, ScreensTyped
            <3>5. CASE votes' = table /\ seat' = seat
                BY <3>1, <3>3, <3>4, <3>5 DEF BackedInv, VotersSeated
            <3>6. CASE Drop(table, target)
                <4> HIDE DEF table
                <4> QED  BY <3>1, <3>3, <3>4, <3>6, DropKeepsSeats
            <3> QED  BY <3>1, <3>5, <3>6
        <2>7. ASSUME NEW c \in Clients, NEW t \in Team \cup {"SPEC"}, Join(c, t)
              PROVE  VotersSeated'
            <3>1. /\ votes' = votes /\ screen' = screen /\ seat' = [seat EXCEPT ![c] = t]
                  /\ screen[c] = {} /\ \A v \in votes : c # v[1] /\ c # v[2]
                  /\ topic = "kick" => \A d \in Clients : c \notin screen[d]
                BY <1>3, <2>1, <2>7 DEF Join, Pending
            <3>2. \A d \in Clients : d # c => seat'[d] = seat[d]
                BY <3>1 DEF BackedInv, TablesInv, SeatsTyped
            <3> HIDE <2>7
            <3>3. CASE topic # "kick"
                BY <2>1, <3>1, <3>2, <3>3 DEF BackedInv, TablesInv, VotersTyped, VotersSeated
            <3>4. CASE topic = "kick"
                <4>1. \A v \in votes' : /\ v[1] # v[2] /\ seat'[v[1]] \in Team
                                        /\ seat'[v[2]] \in {seat'[v[1]], "OUT"}
                    BY <3>1, <3>2, <3>4 DEF BackedInv, TablesInv, VotersTyped, VotersSeated
                <4>2. ASSUME NEW b \in Clients, seat'[b] # "OUT", NEW d \in screen'[b]
                      PROVE  d \in Clients /\ d # b /\ seat'[b] \in Team
                             /\ seat'[d] \in {seat'[b], "OUT"}
                    <5>1. b # c /\ d # c
                        BY <3>1, <3>4, <4>2
                    <5> QED  BY <3>1, <3>2, <3>4, <4>2, <5>1 DEF VotersSeated
                <4> QED  BY <2>1, <3>4, <4>1, <4>2 DEF VotersSeated
            <3> QED  BY <3>3, <3>4
        <2>8. CASE NextState
            <3>1. /\ votes' = votes /\ screen' = screen /\ (seat' = seat \/ seat' = Swapped)
                  /\ topic = "stop" => seat' = seat \/ votes = {}
                BY <1>3, <2>1, <2>8 DEF NextState
            <3>2. CASE seat' = seat \/ topic = "stop"
                BY <2>1, <3>1, <3>2 DEF VotersSeated
            <3>3. CASE seat' = Swapped /\ topic # "stop"
                <4>1. \A c \in Clients :
                          seat'[c] = IF seat[c] \in Team THEN Other(seat[c]) ELSE seat[c]
                    BY <3>3 DEF Swapped
                <4>2. \A c, d \in Clients :
                          /\ seat[c] \in Team => seat'[c] \in Team
                          /\ seat'[c] # "OUT" => seat[c] # "OUT"
                          /\ seat[d] \in {seat[c], "OUT"} => seat'[d] \in {seat'[c], "OUT"}
                    BY <4>1 DEF Other, Team
                <4> QED
                    BY <2>1, <3>1, <3>3, <4>2 DEF BackedInv, TablesInv, VotersTyped, VotersSeated
            <3> QED  BY <3>1, <3>2, <3>3
        <2>9. CASE Around \/ UNCHANGED vars
            BY <2>9 DEF Around, vars, BackedInv, VotersSeated
        <2> QED
            BY <2>1, <2>2, <2>3, <2>4, <2>5, <2>6, <2>7, <2>8, <2>9
            DEF Next, ReadyLoad, ReadyUnload, ReadyList, Ready, OpenSession, SessionExpires,
                Ballot, LevelMenu, VoteLevel
    <1> QED  BY <1>1, <1>2, <1>3 DEF BackedInv

\* Voters who are all among those concerned, and as many as needed, back a vote.
LEMMA EnoughBacks ==
    ASSUME NEW voters, NEW all, voters \subseteq all,
           Cardinality(voters) = Percent(Cardinality(all)), IsFiniteSet(all)
    PROVE  Backed(voters, all)
    <1>1. voters \cap all = voters
        OBVIOUS
    <1>2. Cardinality(voters) \in Nat
        BY FS_Subset, FS_CardinalityType
    <1> QED  BY <1>1, <1>2 DEF Backed

\* A surrender.
LEMMA StopBacked ==
    ASSUME BackedInv, ~outdated, NEW c \in Clients, VoteStop(c), IsLive, state' = "END", NEW v \in NewVotes
    PROVE  Backed(VotersFor(votes', v[2]), Members(v[2]))
    <1> DEFINE t == seat[c]
    <1>1. /\ topic = "stop" /\ t \in Team /\ votes' = votes \cup {<<c, t>>}
          /\ Enough(votes', t, Percent(Cardinality(Members(t))))
        BY DEF VoteStop, IsLive, Halves
    <1>2. v[2] = t
        BY <1>1 DEF NewVotes
    <1>3. VotersFor(votes', t) \subseteq Members(t)
        BY <1>1 DEF VotersFor, Members, BackedInv, VotersSeated
    <1>4. IsFiniteSet(Members(t))
        <2>1. Members(t) \subseteq Clients
            BY DEF Members
        <2> QED  BY <2>1, ClientsAssumption, FS_Subset
    <1>5. Cardinality(VotersFor(votes', t)) = Percent(Cardinality(Members(t)))
        BY <1>1 DEF Enough
    <1> HIDE DEF t
    <1> QED  BY <1>2, <1>3, <1>4, <1>5, EnoughBacks

\* A restart.
LEMMA RestartBacked ==
    ASSUME BackedInv, ~outdated, NEW c \in Clients, VoteRestart(c), restarts' # restarts
    PROVE  Backed(VotersFor(votes, "period") \cup {c}, Players)
    <1> DEFINE table == votes \cup {<<c, "period">>}
    <1>1. /\ topic = "restart" /\ seat[c] \in Team
          /\ Enough(table, "period", Percent(Cardinality(Players)))
        BY DEF VoteRestart
    <1>2. VotersFor(table, "period") = VotersFor(votes, "period") \cup {c}
        BY DEF VotersFor
    <1>3. VotersFor(votes, "period") \cup {c} \subseteq Players
        BY <1>1 DEF VotersFor, Players, BackedInv, VotersSeated
    <1>4. IsFiniteSet(Players)
        <2>1. Players \subseteq Clients
            BY DEF Players
        <2> QED  BY <2>1, ClientsAssumption, FS_Subset
    <1> QED  BY <1>1, <1>2, <1>3, <1>4, EnoughBacks DEF Enough

\* A kick: the voters are all the team-mates there are.
LEMMA KickBacked ==
    ASSUME BackedInv, ~outdated, NEW c \in Clients, NEW target \in Clients, VoteKick(c, target),
           seat' # seat, NEW d \in Members(seat[target]) \ {c, target}
    PROVE  <<d, target>> \in votes
    <1> DEFINE table == votes \cup {<<c, target>>}
               voters == VotersFor(table, target)
               mates == Members(seat[c]) \ {target}
    <1>0. SeatsTyped
        BY DEF BackedInv, TablesInv
    <1>1. /\ topic = "kick" /\ seat[c] # "OUT" /\ target \in screen[c]
          /\ Enough(table, target, Cardinality(Members(seat[c])) - 1)
          /\ seat' = [seat EXCEPT ![target] = "OUT"]
        BY DEF VoteKick, Drop
    <1>a. seat[target] # "OUT"
        BY <1>0, <1>1 DEF SeatsTyped
    <1>2. c # target /\ seat[c] = seat[target]
        BY <1>1, <1>a DEF BackedInv, VotersSeated
    <1>3. voters \subseteq mates
        BY <1>1, <1>2, <1>a DEF VotersFor, Members, BackedInv, VotersSeated
    <1>4. IsFiniteSet(Members(seat[c])) /\ target \in Members(seat[c])
        <2>1. Members(seat[c]) \subseteq Clients
            BY DEF Members
        <2> QED  BY <1>2, <2>1, ClientsAssumption, FS_Subset DEF Members
    <1>5. IsFiniteSet(mates) /\ Cardinality(mates) = Cardinality(Members(seat[c])) - 1
        BY <1>4, FS_RemoveElement
    <1>6. voters = mates
        <2>1. Cardinality(voters) = Cardinality(mates)
            BY <1>1, <1>5 DEF Enough
        <2> HIDE DEF voters, mates
        <2> QED  BY <1>3, <1>5, <2>1, FS_Subset
    <1>7. d \in Clients /\ d \in mates /\ d # c
        BY <1>2 DEF Members
    <1> QED  BY <1>6, <1>7 DEF VotersFor

LEMMA BackedStep ==
    ASSUME BackedInv, ~outdated, [Next]_vars
    PROVE  /\ topic = "stop" /\ IsLive /\ state' = "END" =>
                \A v \in NewVotes : Backed(VotersFor(votes', v[2]), Members(v[2]))
           /\ \A c \in Clients : VoteRestart(c) /\ restarts' # restarts =>
                Backed(VotersFor(votes, "period") \cup {c}, Players)
           /\ \A c, target \in Clients : VoteKick(c, target) /\ seat' # seat =>
                \A d \in Members(seat[target]) \ {c, target} : <<d, target>> \in votes
    <1>1. ASSUME topic = "stop", IsLive, state' = "END", NEW v \in NewVotes
          PROVE  \E c \in Clients : VoteStop(c)
        <2>1. ~(votes' \subseteq votes)
            BY DEF NewVotes
        <2>2. ASSUME NEW c \in Clients, Disconnect(c) PROVE votes' \subseteq votes
            BY <2>2 DEF Disconnect, Drop, Forget
        <2> QED
            BY <1>1, <2>1, <2>2
            DEF Next, ReadyLoad, ReadyUnload, ReadyList, OpenSession, SessionExpires, Ready,
                Ballot, VoteRestart, LevelMenu, KickMenu, VoteLevel, VoteKick, Join, NextState,
                Around, vars
    <1>2. topic = "stop" /\ IsLive /\ state' = "END" =>
              \A v \in NewVotes : Backed(VotersFor(votes', v[2]), Members(v[2]))
        BY <1>1, StopBacked
    <1> QED  BY <1>2, RestartBacked, KickBacked

\* For any number of clients and any percentage: what a vote does is backed by those it
\* concerns, in every order of votes, joins and losses, until a vote or a menu is outdated:
\* the sides change under votes to surrender, a voter for a restart leaves, a client comes to
\* a slot with an open menu or changes its team with votes pending.
THEOREM VotesBacked == Spec => VoteIsBacked
    <1>1. BackedInv /\ [Next]_vars => BackedInv'
        BY BackedNext
    <1>2. BackedInv /\ [Next]_vars
          => [ ~outdated =>
               /\ topic = "stop" /\ IsLive /\ state' = "END" =>
                    \A v \in NewVotes : Backed(VotersFor(votes', v[2]), Members(v[2]))
               /\ \A c \in Clients : VoteRestart(c) /\ restarts' # restarts =>
                    Backed(VotersFor(votes, "period") \cup {c}, Players)
               /\ \A c, target \in Clients : VoteKick(c, target) /\ seat' # seat =>
                    \A d \in Members(seat[target]) \ {c, target} : <<d, target>> \in votes ]_vars
        BY BackedStep
    <1> QED  BY <1>1, <1>2, BackedInit, PTL DEF Spec, VoteIsBacked
===============================================================================
