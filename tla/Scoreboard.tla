------------------------------ MODULE Scoreboard ------------------------------
(***************************************************************************)
(* What the scoreboard of a match promises to its two rosters, without the *)
(* sides they play on, the timers, the restarts and the votes that drive   *)
(* the match: rounds are won one at a time in the period being played, a   *)
(* period may be replayed from nothing, finished periods stand, and the    *)
(* result stands after the end.  PugMod implements it (PugModScoreboard).  *)
(***************************************************************************)
EXTENDS Integers

Roster == {"A", "B"}
Played == {"FIRST_HALF", "SECOND_HALF", "OVERTIME"}

VARIABLES
    phase,      \* "IDLE", a period, "HALFTIME" or "END"
    tally       \* rounds won by each roster, by period

vars == <<phase, tally>>

NoTally == [p \in Played |-> [r \in Roster |-> 0]]
Total(t, r) == t["FIRST_HALF"][r] + t["SECOND_HALF"][r] + t["OVERTIME"][r]
Wiped(p) == [tally EXCEPT ![p] = NoTally[p]]

Init == phase = "IDLE" /\ tally = NoTally

\* A match starts from nothing.
Kickoff == phase = "IDLE" /\ phase' = "FIRST_HALF" /\ tally' = NoTally

Win(r) ==
    /\ phase \in Played /\ phase' = phase
    /\ tally' = [tally EXCEPT ![phase][r] = @ + 1]

Replay == phase \in Played /\ phase' = phase /\ tally' = Wiped(phase)

\* The period is over, or is given up to be replayed later.
Break == phase \in Played /\ phase' = "HALFTIME" /\ tally' \in {tally, Wiped(phase)}

Resume == phase = "HALFTIME" /\ phase' \in {"SECOND_HALF", "OVERTIME"} /\ tally' = tally

Finish == phase \in Played \cup {"HALFTIME"} /\ phase' = "END" /\ tally' = tally

\* A side surrenders: the other one wins, by its lead or by a declared score.
Declare(r) ==
    /\ phase \in Played /\ phase' = "END"
    /\ tally' \in [Played -> [Roster -> Nat]]
    /\ \A o \in Roster \ {r} : Total(tally', r) > Total(tally', o)

Leave == phase # "IDLE" /\ phase' = "IDLE" /\ tally' = NoTally

Next ==
    \/ Kickoff \/ Replay \/ Break \/ Resume \/ Finish \/ Leave
    \/ \E r \in Roster : Win(r) \/ Declare(r)

Spec == Init /\ [][Next]_vars

===============================================================================
