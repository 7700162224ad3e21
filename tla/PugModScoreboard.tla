--------------------------- MODULE PugModScoreboard ---------------------------
(* The match controller implements the scoreboard of its rosters.          *)
EXTENDS PugMod

\* The side on which a roster sits; rosterT sits on the Terrorists.
SideOf(r) == IF r = rosterT THEN "T" ELSE "CT"

IdlePhases == {"DEAD", "WARMUP", "START"}

\* The refinement mapping: the players see the points of their side.  Between two
\* matches the old counters are still in m_Score, and no one plays for them.
BoardPhase == IF state \in IdlePhases THEN "IDLE" ELSE state
BoardTally ==
    [p \in Live |-> [r \in Roster |->
        IF state \in IdlePhases THEN 0 ELSE score[p][SideOf(r)]]]

Board == INSTANCE Scoreboard WITH phase <- BoardPhase, tally <- BoardTally

\* Side swaps, restarts, LO3 and halftimes, in any interleaving with rounds and timers,
\* never move a point from one roster to the other, nor touch a finished period.
ImplementsScoreboard == Board!Spec

===============================================================================
