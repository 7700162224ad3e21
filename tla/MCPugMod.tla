------------------------------- MODULE MCPugMod -------------------------------
(* The match controller on small instances.                                *)
EXTENDS PugModScoreboard

\* pug_vote_team_type as pugmod.cfg sets it: the players vote.
Voted == -1

===============================================================================
