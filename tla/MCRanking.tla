----------------------------- MODULE MCRanking ------------------------------
(* Three characters, each a team of its own.                                 *)
EXTENDS Ranking

CONSTANTS a, b, c

MCThreeTeams == [f \in Fighters |-> CASE f = a -> 0 [] f = b -> 1 [] f = c -> 2]
=============================================================================
