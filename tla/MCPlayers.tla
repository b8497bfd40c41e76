----------------------------- MODULE MCPlayers ------------------------------
(* Three characters, two of them in one team; cheap and dear goods.          *)
EXTENDS Players, TLC

CONSTANTS a, b, c, cheap, dear

MCTeamOf == [f \in Fighters |-> IF f = c THEN 1 ELSE 0]
MCPrice  == [x \in Goods |-> IF x = cheap THEN 1 ELSE 2]

\* The two of one team are alike.
MCSymmetry == Permutations({a, b})

\* Sides that do not move begin with c acting; the other beginnings are like it.
MCSpec == InitSides(c) /\ [][NextPlayers]_playerVars
=============================================================================
