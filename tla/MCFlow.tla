------------------------------- MODULE MCFlow -------------------------------
(* Small teams, files and streams for the parts that work something off.     *)
EXTENDS Flow

CONSTANTS a, b, c

MCTeamOf == [f \in Fighters |-> IF f = c THEN 1 ELSE 0]
MCSizes  == [f \in 0 .. 1 |-> IF f = 0 THEN 4 ELSE 3]
MCStream == [co \in Conns |-> <<2, 3, 1, 4>>]
=============================================================================
