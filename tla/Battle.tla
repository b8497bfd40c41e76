------------------------------- MODULE Battle -------------------------------
(***************************************************************************)
(* The characters of one game, for the modules that look at one side of it *)
(* each: Sight, Vitals, Pockets and Ranking.                               *)
(***************************************************************************)
EXTENDS Integers, FiniteSets

CONSTANTS
    Fighters,   \* m_vecCharacters
    TeamOf,     \* team_no: each its own in an individual match
    TeamCount,  \* GetTeamCount(): 1 in an individual match
    Nobody      \* p_pActiveSession = NULL

BattleTeams == {TeamOf[f] : f \in Fighters}

ASSUME BattleAssumption ==
    /\ IsFiniteSet(Fighters) /\ Nobody \notin Fighters /\ DOMAIN TeamOf = Fighters
    /\ TeamCount \in Nat \ {0}
=============================================================================
