------------------------------ MODULE Players -------------------------------
(***************************************************************************)
(* What the server keeps of its players, apart from whose turn it is: the   *)
(* room, the outfit and the random teams before a game; in the game what    *)
(* each sees of the others, their hit points and their pockets.              *)
(*                                                                         *)
(* The six modules share no state.  One side moves at a time while the       *)
(* others stay as they began: what is explored is their sum.                 *)
(***************************************************************************)
EXTENDS Room, Outfit, Deal, Sight, Vitals, Pockets

VARIABLE side

playerVars == <<roomVars, outfitVars, dealVars, sightVars, vitalVars, pocketVars, side>>

\* Sides that do not move begin in one way, with f the character that acts.
InitSides(f) ==
    /\ side \in {"room", "outfit", "deal", "sight", "vitals", "pockets"}
    /\ InitRoom /\ InitOutfit /\ InitDeal /\ InitSight /\ InitVitals /\ InitPockets
    /\ side # "outfit" => chara \in {CHOOSE ch \in Charas : TRUE}
    /\ side # "sight" => actor = f
    /\ side # "vitals" => acting = f
    /\ side # "pockets" => turn = f /\ \A g \in Fighters : pocket[g] = 0

InitPlayers == \E f \in Fighters : InitSides(f)

NextPlayers ==
    /\ UNCHANGED side
    /\ side # "room" => UNCHANGED roomVars
    /\ side # "outfit" => UNCHANGED outfitVars
    /\ side # "deal" => UNCHANGED dealVars
    /\ side # "sight" => UNCHANGED sightVars
    /\ side # "vitals" => UNCHANGED vitalVars
    /\ side # "pockets" => UNCHANGED pocketVars
    /\ \/ side = "room" /\ NextRoom
       \/ side = "outfit" /\ NextOutfit
       \/ side = "deal" /\ NextDeal
       \/ side = "sight" /\ NextSight
       \/ side = "vitals" /\ NextVitals
       \/ side = "pockets" /\ NextPockets

SpecPlayers == InitPlayers /\ [][NextPlayers]_playerVars

\* Every variable of the six has its type.
TypeOKPlayers ==
    /\ TypeOKRoom /\ TypeOKOutfit /\ TypeOKDeal
    /\ TypeOKSight /\ TypeOKVitals /\ TypeOKPockets
=============================================================================
