------------------------------- MODULE Pockets ------------------------------
(***************************************************************************)
(* Items, and the theft of items: CPacketProcMain::OrderItem, StealItem and *)
(* UseItem, the pockets, and the shield of CSyncMain::BombObject.           *)
(*                                                                         *)
(* A theft takes two turns of two players: who uses the item STEAL is set,  *)
(* becomes a thief when the turn ends, and the next item anybody orders     *)
(* goes to the thief's pocket instead of being used.  The state is kept     *)
(* twice, in the thief's chara_state and in p_pStealSess, and the thief may *)
(* die, lose its connection or leave at any time in between.                *)
(* What an item is does not matter here; most only set a number.            *)
(***************************************************************************)
EXTENDS Battle

CONSTANT Slots    \* GAME_ITEM_STOCK_MAX_COUNT

ASSUME PocketsAssumption == Slots \in Nat \ {0}

VARIABLES
    here,     \* who plays: "AUTHED", "DESTROY" or "EMPTY"
    up,       \* those who are not dead
    turn,     \* p_pActiveSession
    pocket,   \* items: how many slots hold one
    steal,    \* chara_state[CHARA_STATE_ITEM_STEAL_INDEX]: "OFF", "SET", "USING"
    shield,   \* those with chara_state[CHARA_STATE_SHIELD_INDEX]
    thief     \* p_pStealSess

pocketVars == <<here, up, turn, pocket, steal, shield, thief>>

InitPockets ==
    /\ here = [f \in Fighters |-> "AUTHED"] /\ up = Fighters /\ turn \in Fighters
    /\ pocket \in [Fighters -> 0 .. Slots]
    /\ steal = [f \in Fighters |-> "OFF"] /\ shield = {} /\ thief = Nobody

-----------------------------------------------------------------------------
(* PK_CMD_MAIN_ITEM: OrderItem. *)

MayOrder(f) ==
    /\ f = turn /\ f \in up /\ here[f] = "AUTHED" /\ pocket[f] > 0

Spent(f) == [pocket EXCEPT ![f] = @ - 1]

\* A thief is at work.
ThiefAtWork == thief # Nobody /\ steal[thief] = "USING"

\* UseItem of most items: a number of chara_state, the delay, the hit points.
UseItem(f) ==
    /\ MayOrder(f) /\ ~ThiefAtWork
    /\ pocket' = Spent(f)
    /\ UNCHANGED <<here, up, turn, steal, shield, thief>>

\* GAME_ITEM_SHIELD
UseShield(f) ==
    /\ MayOrder(f) /\ ~ThiefAtWork
    /\ pocket' = Spent(f)
    /\ shield' = shield \cup {f}
    /\ UNCHANGED <<here, up, turn, steal, thief>>

\* GAME_ITEM_STEAL
UseSteal(f) ==
    /\ MayOrder(f) /\ ~ThiefAtWork
    /\ pocket' = Spent(f)
    /\ steal' = [steal EXCEPT ![f] = "SET"]
    /\ thief' = f
    /\ UNCHANGED <<here, up, turn, shield>>

\* StealItem: the first free slot, while the item still is in its owner's; with
\* no free slot the thief gets experience, stays at work, and the item is lost.
HasRoom == pocket[thief] < Slots

StealItem(f) ==
    /\ MayOrder(f) /\ ThiefAtWork
    /\ IF HasRoom
         THEN /\ pocket' = [Spent(f) EXCEPT ![thief] = @ + 1]
              /\ steal' = [steal EXCEPT ![thief] = "OFF"]
              /\ thief' = Nobody
         ELSE pocket' = Spent(f) /\ UNCHANGED <<steal, thief>>
    /\ UNCHANGED <<here, up, turn, shield>>

\* AddCharaItem, called by scripts for anybody.
AddCharaItem(f) ==
    /\ here[f] # "EMPTY" /\ pocket[f] < Slots
    /\ pocket' = [pocket EXCEPT ![f] = @ + 1]
    /\ UNCHANGED <<here, up, turn, steal, shield, thief>>

-----------------------------------------------------------------------------
(* Blasts, deaths, turns. *)

\* BombObject: the first in its range that holds a shield loses it, the bullet
\* is removed and nobody is hit.
ShieldAbsorbs(f) ==
    /\ f \in shield /\ shield' = shield \ {f}
    /\ UNCHANGED <<here, up, turn, pocket, steal, thief>>

\* Mutants: what a character held is not cleared when it dies.
StealAfterDeathKept(f)  == steal
ShieldAfterDeathKept(f) == shield

\* NotifyCharaDead clears chara_state.
StealAfterDeath(f)  == [steal EXCEPT ![f] = "OFF"]
ShieldAfterDeath(f) == shield \ {f}

DiePockets(f) ==
    /\ f \in up /\ up' = up \ {f}
    /\ steal' = StealAfterDeath(f) /\ shield' = ShieldAfterDeath(f)
    /\ UNCHANGED <<here, turn, pocket, thief>>

\* Mutant: p_pStealSess is left alone.
ThiefAfterLeaves(f) == thief

\* OnDisconnectSession and ClearSession.
ThiefAfter(f) == IF f = thief THEN Nobody ELSE thief

LeavePockets(f) ==
    /\ here[f] # "EMPTY" /\ here' = [here EXCEPT ![f] = "EMPTY"]
    /\ up' = up \ {f} /\ pocket' = [pocket EXCEPT ![f] = 0]
    /\ steal' = [steal EXCEPT ![f] = "OFF"] /\ shield' = shield \ {f}
    /\ thief' = ThiefAfter(f)
    /\ turn' = IF f = turn THEN Nobody ELSE turn

LinkFailsPockets(f) ==
    /\ here[f] = "AUTHED" /\ here' = [here EXCEPT ![f] = "DESTROY"]
    /\ UNCHANGED <<up, turn, pocket, steal, shield, thief>>

\* FrameTurnEnd: SET becomes USING, USING becomes OFF, anything else (the thief
\* has died) forgets the thief.
FrameTurnEndPockets ==
    /\ steal' = [f \in Fighters |->
                   IF f # thief THEN steal[f]
                   ELSE IF steal[f] = "SET" THEN "USING" ELSE "OFF"]
    /\ thief' = IF thief # Nobody /\ steal[thief] = "SET" THEN thief ELSE Nobody
    /\ turn' \in {f \in up : here[f] = "AUTHED"} \cup {Nobody}
    /\ UNCHANGED <<here, up, pocket, shield>>

NextPockets ==
    \/ \E f \in Fighters :
         \/ UseItem(f) \/ UseShield(f) \/ UseSteal(f) \/ StealItem(f)
         \/ AddCharaItem(f) \/ ShieldAbsorbs(f) \/ DiePockets(f) \/ LeavePockets(f)
         \/ LinkFailsPockets(f)
    \/ FrameTurnEndPockets

SpecPockets == InitPockets /\ [][NextPockets]_pocketVars

-----------------------------------------------------------------------------
(* Properties. *)

TypeOKPockets ==
    /\ here \in [Fighters -> {"AUTHED", "DESTROY", "EMPTY"}] /\ up \subseteq Fighters
    /\ {turn, thief} \subseteq Fighters \cup {Nobody}
    /\ pocket \in [Fighters -> 0 .. Slots]
    /\ steal \in [Fighters -> {"OFF", "SET", "USING"}] /\ shield \subseteq Fighters

\* There is one theft at a time, and the two places that keep it agree: whoever
\* is set or at work is the one p_pStealSess points to, and is alive.
OneThief == \A f \in Fighters : steal[f] # "OFF" => f = thief /\ f \in up

\* p_pStealSess never points to a slot whose player has left.
ThiefIsHere == thief # Nobody => here[thief] # "EMPTY"

\* The dead hold no shield: a blast at the place where somebody died counts.
DeadHoldNoShield == shield \subseteq up

\* A theft and a shield are of somebody who is there and alive, through deaths,
\* departures and thieves who take over from each other.
PocketsAreSound == OneThief /\ ThiefIsHere /\ DeadHoldNoShield
=============================================================================
