------------------------------- MODULE Sight --------------------------------
(***************************************************************************)
(* Who is told where a character is.  A stealthy character's moves go to   *)
(* its team only, a blinded player is told of nobody's moves but its own,  *)
(* and both conditions end by a count of the holder's own turns.  Whoever  *)
(* was left out must be told what it missed when the condition ends: a     *)
(* client that never hears of it goes on showing an old position.          *)
(*                                                                         *)
(* The moves come from the packets of CPacketProcMain, from the falls of   *)
(* CSyncMain's frames, from scripts and from three items; the phases of a  *)
(* turn are in SyncMain, here it is what happens between two turn ends.    *)
(***************************************************************************)
EXTENDS Battle

CONSTANTS
    StealthTurns,  \* GAME_ITEM_STEALTH_TURN_COUNT
    BlindTurns     \* GAME_ITEM_BLIND_TURN_COUNT

ASSUME SightAssumption == StealthTurns \in Nat \ {0} /\ BlindTurns \in Nat \ {0}

VARIABLES
    link,      \* connect_state: "AUTHED", "DESTROY" or "EMPTY"
    alive,     \* obj_state is not NOLIVE
    stealth,   \* chara_state[CHARA_STATE_STEALTH_INDEX]
    blind,     \* chara_state[CHARA_STATE_BLIND_INDEX]
    actor,     \* p_pActiveSession
    sees       \* sees[v][c]: client v was sent c's present position (of no
               \* meaning once one of the two is dead or has left)

sightVars == <<link, alive, stealth, blind, actor, sees>>

InitSight ==
    /\ link = [f \in Fighters |-> "AUTHED"] /\ alive = Fighters
    /\ stealth = [f \in Fighters |-> 0] /\ blind = [f \in Fighters |-> 0]
    /\ actor \in Fighters
    /\ sees = [v \in Fighters |-> [c \in Fighters |-> TRUE]]

-----------------------------------------------------------------------------
(* The four ways to send: CSyncProc.h and CPacketProc.h. *)

Online == {v \in Fighters : link[v] = "AUTHED"}

AllUser            == Online
TeamUser(t)        == {v \in Online : TeamOf[v] = t}
\* Mutant: who sends the move is looked at like the others.
NoBlindUserButMe(c) == {v \in Online : blind[v] = 0}

NoBlindUser(c)     == {v \in Online : v = c \/ blind[v] = 0}

\* Mutant: a stealthy character's moves go to those of its team who can see,
\* and they are not told later.
MoveAudienceSeeing(c) ==
    IF stealth[c] > 0 THEN {} ELSE NoBlindUser(c)

\* Who is sent a move of c.
MoveAudience(c) == IF stealth[c] > 0 THEN TeamUser(TeamOf[c]) ELSE NoBlindUser(c)

\* Every c that audience[c] is given for has a new position, of which those
\* are told.
Moved(audience) ==
    sees' = [v \in Fighters |-> [c \in Fighters |->
               IF c \in DOMAIN audience THEN v \in audience[c] ELSE sees[v][c]]]

\* MoveCharacter, UpdateCharaPos, and the packets MOVE, UPDATE_POS and FLIP.
Move(c) ==
    /\ c \in alive
    /\ Moved([m \in {c} |-> MoveAudience(m)])
    /\ UNCHANGED <<link, alive, stealth, blind, actor>>

-----------------------------------------------------------------------------
(* Items and scripts. *)

\* UseItem, GAME_ITEM_STEALTH; SetCharacterState by a script.
UseStealth(c) ==
    /\ c \in alive
    /\ stealth' = [stealth EXCEPT ![c] = StealthTurns]
    /\ UNCHANGED <<link, alive, blind, actor, sees>>

\* BombItemBulletBlind: all the living in range.
BombItemBulletBlind(C) ==
    /\ C \subseteq alive
    /\ blind' = [c \in Fighters |-> IF c \in C THEN BlindTurns ELSE blind[c]]
    /\ UNCHANGED <<link, alive, stealth, actor, sees>>

\* BombItemBulletTeleport: the active character lands where its bullet hit.
BombItemBulletTeleport ==
    /\ actor # Nobody
    /\ Moved([m \in {actor} |-> NoBlindUser(m)])
    /\ UNCHANGED <<link, alive, stealth, blind, actor>>

\* BombItemBulletFetch: the characters hit are drawn to the active one.
BombItemBulletFetch(C) ==
    /\ actor # Nobody /\ C \subseteq alive \ {actor}
    /\ Moved([c \in C |-> AllUser])
    /\ UNCHANGED <<link, alive, stealth, blind, actor>>

\* BombItemBulletExchange: and the active one goes where one of them was.
BombItemBulletExchange(C) ==
    /\ actor # Nobody /\ C \subseteq alive \ {actor} /\ C # {}
    /\ Moved([c \in C \cup {actor} |-> AllUser])
    /\ UNCHANGED <<link, alive, stealth, blind, actor>>

-----------------------------------------------------------------------------
(* Deaths, departures, ends of turns. *)

\* Who sees c, and what c sees, matters no more.
Forgotten(c) == sees' = [v \in Fighters |-> [x \in Fighters |->
                           sees[v][x] \/ v = c \/ x = c]]

\* NotifyCharaDead: CHARA_DEAD_KILL and _DROP clear chara_state silently.
Die(c) ==
    /\ c \in alive
    /\ alive' = alive \ {c}
    /\ stealth' = [stealth EXCEPT ![c] = 0]
    /\ blind' = [blind EXCEPT ![c] = 0]
    /\ Forgotten(c)
    /\ UNCHANGED <<link, actor>>

\* OnDisconnectSession and ClearSession.
Depart(c) ==
    /\ link[c] # "EMPTY"
    /\ link' = [link EXCEPT ![c] = "EMPTY"]
    /\ alive' = alive \ {c}
    /\ stealth' = [stealth EXCEPT ![c] = 0]
    /\ blind' = [blind EXCEPT ![c] = 0]
    /\ actor' = IF c = actor THEN Nobody ELSE actor
    /\ Forgotten(c)

\* SetErrorSession of the sender thread.
LinkFails(c) ==
    /\ link[c] = "AUTHED"
    /\ link' = [link EXCEPT ![c] = "DESTROY"]
    /\ Forgotten(c)
    /\ UNCHANGED <<alive, stealth, blind, actor>>

\* The position a client is sent at the end of its blindness; a stealthy
\* character of another team is left out.
ShownTo(v, c) ==
    /\ c # v /\ link[c] = "AUTHED"
    /\ stealth[c] = 0 \/ TeamOf[c] = TeamOf[v]

\* CountCharacterState of the active character: the last turn of its stealth
\* shows it to those who can see, the last turn of its blindness shows it all.
Revealed(v, c) ==
    \/ c = actor /\ stealth[actor] = 1 /\ v \in Online /\ blind[v] = 0
    \/ v = actor /\ blind[actor] = 1 /\ ShownTo(v, c)

Decremented(count) ==
    IF actor = Nobody \/ count[actor] = 0 THEN count ELSE [count EXCEPT ![actor] = @ - 1]

\* FrameTurnEnd and FrameReturn, which makes nobody or a living player active.
FrameTurnEndSight ==
    /\ stealth' = Decremented(stealth)
    /\ blind' = Decremented(blind)
    /\ sees' = [v \in Fighters |-> [c \in Fighters |->
                  sees[v][c] \/ (actor # Nobody /\ Revealed(v, c))]]
    /\ actor' \in (Online \cap alive) \cup {Nobody}
    /\ UNCHANGED <<link, alive>>

NextSight ==
    \/ \E c \in Fighters : Move(c) \/ UseStealth(c) \/ Die(c) \/ Depart(c) \/ LinkFails(c)
    \/ \E C \in SUBSET Fighters : \/ BombItemBulletBlind(C) \/ BombItemBulletFetch(C)
                                  \/ BombItemBulletExchange(C)
    \/ BombItemBulletTeleport \/ FrameTurnEndSight

SpecSight == InitSight /\ [][NextSight]_sightVars

-----------------------------------------------------------------------------
(* Properties. *)

TypeOKSight ==
    /\ link \in [Fighters -> {"AUTHED", "DESTROY", "EMPTY"}]
    /\ alive \subseteq Fighters /\ actor \in Fighters \cup {Nobody}
    /\ stealth \in [Fighters -> 0 .. StealthTurns]
    /\ blind \in [Fighters -> 0 .. BlindTurns]
    /\ sees \in [Fighters -> [Fighters -> BOOLEAN]]

\* A player who is not blinded knows the present position of every character
\* that does not hide from it, however often either condition began, was
\* renewed and ended in between.
SightIsCurrent ==
    \A v, c \in Online \cap alive :
      v # c /\ blind[v] = 0 /\ (stealth[c] = 0 \/ TeamOf[c] = TeamOf[v]) => sees[v][c]

\* A blinded player still knows where it is itself.
OwnPositionKnown == \A v \in Online \cap alive : sees[v][v]

\* What the clients were told of positions is what each may see.
SightIsSound == SightIsCurrent /\ OwnPositionKnown
=============================================================================
