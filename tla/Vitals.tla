------------------------------- MODULE Vitals -------------------------------
(***************************************************************************)
(* Hit points, deaths and the end of a game (CSyncMain, CPacketProcMain).  *)
(*                                                                         *)
(* HP change on two ways.  UpdateCharaStatus, which scripts call, kills who *)
(* has none left at once.  UpdateHPStatus, which items and the pain call,   *)
(* only writes the number: IsGameEnd, at the end of every frame, is what    *)
(* finds the dead.  Both ask a script (onChangeHP_Chara) what the change    *)
(* shall be, so that any value within the bounds may come out.              *)
(***************************************************************************)
EXTENDS Battle

CONSTANTS
    MaxHP,       \* HP_m, in steps of the bound
    TeamDamage   \* GAME_RULE_TEAM_DAMAGE

HPs == 0 .. MaxHP

ASSUME VitalsAssumption == MaxHP \in Nat \ {0} /\ TeamDamage \in BOOLEAN

VARIABLES
    wire,    \* connect_state: "AUTHED", "DESTROY" or "EMPTY"
    life,    \* obj_state: "LIVE", "DEAD", "DROP" or "EMPTY"
    hp,      \* HP_c
    pain,    \* those with chara_state[CHARA_STATE_PAIN_INDEX]
    tally,   \* m_nLivingTeamCountTable
    acting,  \* p_pActiveSession
    judged   \* what IsGameEnd said: "goes_on" or "over"; "no" inside a frame

vitalVars == <<wire, life, hp, pain, tally, acting, judged>>

LivingOf(l) == {f \in Fighters : l[f] = "LIVE"}
Wired       == {f \in Fighters : wire[f] = "AUTHED"}
Members(S, t) == {f \in S : TeamOf[f] = t}

InitVitals ==
    /\ wire = [f \in Fighters |-> "AUTHED"] /\ life = [f \in Fighters |-> "LIVE"]
    /\ hp = [f \in Fighters |-> MaxHP] /\ pain = {}
    /\ tally = [t \in BattleTeams |-> Cardinality(Members(Fighters, t))]
    /\ acting \in Fighters /\ judged = "goes_on"

-----------------------------------------------------------------------------
(* Deaths. *)

\* NotifyCharaDead of those in K, all of them alive; h are the hit points.
Killed(K, how, h) ==
    /\ life' = [f \in Fighters |-> IF f \in K THEN how ELSE life[f]]
    /\ hp' = [f \in Fighters |-> IF f \in K THEN 0 ELSE h[f]]
    /\ tally' = [t \in BattleTeams |-> tally[t] - Cardinality(Members(K, t))]

\* Those IsGameEnd finds: AUTHED, living, with no hit points.
\* Mutant: who has fallen to 0 is looked for among the active only.
StarvedActive(h) == {f \in {acting} : f # Nobody /\ life[f] = "LIVE" /\ h[f] = 0}
Starved(h)       == {f \in Wired : life[f] = "LIVE" /\ h[f] = 0}

\* IsGameEndOfIndividualMatch counts everybody who has hit points,
\* IsGameEndOfTeamBattle the teams of the table.  The turn limit is a choice.
Ends(h) ==
    IF TeamCount <= 1
      THEN Cardinality({f \in Wired : life[f] # "EMPTY" /\ h[f] > 0}) <= 1
      ELSE Cardinality({t \in BattleTeams : tally'[t] > 0}) <= 1

IsGameEndOf(h) ==
    /\ Killed(Starved(h), "DEAD", h)
    /\ judged' \in {"over"} \cup IF Ends(h) THEN {} ELSE {"goes_on"}

-----------------------------------------------------------------------------
(* Inside a frame. *)

InFrame == judged # "over"

\* UpdateCharaStatus: who has nothing left is killed; the dead are left alone.
UpdateCharaStatus(f, h) ==
    /\ InFrame /\ life[f] = "LIVE" /\ judged' = "no"
    /\ LET K == IF h = 0 THEN {f} ELSE {} IN
         /\ Killed(K, "DEAD", [hp EXCEPT ![f] = h])
         /\ pain' = pain \ K
    /\ UNCHANGED <<wire, acting>>

\* DamageCharaHP: the dead, and one's own team without the rule, are spared.
DamageCharaHP(a, f, h) ==
    /\ h < hp[f] /\ (TeamDamage \/ TeamOf[a] # TeamOf[f])
    /\ UpdateCharaStatus(f, h)

\* MoveCharacter: a character falls out of the stage.
Drops(f) ==
    /\ InFrame /\ life[f] = "LIVE" /\ judged' = "no"
    /\ Killed({f}, "DROP", hp) /\ pain' = pain \ {f}
    /\ UNCHANGED <<wire, acting>>

\* A script sets CHARA_STATE_PAIN_INDEX, of whomever.
SetPain(f) ==
    /\ InFrame /\ life[f] # "EMPTY" /\ judged' = "no" /\ pain' = pain \cup {f}
    /\ UNCHANGED <<wire, life, hp, tally, acting>>

\* UpdateHPStatus writes h for those in S; nobody dies of it yet.
UpdateHPStatus(S, h) ==
    /\ InFrame /\ judged' = "no"
    /\ hp' = [f \in Fighters |-> IF f \in S THEN h ELSE hp[f]]
    /\ UNCHANGED <<wire, life, pain, tally, acting>>

\* UseItem: GAME_ITEM_REPAIR and _REPAIR_BIG; who uses it is active.
UseRepair(h) == acting # Nobody /\ life[acting] = "LIVE" /\ UpdateHPStatus({acting}, h)

\* GAME_ITEM_REPAIR_TEAM passes over the dead.
UseRepairTeam(h) ==
    /\ acting # Nobody /\ life[acting] = "LIVE"
    /\ UpdateHPStatus({f \in Members(Wired, TeamOf[acting]) : life[f] = "LIVE"}, h)

\* The item bullets hit who is there and has not dropped, the dead as well.
Targets == {f \in Fighters : life[f] \in {"LIVE", "DEAD"}}

BombItemBulletRepair(S, h) == S # {} /\ S \subseteq Targets /\ UpdateHPStatus(S, h)

\* BombItemBulletDrain: what its targets lose the active character gains.
BombItemBulletDrain(S, low, high) ==
    /\ InFrame /\ acting # Nobody /\ S # {} /\ S \subseteq Targets
    /\ \A f \in S : TeamDamage \/ TeamOf[f] # TeamOf[acting]
    /\ judged' = "no"
    /\ hp' = [f \in Fighters |-> CASE f = acting -> high [] f \in S -> low [] OTHER -> hp[f]]
    /\ UNCHANGED <<wire, life, pain, tally, acting>>

-----------------------------------------------------------------------------
(* The end of a frame, the end of a turn, departures. *)

EndFrameVitals ==
    /\ InFrame /\ IsGameEndOf(hp) /\ UNCHANGED <<wire, pain, acting>>

\* The living who suffer are hurt once more, and go on suffering or do not; the
\* next active character has been chosen before.
FrameTurnEndVitals(h) ==
    LET hurt == Wired \cap LivingOf(life) \cap pain IN
    /\ InFrame
    /\ \E S \in SUBSET hurt : pain' = pain \ S
    /\ IsGameEndOf([f \in Fighters |-> IF f \in hurt THEN h ELSE hp[f]])
    /\ acting' \in (Wired \cap LivingOf(life)) \cup {Nobody}
    /\ UNCHANGED wire

\* OnDisconnectSession and ClearSession: only the death of who is AUTHED is
\* counted in the table.
DisconnectVitals(f) ==
    /\ InFrame /\ wire[f] # "EMPTY" /\ judged' = "no"
    /\ tally' = IF f \in Wired /\ life[f] = "LIVE"
                  THEN [tally EXCEPT ![TeamOf[f]] = @ - 1] ELSE tally
    /\ wire' = [wire EXCEPT ![f] = "EMPTY"]
    /\ life' = [life EXCEPT ![f] = "EMPTY"]
    /\ hp' = [hp EXCEPT ![f] = 0]
    /\ pain' = pain \ {f}
    /\ acting' = IF f = acting THEN Nobody ELSE acting

\* SetErrorSession
LinkFailsVitals(f) ==
    /\ InFrame /\ f \in Wired /\ judged' = "no"
    /\ wire' = [wire EXCEPT ![f] = "DESTROY"]
    /\ UNCHANGED <<life, hp, pain, tally, acting>>

\* The next game, with new players where some have left.
NewGameVitals ==
    /\ judged = "over" /\ judged' = "goes_on"
    /\ wire' = [f \in Fighters |-> "AUTHED"] /\ life' = [f \in Fighters |-> "LIVE"]
    /\ hp' = [f \in Fighters |-> MaxHP] /\ pain' = {}
    /\ tally' = [t \in BattleTeams |-> Cardinality(Members(Fighters, t))]
    /\ acting' \in Fighters

NextVitals ==
    \/ \E f \in Fighters, h \in HPs :
         UpdateCharaStatus(f, h) \/ \E a \in Fighters : DamageCharaHP(a, f, h)
    \/ \E f \in Fighters : Drops(f) \/ SetPain(f) \/ DisconnectVitals(f) \/ LinkFailsVitals(f)
    \/ \E h \in HPs : UseRepair(h) \/ UseRepairTeam(h) \/ FrameTurnEndVitals(h)
    \/ \E S \in SUBSET Fighters, h \in HPs :
         BombItemBulletRepair(S, h) \/ \E g \in HPs : BombItemBulletDrain(S, h, g)
    \/ EndFrameVitals \/ NewGameVitals

SpecVitals == InitVitals /\ [][NextVitals]_vitalVars

-----------------------------------------------------------------------------
(* Properties. *)

TypeOKVitals ==
    /\ wire \in [Fighters -> {"AUTHED", "DESTROY", "EMPTY"}]
    /\ life \in [Fighters -> {"LIVE", "DEAD", "DROP", "EMPTY"}]
    /\ hp \in [Fighters -> HPs] /\ pain \subseteq Fighters
    /\ tally \in [BattleTeams -> 0 .. Cardinality(Fighters)]
    /\ acting \in Fighters \cup {Nobody} /\ judged \in {"no", "goes_on", "over"}

\* Whatever scripts, items and the pain have done to the numbers within a frame,
\* no connected player goes on living without hit points after it.
NobodyLivesOnZero ==
    judged # "no" => \A f \in Wired : life[f] = "LIVE" => hp[f] > 0

\* The comment on the count of IsGameEndOfIndividualMatch: one survivor or none,
\* and the game is over.
SurvivorsGoOn == judged = "goes_on" => Cardinality(Wired \cap LivingOf(life)) > 1
=============================================================================
