----------------------------- MODULE BattleProof -----------------------------
(***************************************************************************)
(* Proofs about what the server keeps of the characters of a game: what the *)
(* clients know of their positions (Sight), their hit points and deaths     *)
(* (Vitals) and their items (Pockets), for any characters and teams.        *)
(***************************************************************************)
EXTENDS Players, RoomProof

-----------------------------------------------------------------------------
(* Items. *)

(* A theft that was begun is its player's who has the turn, and so nobody   *)
(* else can begin one before the turn ends and the thief is at work.        *)
ThiefHasTurn == thief # Nobody /\ steal[thief] = "SET" => turn \in {thief, Nobody}

PocketsInv == TypeOKPockets /\ PocketsAreSound /\ ThiefHasTurn

LEMMA InitPocketsSound == InitPockets => PocketsInv
BY BattleAssumption DEF InitPockets, PocketsInv, TypeOKPockets, PocketsAreSound, OneThief,
   ThiefIsHere, DeadHoldNoShield, ThiefHasTurn

LEMMA StepPocketsSound == PocketsInv /\ [NextPockets]_pocketVars => PocketsInv'
<1> SUFFICES ASSUME PocketsInv, [NextPockets]_pocketVars PROVE PocketsInv'
  OBVIOUS
<1> USE BattleAssumption, PocketsAssumption
    DEF PocketsInv, TypeOKPockets, PocketsAreSound, OneThief, ThiefIsHere, DeadHoldNoShield,
        ThiefHasTurn
<1>1. ASSUME NEW f \in Fighters, UseItem(f) PROVE PocketsInv'
  BY <1>1 DEF UseItem, MayOrder, Spent
<1>2. ASSUME NEW f \in Fighters, UseShield(f) PROVE PocketsInv'
  BY <1>2 DEF UseShield, MayOrder, Spent
<1>3. ASSUME NEW f \in Fighters, UseSteal(f) PROVE PocketsInv'
  BY <1>3 DEF UseSteal, MayOrder, Spent, ThiefAtWork
<1>4. ASSUME NEW f \in Fighters, StealItem(f) PROVE PocketsInv'
  <2>1. thief \in Fighters /\ pocket[f] > 0
    BY <1>4 DEF StealItem, MayOrder, ThiefAtWork
  <2>2. CASE HasRoom
    <3>1. pocket' = [Spent(f) EXCEPT ![thief] = @ + 1]
      BY <1>4, <2>2 DEF StealItem
    <3>2. Spent(f) \in [Fighters -> 0 .. Slots] /\ Spent(f)[thief] < Slots
      BY <2>1, <2>2 DEF Spent, HasRoom
    <3>3. pocket' \in [Fighters -> 0 .. Slots]
      BY <2>1, <3>1, <3>2
    <3>4. /\ UNCHANGED <<here, up, turn, shield>> /\ thief' = Nobody
          /\ steal' = [steal EXCEPT ![thief] = "OFF"]
      BY <1>4, <2>2 DEF StealItem
    <3> QED
      BY <2>1, <3>3, <3>4
  <2>3. CASE ~HasRoom
    BY <1>4, <2>1, <2>3 DEF StealItem, Spent
  <2> QED
    BY <2>2, <2>3
<1>5. ASSUME NEW f \in Fighters, AddCharaItem(f) PROVE PocketsInv'
  BY <1>5 DEF AddCharaItem
<1>6. ASSUME NEW f \in Fighters, ShieldAbsorbs(f) PROVE PocketsInv'
  BY <1>6 DEF ShieldAbsorbs
<1>7. ASSUME NEW f \in Fighters, DiePockets(f) PROVE PocketsInv'
  BY <1>7 DEF DiePockets, StealAfterDeath, ShieldAfterDeath
<1>8. ASSUME NEW f \in Fighters, LeavePockets(f) PROVE PocketsInv'
  BY <1>8 DEF LeavePockets, ThiefAfter
<1>9. ASSUME NEW f \in Fighters, LinkFailsPockets(f) PROVE PocketsInv'
  BY <1>9 DEF LinkFailsPockets
<1>10. CASE FrameTurnEndPockets
  BY <1>10 DEF FrameTurnEndPockets
<1>11. CASE UNCHANGED pocketVars
  BY <1>11 DEF pocketVars
<1> QED
  BY <1>1, <1>2, <1>3, <1>4, <1>5, <1>6, <1>7, <1>8, <1>9, <1>10, <1>11 DEF NextPockets

(* At any time there is at most one theft, of a player who is connected and *)
(* alive, kept alike in his chara_state and in p_pStealSess; and the dead   *)
(* hold no shield.                                                         *)
THEOREM ThievesAndShieldsAreSound == SpecPockets => [](TypeOKPockets /\ PocketsAreSound)
<1>1. PocketsInv => TypeOKPockets /\ PocketsAreSound
  BY DEF PocketsInv
<1> QED
  BY <1>1, InitPocketsSound, StepPocketsSound, PTL DEF SpecPockets

-----------------------------------------------------------------------------
(* Positions. *)

LEMMA InitSightSound == InitSight => TypeOKSight /\ SightIsSound
BY SightAssumption DEF InitSight, TypeOKSight, SightIsSound, SightIsCurrent, OwnPositionKnown,
   Online

(* Whoever is told of a move is, at least, who moved and everybody who can  *)
(* see and from whom he does not hide.                                     *)
LEMMA MovedShows ==
    ASSUME TypeOKSight, SightIsSound, NEW audience,
           UNCHANGED <<link, alive, stealth, blind>>, Moved(audience),
           \A c \in Fighters \cap DOMAIN audience, v \in Online :
             v = c \/ (blind[v] = 0 /\ (stealth[c] = 0 \/ TeamOf[c] = TeamOf[v]))
               => v \in audience[c]
    PROVE  sees' \in [Fighters -> [Fighters -> BOOLEAN]] /\ SightIsSound'
<1>1. \A v, c \in Fighters :
        sees'[v][c] = IF c \in DOMAIN audience THEN v \in audience[c] ELSE sees[v][c]
  BY DEF Moved
<1>2. sees' \in [Fighters -> [Fighters -> BOOLEAN]]
  <2>1. \A v, c \in Fighters :
          (IF c \in DOMAIN audience THEN v \in audience[c] ELSE sees[v][c]) \in BOOLEAN
    <3> SUFFICES ASSUME NEW v \in Fighters, NEW c \in Fighters
                 PROVE  (IF c \in DOMAIN audience THEN v \in audience[c] ELSE sees[v][c])
                          \in BOOLEAN
      OBVIOUS
    <3>1. (v \in audience[c]) \in BOOLEAN
      OBVIOUS
    <3>2. sees[v][c] \in BOOLEAN
      BY DEF TypeOKSight
    <3> QED
      BY <3>1, <3>2
  <2> QED
    BY <2>1 DEF Moved
<1>3. SightIsCurrent'
  <2> SUFFICES ASSUME NEW v \in Online \cap alive, NEW c \in Online \cap alive, v # c,
                      blind[v] = 0, stealth[c] = 0 \/ TeamOf[c] = TeamOf[v]
               PROVE  sees'[v][c]
    BY DEF SightIsCurrent, Online
  <2>1. v \in Fighters /\ c \in Fighters
    BY DEF Online
  <2>2. sees[v][c]
    BY DEF SightIsSound, SightIsCurrent
  <2>3. c \in DOMAIN audience => v \in audience[c]
    BY <2>1
  <2> QED
    BY <1>1, <2>1, <2>2, <2>3
<1>4. OwnPositionKnown'
  BY <1>1 DEF SightIsSound, OwnPositionKnown, Online
<1> QED
  BY <1>2, <1>3, <1>4 DEF SightIsSound

(* Who dies or leaves need not be shown to anybody, nor be told.           *)
LEMMA ForgottenShows ==
    ASSUME TypeOKSight, NEW x \in Fighters, Forgotten(x)
    PROVE  /\ sees' \in [Fighters -> [Fighters -> BOOLEAN]]
           /\ \A v, c \in Fighters : sees'[v][c] = (sees[v][c] \/ v = x \/ c = x)
BY DEF TypeOKSight, Forgotten

LEMMA StepSightSound ==
    TypeOKSight /\ SightIsSound /\ [NextSight]_sightVars => (TypeOKSight /\ SightIsSound)'
<1> SUFFICES ASSUME TypeOKSight, SightIsSound, [NextSight]_sightVars
             PROVE  TypeOKSight' /\ SightIsSound'
  OBVIOUS
<1> USE BattleAssumption, SightAssumption
<1>1. ASSUME NEW c \in Fighters, Move(c) PROVE TypeOKSight' /\ SightIsSound'
  <2>1. Moved([m \in {c} |-> MoveAudience(m)])
    BY <1>1 DEF Move
  <2>2. \A v \in Online :
          v = c \/ (blind[v] = 0 /\ (stealth[c] = 0 \/ TeamOf[c] = TeamOf[v]))
            => v \in MoveAudience(c)
    BY DEF MoveAudience, TeamUser, NoBlindUser, TypeOKSight
  <2>3. UNCHANGED <<link, alive, stealth, blind, actor>>
    BY <1>1 DEF Move
  <2>4. sees' \in [Fighters -> [Fighters -> BOOLEAN]] /\ SightIsSound'
    BY <2>1, <2>2, <2>3, MovedShows
  <2> QED
    BY <2>3, <2>4 DEF TypeOKSight
<1>2. ASSUME NEW c \in Fighters, UseStealth(c) PROVE TypeOKSight' /\ SightIsSound'
  BY <1>2 DEF UseStealth, TypeOKSight, SightIsSound, SightIsCurrent, OwnPositionKnown, Online
<1>3. ASSUME NEW C \in SUBSET Fighters, BombItemBulletBlind(C)
      PROVE  TypeOKSight' /\ SightIsSound'
  BY <1>3 DEF BombItemBulletBlind, TypeOKSight, SightIsSound, SightIsCurrent,
     OwnPositionKnown, Online
<1>4. CASE BombItemBulletTeleport
  <2>1. /\ Moved([m \in {actor} |-> NoBlindUser(m)])
        /\ UNCHANGED <<link, alive, stealth, blind, actor>>
    BY <1>4 DEF BombItemBulletTeleport
  <2>2. sees' \in [Fighters -> [Fighters -> BOOLEAN]] /\ SightIsSound'
    BY <2>1, MovedShows DEF NoBlindUser
  <2> QED
    BY <2>1, <2>2 DEF TypeOKSight
<1>5. ASSUME NEW C \in SUBSET Fighters, BombItemBulletFetch(C) \/ BombItemBulletExchange(C)
      PROVE  TypeOKSight' /\ SightIsSound'
  <2>1. PICK D : Moved([c \in D |-> AllUser])
    BY <1>5 DEF BombItemBulletFetch, BombItemBulletExchange
  <2>2. UNCHANGED <<link, alive, stealth, blind, actor>>
    BY <1>5 DEF BombItemBulletFetch, BombItemBulletExchange
  <2>3. sees' \in [Fighters -> [Fighters -> BOOLEAN]] /\ SightIsSound'
    BY <2>1, <2>2, MovedShows DEF AllUser
  <2> QED
    BY <2>2, <2>3 DEF TypeOKSight
<1>6. ASSUME NEW c \in Fighters, Die(c) \/ Depart(c) \/ LinkFails(c)
      PROVE  TypeOKSight' /\ SightIsSound'
  <2>1. /\ sees' \in [Fighters -> [Fighters -> BOOLEAN]]
        /\ \A v, x \in Fighters : sees'[v][x] = (sees[v][x] \/ v = c \/ x = c)
    BY <1>6, ForgottenShows DEF Die, Depart, LinkFails
  <2>2. TypeOKSight'
    <3>1. CASE Die(c)
      BY <2>1, <3>1 DEF Die, TypeOKSight
    <3>2. CASE Depart(c)
      BY <2>1, <3>2 DEF Depart, TypeOKSight
    <3>3. CASE LinkFails(c)
      BY <2>1, <3>3 DEF LinkFails, TypeOKSight
    <3> QED
      BY <1>6, <3>1, <3>2, <3>3
  <2>3. \A v \in Fighters : /\ link'[v] = "AUTHED" /\ v \in alive' => v \in Online \cap alive
                            /\ v # c => stealth'[v] = stealth[v] /\ blind'[v] = blind[v]
    BY <1>6 DEF Die, Depart, LinkFails, TypeOKSight, Online
  <2> QED
    BY <2>1, <2>2, <2>3 DEF SightIsSound, SightIsCurrent, OwnPositionKnown, Online
<1>7. CASE FrameTurnEndSight
  <2>1. /\ sees' \in [Fighters -> [Fighters -> BOOLEAN]]
        /\ \A v, c \in Fighters :
             sees'[v][c] = (sees[v][c] \/ (actor # Nobody /\ Revealed(v, c)))
    BY <1>7 DEF FrameTurnEndSight, TypeOKSight
  <2>2. /\ stealth' \in [Fighters -> 0 .. StealthTurns]
        /\ blind' \in [Fighters -> 0 .. BlindTurns]
    <3>1. \A n \in Nat : \A m \in 0 .. n : m # 0 => m - 1 \in 0 .. n
      OBVIOUS
    <3>2. actor # Nobody => actor \in Fighters
      BY DEF TypeOKSight
    <3>3. Decremented(stealth) \in [Fighters -> 0 .. StealthTurns]
      BY <3>1, <3>2 DEF Decremented, TypeOKSight
    <3>4. Decremented(blind) \in [Fighters -> 0 .. BlindTurns]
      BY <3>1, <3>2 DEF Decremented, TypeOKSight
    <3> QED
      BY <1>7, <3>3, <3>4 DEF FrameTurnEndSight
  <2>3. UNCHANGED <<link, alive>> /\ actor' \in Fighters \cup {Nobody}
    BY <1>7 DEF FrameTurnEndSight, TypeOKSight, Online
  <2>4. \A f \in Fighters :
          /\ stealth'[f] = 0 => stealth[f] = 0 \/ (f = actor /\ stealth[f] = 1)
          /\ blind'[f] = 0 => blind[f] = 0 \/ (f = actor /\ blind[f] = 1)
          /\ f # actor => stealth'[f] = stealth[f] /\ blind'[f] = blind[f]
    BY <1>7 DEF FrameTurnEndSight, Decremented, TypeOKSight
  <2>5. OwnPositionKnown'
    BY <2>1, <2>3 DEF SightIsSound, OwnPositionKnown, Online
  <2>6. SightIsCurrent'
    <3> SUFFICES ASSUME NEW v \in Online \cap alive, NEW c \in Online \cap alive, v # c,
                        blind'[v] = 0, stealth'[c] = 0 \/ TeamOf[c] = TeamOf[v]
                 PROVE  sees'[v][c]
      BY <2>3 DEF SightIsCurrent, Online
    <3>1. CASE blind[v] # 0
      BY <2>1, <2>4, <3>1 DEF Revealed, ShownTo, Online
    <3>2. CASE blind[v] = 0 /\ ~(stealth[c] = 0 \/ TeamOf[c] = TeamOf[v])
      BY <2>1, <2>4, <3>2 DEF Revealed, Online
    <3>3. CASE blind[v] = 0 /\ (stealth[c] = 0 \/ TeamOf[c] = TeamOf[v])
      BY <2>1, <3>3 DEF SightIsSound, SightIsCurrent, Online
    <3> QED
      BY <3>1, <3>2, <3>3
  <2> QED
    BY <2>1, <2>2, <2>3, <2>5, <2>6 DEF TypeOKSight, SightIsSound
<1>8. CASE UNCHANGED sightVars
  BY <1>8 DEF sightVars, TypeOKSight, SightIsSound, SightIsCurrent, OwnPositionKnown, Online
<1> QED
  BY <1>1, <1>2, <1>3, <1>4, <1>5, <1>6, <1>7, <1>8 DEF NextSight

(* Whatever began, renewed or ended stealth and blindness, a player who can *)
(* see knows the position of everybody who does not hide from him.         *)
THEOREM PositionsAreKnown == SpecSight => [](TypeOKSight /\ SightIsSound)
BY InitSightSound, StepSightSound, PTL DEF SpecSight

-----------------------------------------------------------------------------
(* Hit points. *)

(* No living player is missing in the table of living teams, so that no     *)
(* entry ever falls below 0.                                               *)
TallyCovers == \A t \in BattleTeams : tally[t] >= Cardinality(Members(LivingOf(life), t))

VitalsInv == TypeOKVitals /\ TallyCovers /\ NobodyLivesOnZero

LEMMA MembersAreFinite ==
    ASSUME NEW S \in SUBSET Fighters, NEW t
    PROVE  /\ IsFiniteSet(Members(S, t))
           /\ Cardinality(Members(S, t)) \in 0 .. Cardinality(Fighters)
<1>1. Members(S, t) \subseteq Fighters /\ IsFiniteSet(Fighters)
  BY BattleAssumption DEF Members
<1>2. IsFiniteSet(Members(S, t)) /\ Cardinality(Members(S, t)) <= Cardinality(Fighters)
  BY <1>1, FS_Subset
<1> QED
  BY <1>1, <1>2, FS_CardinalityType

LEMMA FightersAreCounted == Cardinality(Fighters) \in Nat
BY BattleAssumption, FS_CardinalityType

LEMMA InitVitalsSound == InitVitals => VitalsInv
<1> SUFFICES ASSUME InitVitals PROVE VitalsInv
  OBVIOUS
<1>1. LivingOf(life) = Fighters
  BY DEF InitVitals, LivingOf
<1>2. \A t \in BattleTeams : /\ tally[t] \in 0 .. Cardinality(Fighters)
                             /\ tally[t] >= Cardinality(Members(LivingOf(life), t))
  BY <1>1, MembersAreFinite, FightersAreCounted DEF InitVitals
<1>3. TallyCovers
  BY <1>2 DEF TallyCovers
<1>4. tally \in [BattleTeams -> 0 .. Cardinality(Fighters)]
  BY <1>2 DEF InitVitals
<1>5. MaxHP \in HPs /\ MaxHP > 0
  BY VitalsAssumption DEF HPs
<1> QED
  BY <1>3, <1>4, <1>5 DEF InitVitals, VitalsInv, TypeOKVitals, NobodyLivesOnZero, Wired

(* Deaths of living characters are counted once each.                      *)
LEMMA KilledEffect ==
    ASSUME TypeOKVitals, TallyCovers, NEW K \in SUBSET LivingOf(life),
           NEW how \in {"DEAD", "DROP"}, NEW h \in [Fighters -> HPs], Killed(K, how, h)
    PROVE  /\ life' \in [Fighters -> {"LIVE", "DEAD", "DROP", "EMPTY"}]
           /\ hp' \in [Fighters -> HPs]
           /\ tally' \in [BattleTeams -> 0 .. Cardinality(Fighters)]
           /\ TallyCovers'
<1>1. K \subseteq Fighters /\ LivingOf(life') = LivingOf(life) \ K
  BY DEF LivingOf, Killed
<1>2. ASSUME NEW t \in BattleTeams
      PROVE  /\ tally'[t] \in 0 .. Cardinality(Fighters)
             /\ tally'[t] >= Cardinality(Members(LivingOf(life'), t))
  <2> DEFINE L == Members(LivingOf(life), t)
             Kt == Members(K, t)
  <2>1. LivingOf(life) \subseteq Fighters
    BY DEF LivingOf
  <2>2. IsFiniteSet(L) /\ Cardinality(L) \in Nat /\ Cardinality(Kt) \in Nat
    BY <1>1, <2>1, MembersAreFinite, FightersAreCounted
  <2>3. Members(LivingOf(life'), t) = L \ Kt /\ L \cap Kt = Kt
    BY <1>1 DEF Members
  <2>4. Cardinality(L \ Kt) = Cardinality(L) - Cardinality(Kt) /\ Cardinality(L \ Kt) \in Nat
    <3> HIDE DEF L, Kt
    <3> QED
      BY <2>2, <2>3, FS_Difference, FS_CardinalityType
  <2>5. tally'[t] = tally[t] - Cardinality(Kt)
    BY DEF Killed
  <2>6. tally[t] >= Cardinality(L) /\ tally[t] \in 0 .. Cardinality(Fighters)
    BY DEF TallyCovers, TypeOKVitals
  <2> HIDE DEF L, Kt
  <2> QED
    BY <2>2, <2>3, <2>4, <2>5, <2>6, FightersAreCounted
<1>3. hp' \in [Fighters -> HPs]
  <2>1. 0 \in HPs
    BY VitalsAssumption DEF HPs
  <2> QED
    BY <2>1 DEF Killed
<1>4. TallyCovers'
  BY <1>2 DEF TallyCovers
<1>5. tally' \in [BattleTeams -> 0 .. Cardinality(Fighters)]
  BY <1>2 DEF Killed
<1>6. life' \in [Fighters -> {"LIVE", "DEAD", "DROP", "EMPTY"}]
  BY DEF Killed, TypeOKVitals
<1> QED
  BY <1>3, <1>4, <1>5, <1>6

(* IsGameEnd kills whoever it finds alive without hit points.              *)
LEMMA IsGameEndEffect ==
    ASSUME TypeOKVitals, TallyCovers, NEW h \in [Fighters -> HPs], IsGameEndOf(h), wire' = wire,
           pain' \subseteq Fighters, acting' \in Fighters \cup {Nobody}
    PROVE  VitalsInv'
<1>1. PICK K \in SUBSET LivingOf(life) : K = Starved(h)
  BY DEF Starved, Wired, LivingOf
<1>2. Killed(K, "DEAD", h) /\ "DEAD" \in {"DEAD", "DROP"}
  BY <1>1 DEF IsGameEndOf
<1>3. /\ life' \in [Fighters -> {"LIVE", "DEAD", "DROP", "EMPTY"}]
      /\ hp' \in [Fighters -> HPs] /\ TallyCovers'
      /\ tally' \in [BattleTeams -> 0 .. Cardinality(Fighters)]
  BY <1>2, KilledEffect
<1>4. \A f \in Fighters : life'[f] = "LIVE" =>
           f \notin K /\ life[f] = "LIVE" /\ hp'[f] = h[f]
  BY <1>2 DEF Killed
<1>5. \A n \in HPs : n # 0 => n > 0
  BY VitalsAssumption DEF HPs
<1>6. NobodyLivesOnZero'
  BY <1>1, <1>3, <1>4, <1>5 DEF NobodyLivesOnZero, Starved, Wired
<1> QED
  BY <1>3, <1>6 DEF IsGameEndOf, VitalsInv, TypeOKVitals

(* Within a frame hit points may reach 0.                                  *)
LEMMA InsideFrame ==
    ASSUME TypeOKVitals', TallyCovers', judged' = "no"
    PROVE  VitalsInv'
BY DEF VitalsInv, NobodyLivesOnZero

(* UpdateHPStatus writes numbers only.                                     *)
LEMMA UpdateHPStatusEffect ==
    ASSUME VitalsInv, NEW S, NEW h \in HPs, UpdateHPStatus(S, h)
    PROVE  VitalsInv'
<1>1. TypeOKVitals' /\ TallyCovers' /\ judged' = "no"
  BY DEF UpdateHPStatus, VitalsInv, TypeOKVitals, TallyCovers
<1> QED
  BY <1>1, InsideFrame

LEMMA UpdateCharaStatusEffect ==
    ASSUME VitalsInv, NEW f \in Fighters, NEW h \in HPs, UpdateCharaStatus(f, h)
    PROVE  VitalsInv'
<1>1. PICK K \in SUBSET LivingOf(life) :
         Killed(K, "DEAD", [hp EXCEPT ![f] = h]) /\ pain' = pain \ K
  <2>1. f \in LivingOf(life)
    BY DEF UpdateCharaStatus, LivingOf
  <2>2. (IF h = 0 THEN {f} ELSE {}) \in SUBSET LivingOf(life)
    BY <2>1
  <2> QED
    BY <2>2 DEF UpdateCharaStatus
<1>2. [hp EXCEPT ![f] = h] \in [Fighters -> HPs]
  BY DEF VitalsInv, TypeOKVitals
<1>3. TypeOKVitals' /\ TallyCovers' /\ judged' = "no"
  BY <1>1, <1>2, KilledEffect DEF UpdateCharaStatus, VitalsInv, TypeOKVitals
<1> QED
  BY <1>3, InsideFrame

LEMMA DropsEffect ==
    ASSUME VitalsInv, NEW f \in Fighters, Drops(f)
    PROVE  VitalsInv'
<1>1. {f} \in SUBSET LivingOf(life) /\ hp \in [Fighters -> HPs]
  BY DEF Drops, LivingOf, VitalsInv, TypeOKVitals
<1>2. TypeOKVitals' /\ TallyCovers' /\ judged' = "no"
  BY <1>1, KilledEffect DEF Drops, VitalsInv, TypeOKVitals
<1> QED
  BY <1>2, InsideFrame

(* Who leaves is taken off the table if his death is counted; who is not    *)
(* AUTHED any more stays on it.                                            *)
LEMMA DisconnectVitalsEffect ==
    ASSUME VitalsInv, NEW f \in Fighters, DisconnectVitals(f)
    PROVE  VitalsInv'
<1> USE DEF VitalsInv
<1>1. LivingOf(life') = LivingOf(life) \ {f}
  BY DEF DisconnectVitals, LivingOf, TypeOKVitals
<1>2. ASSUME NEW t \in BattleTeams
      PROVE  /\ tally'[t] \in 0 .. Cardinality(Fighters)
             /\ tally'[t] >= Cardinality(Members(LivingOf(life'), t))
  <2> DEFINE L == Members(LivingOf(life), t)
  <2>1. LivingOf(life) \subseteq Fighters
    BY DEF LivingOf
  <2>2. /\ IsFiniteSet(L) /\ Cardinality(L) \in Nat
        /\ tally[t] >= Cardinality(L) /\ tally[t] \in 0 .. Cardinality(Fighters)
    BY <2>1, MembersAreFinite, FightersAreCounted DEF TallyCovers, TypeOKVitals
  <2>3. Members(LivingOf(life'), t) = L \ {f}
    BY <1>1 DEF Members
  <2>4. CASE f \in L
    <3>1. Cardinality(L \ {f}) = Cardinality(L) - 1 /\ Cardinality(L \ {f}) \in Nat
      BY <2>2, <2>4, FS_RemoveElement, FS_CardinalityType
    <3>2. tally'[t] \in {tally[t], tally[t] - 1}
      BY DEF DisconnectVitals, TypeOKVitals
    <3> HIDE DEF L
    <3> QED
      BY <2>2, <2>3, <3>1, <3>2, FightersAreCounted
  <2>5. CASE f \notin L
    <3>1. L \ {f} = L
      BY <2>5
    <3>2. ~(f \in Wired /\ life[f] = "LIVE" /\ TeamOf[f] = t)
      BY <2>5 DEF Members, LivingOf
    <3>3. tally'[t] = tally[t]
      BY <3>2 DEF DisconnectVitals, TypeOKVitals
    <3> QED
      BY <2>2, <2>3, <3>1, <3>3
  <2> QED
    BY <2>4, <2>5
<1>3. tally' \in [BattleTeams -> 0 .. Cardinality(Fighters)]
  <2>1. DOMAIN tally' = BattleTeams /\ tally' = [t \in BattleTeams |-> tally'[t]]
    BY DEF DisconnectVitals, TypeOKVitals
  <2> QED
    BY <1>2, <2>1
<1>4. TallyCovers'
  BY <1>2 DEF TallyCovers
<1>5. TypeOKVitals' /\ judged' = "no"
  BY <1>3, VitalsAssumption DEF DisconnectVitals, TypeOKVitals, HPs
<1> QED
  BY <1>4, <1>5, InsideFrame

LEMMA StepVitalsSound == VitalsInv /\ [NextVitals]_vitalVars => VitalsInv'
<1> SUFFICES ASSUME VitalsInv, [NextVitals]_vitalVars PROVE VitalsInv'
  OBVIOUS
<1>1. ASSUME NEW f \in Fighters, NEW h \in HPs, NEW a \in Fighters, DamageCharaHP(a, f, h)
      PROVE  VitalsInv'
  BY <1>1, UpdateCharaStatusEffect DEF DamageCharaHP
<1>2. ASSUME NEW f \in Fighters, SetPain(f) \/ LinkFailsVitals(f) PROVE VitalsInv'
  <2>1. TypeOKVitals' /\ TallyCovers' /\ judged' = "no"
    BY <1>2 DEF SetPain, LinkFailsVitals, VitalsInv, TypeOKVitals, TallyCovers
  <2> QED
    BY <2>1, InsideFrame
<1>3. ASSUME NEW S \in SUBSET Fighters, NEW h \in HPs, NEW g \in HPs,
             BombItemBulletDrain(S, h, g)
      PROVE  VitalsInv'
  <2>1. TypeOKVitals' /\ TallyCovers' /\ judged' = "no"
    BY <1>3 DEF BombItemBulletDrain, VitalsInv, TypeOKVitals, TallyCovers
  <2> QED
    BY <2>1, InsideFrame
<1>4. ASSUME NEW h \in HPs,
             \/ UseRepair(h) \/ UseRepairTeam(h)
             \/ \E S \in SUBSET Fighters : BombItemBulletRepair(S, h)
      PROVE  VitalsInv'
  BY <1>4, UpdateHPStatusEffect DEF UseRepair, UseRepairTeam, BombItemBulletRepair
<1>5. ASSUME NEW h \in HPs, FrameTurnEndVitals(h) PROVE VitalsInv'
  <2> DEFINE hurt == Wired \cap LivingOf(life) \cap pain
             paid == [f \in Fighters |-> IF f \in hurt THEN h ELSE hp[f]]
  <2>1. paid \in [Fighters -> HPs]
    BY DEF VitalsInv, TypeOKVitals
  <2>2. /\ IsGameEndOf(paid) /\ wire' = wire /\ pain' \subseteq Fighters
        /\ acting' \in Fighters \cup {Nobody}
    BY <1>5 DEF FrameTurnEndVitals, VitalsInv, TypeOKVitals, Wired
  <2> HIDE DEF paid
  <2> QED
    BY <2>1, <2>2, IsGameEndEffect DEF VitalsInv
<1>6. CASE EndFrameVitals
  BY <1>6, IsGameEndEffect DEF EndFrameVitals, VitalsInv, TypeOKVitals
<1>7. CASE NewGameVitals
  <2>1. LivingOf(life') = Fighters
    BY <1>7 DEF NewGameVitals, LivingOf
  <2>2. \A t \in BattleTeams : /\ tally'[t] \in 0 .. Cardinality(Fighters)
                               /\ tally'[t] >= Cardinality(Members(LivingOf(life'), t))
    BY <1>7, <2>1, MembersAreFinite, FightersAreCounted DEF NewGameVitals
  <2>3. TallyCovers'
    BY <2>2 DEF TallyCovers
  <2>4. tally' \in [BattleTeams -> 0 .. Cardinality(Fighters)]
    BY <1>7, <2>2 DEF NewGameVitals
  <2>5. MaxHP \in HPs /\ MaxHP > 0
    BY VitalsAssumption DEF HPs
  <2> QED
    BY <1>7, <2>3, <2>4, <2>5 DEF NewGameVitals, VitalsInv, TypeOKVitals, NobodyLivesOnZero,
       Wired
<1>8. CASE UNCHANGED vitalVars
  BY <1>8 DEF vitalVars, VitalsInv, TypeOKVitals, TallyCovers, NobodyLivesOnZero, Wired
<1> QED
  BY <1>1, <1>2, <1>3, <1>4, <1>5, <1>6, <1>7, <1>8, UpdateCharaStatusEffect, DropsEffect,
     DisconnectVitalsEffect DEF NextVitals

(* After a frame no connected player lives without hit points, whatever     *)
(* scripts, items, the pain and the sender thread did in it; and no entry   *)
(* of the table of living teams ever falls below 0.                        *)
THEOREM TheDyingAreFound == SpecVitals => [](TypeOKVitals /\ NobodyLivesOnZero)
<1>1. VitalsInv => TypeOKVitals /\ NobodyLivesOnZero
  BY DEF VitalsInv
<1> QED
  BY <1>1, InitVitalsSound, StepVitalsSound, PTL DEF SpecVitals

(***************************************************************************)
(* The composition: a step of the whole is a step or a stutter of each part. *)
(***************************************************************************)

LEMMA PlayersAreComposed ==
    /\ InitPlayers => /\ InitRoom /\ InitOutfit /\ InitDeal
                      /\ InitSight /\ InitVitals /\ InitPockets
    /\ [NextPlayers]_playerVars =>
         /\ [NextRoom]_roomVars /\ [NextOutfit]_outfitVars /\ [NextDeal]_dealVars
         /\ [NextSight]_sightVars /\ [NextVitals]_vitalVars /\ [NextPockets]_pocketVars
<1>1. InitPlayers => /\ InitRoom /\ InitOutfit /\ InitDeal
                     /\ InitSight /\ InitVitals /\ InitPockets
  BY DEF InitPlayers, InitSides
<1>2. ASSUME NextPlayers
      PROVE  /\ [NextRoom]_roomVars /\ [NextOutfit]_outfitVars /\ [NextDeal]_dealVars
             /\ [NextSight]_sightVars /\ [NextVitals]_vitalVars /\ [NextPockets]_pocketVars
  BY <1>2 DEF NextPlayers
<1>3. ASSUME UNCHANGED playerVars
      PROVE  /\ UNCHANGED roomVars /\ UNCHANGED outfitVars /\ UNCHANGED dealVars
             /\ UNCHANGED sightVars /\ UNCHANGED vitalVars /\ UNCHANGED pocketVars
  BY <1>3 DEF playerVars
<1> QED
  BY <1>1, <1>2, <1>3

(* Run side by side the six parts keep their types and their promises.       *)
THEOREM PlayersAreSound ==
    SpecPlayers => [](/\ TypeOKPlayers /\ RoomIsSound /\ BudgetIsExact /\ DealIsSound
                      /\ SightIsSound /\ NobodyLivesOnZero /\ PocketsAreSound)
<1>1. SpecPlayers => [](TypeOKRoom /\ RoomIsSound)
  BY PlayersAreComposed, SettingsFitTogether, PTL DEF SpecPlayers, SpecRoom
<1>2. SpecPlayers => [](TypeOKOutfit /\ BudgetIsExact)
  BY PlayersAreComposed, BudgetsAreExact, PTL DEF SpecPlayers, SpecOutfit
<1>3. SpecPlayers => [](TypeOKDeal /\ DealIsSound)
  BY PlayersAreComposed, DealsAreFair, PTL DEF SpecPlayers, SpecDeal
<1>4. SpecPlayers => [](TypeOKSight /\ SightIsSound)
  BY PlayersAreComposed, PositionsAreKnown, PTL DEF SpecPlayers, SpecSight
<1>5. SpecPlayers => [](TypeOKVitals /\ NobodyLivesOnZero)
  BY PlayersAreComposed, TheDyingAreFound, PTL DEF SpecPlayers, SpecVitals
<1>6. SpecPlayers => [](TypeOKPockets /\ PocketsAreSound)
  BY PlayersAreComposed, ThievesAndShieldsAreSound, PTL DEF SpecPlayers, SpecPockets
<1>7. TypeOKRoom /\ TypeOKOutfit /\ TypeOKDeal /\ TypeOKSight /\ TypeOKVitals /\ TypeOKPockets
        => TypeOKPlayers
  BY DEF TypeOKPlayers
<1> QED
  BY <1>1, <1>2, <1>3, <1>4, <1>5, <1>6, <1>7, PTL

=============================================================================
