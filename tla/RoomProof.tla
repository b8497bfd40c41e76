------------------------------ MODULE RoomProof ------------------------------
(***************************************************************************)
(* Proofs about the room (Room), the random division into teams (Deal) and   *)
(* the budget for items (Outfit), for any size of the table and of the entry *)
(* area, any prices and any number of pockets.                               *)
(***************************************************************************)
EXTENDS Room, Deal, Outfit, FoldProof

-----------------------------------------------------------------------------
(* Smaller and larger numbers, first users. *)

LEMMA AtMostIs ==
    ASSUME NEW x \in Int, NEW y \in Int
    PROVE  AtMost(x, y) = IF x <= y THEN x ELSE y
<1> DEFINE m == IF x <= y THEN x ELSE y
<1>1. m \in {x, y} /\ \A z \in {x, y} : m <= z
  OBVIOUS
<1>2. \A n \in {x, y} : (\A z \in {x, y} : n <= z) => n = m
  OBVIOUS
<1> QED
  BY <1>1, <1>2 DEF AtMost, Least

LEMMA AtLeastIs ==
    ASSUME NEW x \in Int, NEW y \in Int
    PROVE  AtLeast(x, y) = IF x <= y THEN y ELSE x
<1>1. AtLeast(x, y) = -AtMost(-x, -y)
  BY DEF AtLeast, AtMost
<1> QED
  BY <1>1, AtMostIs

LEMMA GuestsAreNumbers == IsFiniteSet(Guests) /\ Guests \subseteq Nat /\ NoOne \notin Guests
<1>1. Cardinality(Guests) \in Nat
  BY GuestsAssumption, FS_CardinalityType
<1> QED
  BY <1>1, GuestsAssumption DEF NoOne

LEMMA LeastIsMember ==
    ASSUME NEW S \in SUBSET Guests, S # {}
    PROVE  Least(S) \in S
<1>1. S \subseteq Nat
  BY GuestsAreNumbers
<1>2. PICK m \in S : \A n \in S : <<n, m>> \notin OpToRel(<, Nat)
  BY <1>1, NatLessThanWellFounded, WFMin
<1>3. \A n \in S : n \in Nat /\ ~(n < m)
  BY <1>1, <1>2 DEF OpToRel
<1>4. \A n \in S : m <= n
  BY <1>3
<1> QED
  BY <1>4 DEF Least

-----------------------------------------------------------------------------
(* The room. *)

(* A master who is not there would never become ready: as soon as there is  *)
(* a user there is a master, and he is one of them.                        *)
MasterIsUser == master \in Users \cup {NoOne} /\ (Users # {} => master # NoOne)

RoomInv == TypeOKRoom /\ MasterIsUser /\ RoomIsSound

LEMMA UsersAreCounted == IsFiniteSet(Users) /\ Cardinality(Users) \in Nat
BY GuestsAreNumbers, FS_Subset, FS_CardinalityType DEF Users

LEMMA SomeUserIsCounted == Users # {} => Cardinality(Users) \in Nat \ {0}
BY UsersAreCounted, FS_EmptySet

(* Who is a user no more does not count.                                   *)
LEMMA FewerUsers ==
    ASSUME Users' \subseteq Users
    PROVE  Cardinality(Users') \in Nat /\ Cardinality(Users') <= Cardinality(Users)
BY UsersAreCounted, FS_Subset, FS_CardinalityType

(* The teams of the entry area are numbered from 0, and are no more than    *)
(* the teams there are.                                                    *)
LEMMA TeamAtIs ==
    ASSUME NEW n \in 1 .. MaxUsers - 1, NEW p \in Entry \cup {Gallery}
    PROVE  /\ TeamAt(p, n) \in Int
           /\ p \in Entry => TeamAt(p, n) \in 0 .. n - 1
<1>1. Columns \in Nat /\ n \in Nat \ {0} /\ n <= Columns
  BY ColumnsAssumption, UsersAssumption
<1>2. Columns \div n \in Nat \ {0}
  BY <1>1
<1>3. CASE p = Gallery
  BY <1>3 DEF TeamAt, Gallery, Entry
<1>4. CASE p \in Entry
  <2> DEFINE k == Columns \div n
  <2>1. p \in Nat /\ p # Gallery
    BY <1>1, <1>4 DEF Entry, Gallery
  <2>2. p \div k \in Nat
    <3> HIDE DEF k
    <3> QED
      BY <1>2, <2>1 DEF k
  <2>3. TeamAt(p, n) = AtMost(n - 1, p \div k)
    BY <2>1 DEF TeamAt
  <2>4. TeamAt(p, n) = IF n - 1 <= p \div k THEN n - 1 ELSE p \div k
    <3> HIDE DEF k
    <3> QED
      BY <1>1, <2>2, <2>3, AtMostIs
  <2> HIDE DEF k
  <2> QED
    BY <1>1, <2>2, <2>4
<1> QED
  BY <1>3, <1>4

LEMMA InitRoomSound == InitRoom => RoomInv
<1> SUFFICES ASSUME InitRoom PROVE RoomInv
  OBVIOUS
<1>1. Users = {}
  BY DEF InitRoom, Users
<1> QED
  BY <1>1, UsersAssumption DEF InitRoom, RoomInv, TypeOKRoom, MasterIsUser, RoomIsSound,
     ReadyTeamIsCurrent, LimitCovers, NotFrozen

(* The limit that is set covers the users it is set for.                   *)
LEMMA LimitForCovers ==
    ASSUME NEW asked \in Nat, NEW n \in Nat
    PROVE  LimitFor(asked, n) \in Nat /\ (LimitFor(asked, n) = 0 \/ LimitFor(asked, n) > n)
<1>1. AtLeast(asked, n + 1) = IF asked <= n + 1 THEN n + 1 ELSE asked
  BY AtLeastIs
<1> QED
  BY <1>1 DEF LimitFor

(* Who comes after the master is another user, if there is one.            *)
LEMMA SuccessorIsUser ==
    ASSUME MasterIsUser, NEW g \in Users, Users' = Users \ {g}, master' = Successor(g)
    PROVE  MasterIsUser'
<1>1. CASE master # g
  BY <1>1 DEF Successor, MasterIsUser
<1>2. CASE master = g /\ Users = {g}
  BY <1>2 DEF Successor, MasterIsUser
<1>3. CASE master = g /\ Users # {g}
  <2>1. Least(Users \ {g}) \in Users \ {g}
    BY <1>3, LeastIsMember DEF Users
  <2> QED
    BY <1>3, <2>1, GuestsAreNumbers DEF Successor, MasterIsUser, Users
<1> QED
  BY <1>1, <1>2, <1>3

LEMMA FreedEffect ==
    ASSUME TypeOKRoom, NEW g \in Guests, Freed(g)
    PROVE  /\ conn' \in [Guests -> {"EMPTY", "AUTHED", "DESTROY"}]
           /\ place' \in [Guests -> Entry \cup {Gallery}] /\ team' \in [Guests -> Int]
           /\ Users' = Users \ {g}
           /\ \A h \in Users' : place'[h] = place[h] /\ team'[h] = team[h]
BY DEF Freed, TypeOKRoom, Users

(* Steps that leave the number of teams and the limit alone, add no user,   *)
(* and keep who stays ready where he is.                                   *)
LEMMA CalmStep ==
    ASSUME RoomInv, TypeOKRoom', MasterIsUser', Users' \subseteq Users, limit' = limit,
           stage' = stage,
           \/ teams' = teams
           \/ \A h \in Users' : ~ready'[h],
           \A h \in Users' : ready'[h] =>
             ready[h] /\ place'[h] = place[h] /\ team'[h] = team[h],
           master' = master \/ stage = "game" \/ \A h \in Users' : ~ready'[h]
    PROVE  RoomInv'
<1>1. ReadyTeamIsCurrent'
  BY DEF RoomInv, RoomIsSound, ReadyTeamIsCurrent
<1>2. LimitCovers'
  <2>1. Cardinality(Users') \in Nat /\ Cardinality(Users') <= Cardinality(Users)
    BY FewerUsers
  <2> QED
    BY <2>1, UsersAreCounted DEF RoomInv, RoomIsSound, LimitCovers, TypeOKRoom
<1>3. NotFrozen'
  BY DEF RoomInv, RoomIsSound, NotFrozen, MasterIsUser
<1> QED
  BY <1>1, <1>2, <1>3 DEF RoomInv, RoomIsSound

LEMMA LoginSound == ASSUME RoomInv, NEW g \in Guests, Login(g) PROVE RoomInv'
<1> USE DEF RoomInv
<1>1. g \notin Users /\ Users' = Users \cup {g}
  BY DEF Login, Users, TypeOKRoom
<1>2. Cardinality(Users') = Cardinality(Users) + 1
  BY <1>1, UsersAreCounted, FS_AddElement
<1>3. limit' \in Nat /\ LimitCovers'
  BY <1>2, UsersAreCounted, LimitForCovers DEF Login, LimitCovers, TypeOKRoom
<1>4. Columns \div 2 \in Entry
  <2>1. Columns \in Nat \ {0}
    BY ColumnsAssumption, UsersAssumption
  <2> QED
    BY <2>1 DEF Entry
<1>5. TypeOKRoom'
  BY <1>3, <1>4 DEF Login, TypeOKRoom
<1>6. MasterIsUser'
  BY <1>1, GuestsAreNumbers DEF Login, MasterIsUser, Users
<1>7. ReadyTeamIsCurrent'
  BY <1>1 DEF Login, RoomIsSound, ReadyTeamIsCurrent, TypeOKRoom
<1>8. NotFrozen'
  BY <1>1, <1>6 DEF Login, RoomIsSound, NotFrozen, MasterIsUser, TypeOKRoom
<1> QED
  BY <1>3, <1>5, <1>6, <1>7, <1>8 DEF RoomIsSound

LEMMA WalkSound ==
    ASSUME RoomInv, NEW g \in Guests, NEW p \in Entry \cup {Gallery}, Walk(g, p)
    PROVE  RoomInv'
<1>1. TypeOKRoom' /\ MasterIsUser' /\ Users' = Users
  BY DEF Walk, RoomInv, TypeOKRoom, MasterIsUser, Users
<1> QED
  BY <1>1, CalmStep DEF Walk, RoomInv, TypeOKRoom

LEMMA LinkSound ==
    ASSUME RoomInv, NEW g \in Guests, LinkBreaks(g) \/ Cleared(g)
    PROVE  RoomInv'
<1>1. CASE LinkBreaks(g)
  <2>1. TypeOKRoom' /\ Users' = Users \ {g} /\ g # master
    BY <1>1 DEF LinkBreaks, RoomInv, TypeOKRoom, Users
  <2>2. MasterIsUser'
    BY <1>1, <2>1 DEF LinkBreaks, RoomInv, MasterIsUser
  <2> QED
    BY <1>1, <2>1, <2>2, CalmStep DEF LinkBreaks
<1>2. CASE Cleared(g)
  <2>1. g \notin Users
    BY <1>2 DEF Cleared, Users
  <2>2. TypeOKRoom' /\ Users' = Users /\ \A h \in Users' : place'[h] = place[h] /\ team'[h] = team[h]
    BY <1>2, <2>1, FreedEffect DEF Cleared, RoomInv, TypeOKRoom
  <2>3. MasterIsUser'
    BY <1>2, <2>2 DEF Cleared, RoomInv, MasterIsUser
  <2>4. \A h \in Users : h \in Guests /\ h # g
    BY <2>1 DEF Users
  <2>5. \A h \in Users' : ready'[h] = ready[h]
    BY <1>2, <2>2, <2>4 DEF Cleared, RoomInv, TypeOKRoom
  <2> QED
    BY <1>2, <2>2, <2>3, <2>5, CalmStep DEF Cleared
<1> QED
  BY <1>1, <1>2

(* The teams that are kept when somebody leaves.                           *)
LEMMA KeptTeams ==
    ASSUME NEW count \in 0 .. MaxUsers - 1, NEW n \in Nat
    PROVE  LET kept == AtMost(count, TeamCap(n)) IN
             kept \in 0 .. MaxUsers - 1 /\ kept <= count
<1>1. AtLeast(1, n - 2) \in Nat \ {0}
  BY AtLeastIs
<1>2. TeamCap(n) \in 1 .. MaxUsers - 1
  BY <1>1, UsersAssumption, AtMostIs DEF TeamCap
<1> QED
  BY <1>2, AtMostIs

LEMMA LeaveRoomSound == ASSUME RoomInv, NEW g \in Guests, LeaveRoom(g) PROVE RoomInv'
<1> USE DEF RoomInv
<1> DEFINE heir  == master = g /\ Users # {g}
           count == IF heir THEN 1 ELSE teams
           kept  == AtMost(count, TeamCap(Cardinality(Users)))
<1>1. /\ g \in Users /\ Freed(g) /\ master' = Successor(g) /\ stage' = stage
      /\ limit' = IF Users = {g} THEN 0 ELSE limit
      /\ teams' = IF Users = {g} THEN 1 ELSE kept
      /\ ready' = IF heir \/ kept < count THEN UnreadyExcept({}) ELSE [ready EXCEPT ![g] = FALSE]
  BY DEF LeaveRoom
<1>2. 1 \in 0 .. MaxUsers - 1 /\ count \in 0 .. MaxUsers - 1
  BY UsersAssumption DEF TypeOKRoom
<1>3. kept \in 0 .. MaxUsers - 1 /\ kept <= count
  <2> HIDE DEF count
  <2> QED
    BY <1>2, UsersAreCounted, KeptTeams
<1>4. /\ Users' = Users \ {g}
      /\ \A h \in Users' : place'[h] = place[h] /\ team'[h] = team[h]
  BY <1>1, FreedEffect
<1>5. MasterIsUser'
  BY <1>1, <1>4, SuccessorIsUser
<1>6. ready' \in [Guests -> BOOLEAN] /\ \A h \in Users' : ready'[h] => ready[h]
  <2> HIDE DEF heir, kept, count
  <2> QED
    BY <1>1, <1>4 DEF UnreadyExcept, TypeOKRoom, Users
<1>7. TypeOKRoom'
  <2>1. master' \in Guests \cup {NoOne}
    BY <1>5 DEF MasterIsUser, Users
  <2>2. limit' \in Nat /\ teams' \in 0 .. MaxUsers - 1 /\ stage' \in {"room", "game", "dead"}
    <3> HIDE DEF heir, kept
    <3> QED
      BY <1>1, <1>2, <1>3 DEF TypeOKRoom
  <2> QED
    BY <1>1, <1>6, <2>1, <2>2, FreedEffect DEF TypeOKRoom
<1>8. CASE Users = {g}
  <2>1. Users' = {}
    BY <1>4, <1>8
  <2> QED
    BY <1>1, <1>5, <1>7, <1>8, <2>1 DEF RoomIsSound, ReadyTeamIsCurrent, LimitCovers, NotFrozen
<1>9. CASE Users # {g}
  <2>1. CASE heir \/ kept < count
    <3>1. \A h \in Users' : ~ready'[h]
      <4>1. ready' = UnreadyExcept({})
        BY <1>1, <2>1
      <4> QED
        BY <1>4, <4>1 DEF UnreadyExcept, Users
    <3> QED
      BY <1>1, <1>4, <1>5, <1>7, <1>9, <3>1, CalmStep
  <2>2. CASE ~heir /\ ~(kept < count)
    <3>1. master' = master
      BY <1>1, <1>9, <2>2 DEF Successor
    <3>2. count = teams
      BY <2>2
    <3>3. teams' = teams
      <4> HIDE DEF heir, count, kept
      <4> QED
        BY <1>1, <1>2, <1>3, <1>9, <2>2, <3>2
    <3> QED
      BY <1>1, <1>4, <1>5, <1>6, <1>7, <1>9, <3>1, <3>3, CalmStep
  <2> QED
    BY <2>1, <2>2
<1> QED
  BY <1>8, <1>9

LEMMA LeaveGameSound == ASSUME RoomInv, NEW g \in Guests, LeaveGame(g) PROVE RoomInv'
<1> USE DEF RoomInv
<1>1. /\ g \in Users /\ Freed(g) /\ master' = Successor(g) /\ stage = "game"
      /\ ready' = [ready EXCEPT ![g] = FALSE]
  BY DEF LeaveGame
<1>2. /\ Users' = Users \ {g}
      /\ \A h \in Users' : place'[h] = place[h] /\ team'[h] = team[h]
  BY <1>1, FreedEffect
<1>3. MasterIsUser'
  BY <1>1, <1>2, SuccessorIsUser
<1>4. TypeOKRoom'
  <2>1. master' \in Guests \cup {NoOne}
    BY <1>3 DEF MasterIsUser, Users
  <2>2. limit' \in Nat /\ teams' \in 0 .. MaxUsers - 1 /\ stage' \in {"room", "game", "dead"}
    BY UsersAssumption DEF LeaveGame, TypeOKRoom
  <2> QED
    BY <1>1, <2>1, <2>2, FreedEffect DEF TypeOKRoom
<1>5. CASE Users = {g}
  <2>1. Users' = {} /\ limit' = 0
    BY <1>2, <1>5 DEF LeaveGame
  <2> QED
    BY <1>3, <1>4, <2>1 DEF RoomIsSound, ReadyTeamIsCurrent, LimitCovers, NotFrozen
<1>6. CASE Users # {g}
  <2>1. UNCHANGED <<teams, limit, stage>> /\ \A h \in Users' : ready'[h] => ready[h]
    BY <1>1, <1>2, <1>6 DEF LeaveGame, TypeOKRoom, Users
  <2> QED
    BY <1>1, <1>2, <1>3, <1>4, <2>1, CalmStep
<1> QED
  BY <1>5, <1>6

(* The number of teams that is set is one less than the users at most, and  *)
(* 0 with a single user.                                                   *)
LEMMA CountForIs ==
    ASSUME NEW asked \in Nat, Users # {}
    PROVE  CountFor(asked) \in 0 .. MaxUsers - 1
<1> DEFINE most == AtMost(MaxUsers - 1, Cardinality(Users) - 1)
<1>1. most \in 0 .. MaxUsers - 1
  BY SomeUserIsCounted, UsersAssumption, AtMostIs
<1>2. AtLeast(asked, 1) = IF asked = 0 THEN 1 ELSE asked
  BY AtLeastIs
<1>3. CountFor(asked) = IF most < asked THEN most ELSE AtLeast(asked, 1)
  BY DEF CountFor
<1> HIDE DEF most
<1> QED
  BY <1>1, <1>2, <1>3, UsersAssumption

LEMMA SettingsSound ==
    ASSUME RoomInv, NEW n \in Nat, NEW g \in Guests,
           SetTeamCount(g, n) \/ SetTurnLimit(n) \/ ReEnter(g)
    PROVE  RoomInv'
<1> USE DEF RoomInv
<1>1. CASE SetTeamCount(g, n)
  <2>1. g = master /\ stage = "room" /\ master \in Users /\ ~ready[master]
    BY <1>1, GuestsAreNumbers DEF SetTeamCount, RoomIsSound, NotFrozen, MasterIsUser
  <2>2. Users' = Users /\ \A h \in Users' : ~ready'[h]
    BY <1>1, <2>1 DEF SetTeamCount, UnreadyExcept, Users
  <2>3. TypeOKRoom'
    BY <1>1, <2>1, CountForIs DEF SetTeamCount, TypeOKRoom, UnreadyExcept
  <2>4. MasterIsUser'
    BY <1>1, <2>2 DEF SetTeamCount, MasterIsUser
  <2> QED
    BY <1>1, <2>2, <2>3, <2>4, CalmStep DEF SetTeamCount
<1>2. ASSUME limit' \in Nat, LimitCovers', UNCHANGED <<conn, place, team, teams, master, stage>>,
             ready' \in [Guests -> BOOLEAN], \A h \in Guests : ready'[h] => ready[h]
      PROVE  RoomInv'
  BY <1>2 DEF RoomIsSound, ReadyTeamIsCurrent, NotFrozen, MasterIsUser, TypeOKRoom, Users
<1>3. CASE SetTurnLimit(n)
  <2>1. limit' \in Nat /\ LimitCovers'
    BY <1>3, UsersAreCounted, LimitForCovers DEF SetTurnLimit, LimitCovers, sessRoom, Users
  <2> QED
    BY <1>2, <1>3, <2>1 DEF SetTurnLimit, sessRoom, TypeOKRoom
<1>4. CASE ReEnter(g)
  <2>1. limit' \in Nat /\ LimitCovers'
    BY <1>4, UsersAreCounted, LimitForCovers DEF ReEnter, LimitCovers, Users, TypeOKRoom
  <2> QED
    BY <1>2, <1>4, <2>1 DEF ReEnter, TypeOKRoom
<1> QED
  BY <1>1, <1>3, <1>4

LEMMA SetReadySound ==
    ASSUME RoomInv, NEW g \in Guests, NEW flag \in BOOLEAN, SetReady(g, flag)
    PROVE  RoomInv'
<1> USE DEF RoomInv
<1>1. teams > 1 => teams \in 1 .. MaxUsers - 1
  BY DEF TypeOKRoom
<1>2. teams > 1 => TeamAt(place[g], teams) \in Int
  BY <1>1, TeamAtIs DEF TypeOKRoom
<1>3. TeamWhenReady(g) \in Int
  BY <1>2 DEF TeamWhenReady, TypeOKRoom, Gallery
<1>4. TypeOKRoom' /\ Users' = Users
  BY <1>3 DEF SetReady, TypeOKRoom, Users
<1>5. ReadyTeamIsCurrent'
  BY <1>4 DEF SetReady, RoomIsSound, ReadyTeamIsCurrent, TypeOKRoom, TeamWhenReady, Users
<1> QED
  BY <1>4, <1>5 DEF SetReady, RoomIsSound, MasterIsUser, LimitCovers, NotFrozen, TypeOKRoom, Users

LEMMA SeatedIs ==
    ASSUME TypeOKRoom, teams > 0
    PROVE  /\ Seated \in [Guests -> Int]
           /\ \A g \in Users : Seated[g] = TeamAt(place[g], teams)
           /\ \A g \in Entrants : Seated[g] \in 0 .. teams - 1
<1>1. teams \in 1 .. MaxUsers - 1
  BY DEF TypeOKRoom
<1>2. \A g \in Guests : /\ TeamAt(place[g], teams) \in Int
                        /\ place[g] \in Entry => TeamAt(place[g], teams) \in 0 .. teams - 1
  BY <1>1, TeamAtIs DEF TypeOKRoom
<1>3. Seated \in [Guests -> Int]
  BY <1>2 DEF Seated, TypeOKRoom
<1>4. \A g \in Users : Seated[g] = TeamAt(place[g], teams)
  BY DEF Seated, Users
<1> QED
  BY <1>2, <1>3, <1>4 DEF Entrants, Users

(* How many entrants sit before a slot.                                    *)
Before(g) == {h \in Entrants : h < g}

LEMMA BeforeIsCounted ==
    ASSUME NEW g
    PROVE  IsFiniteSet(Before(g)) /\ Cardinality(Before(g)) \in Nat
BY GuestsAreNumbers, FS_Subset, FS_CardinalityType DEF Before, Entrants, Users

LEMMA NumberedIs ==
    ASSUME NEW seats \in [Guests -> Int]
    PROVE  Numbered(seats) \in [Guests -> Int]
<1>1. \A g : Cardinality({h \in Entrants : h < g}) \in Int
  BY BeforeIsCounted DEF Before
<1> QED
  BY <1>1 DEF Numbered

LEMMA StartSound ==
    ASSUME RoomInv, Start \/ StartRefused \/ StartDivides
    PROVE  RoomInv'
<1> USE DEF RoomInv
<1>1. CASE Start
  <2>1. Numbered(Seated) \in [Guests -> Int]
    BY <1>1, SeatedIs, NumberedIs DEF Start
  <2>2. TypeOKRoom'
    BY <1>1, <2>1 DEF Start, TypeOKRoom
  <2> QED
    BY <1>1, <2>2 DEF Start, RoomIsSound, ReadyTeamIsCurrent, LimitCovers, NotFrozen,
       MasterIsUser, Users
<1>2. CASE StartRefused
  <2>1. UNCHANGED <<conn, place, ready, teams, limit, master, stage>>
    BY <1>2 DEF StartRefused
  <2>2. team' = team \/ (teams > 0 /\ team' = Seated)
    BY <1>2 DEF StartRefused
  <2>3. TypeOKRoom'
    BY <2>1, <2>2, SeatedIs DEF TypeOKRoom
  <2>4. ReadyTeamIsCurrent'
    BY <2>1, <2>2, SeatedIs DEF RoomIsSound, ReadyTeamIsCurrent, Users
  <2> QED
    BY <2>1, <2>3, <2>4 DEF RoomIsSound, LimitCovers, NotFrozen, MasterIsUser, Users
<1>3. CASE StartDivides
  BY <1>3 DEF StartDivides, sessRoom, RoomIsSound, ReadyTeamIsCurrent, LimitCovers, NotFrozen,
     MasterIsUser, TypeOKRoom, Users
<1> QED
  BY <1>1, <1>2, <1>3

LEMMA StepRoomSound == RoomInv /\ [NextRoom]_roomVars => RoomInv'
<1> SUFFICES ASSUME RoomInv, [NextRoom]_roomVars PROVE RoomInv'
  OBVIOUS
<1>1. CASE GameEnds
  <2>1. TypeOKRoom' /\ Users' = Users /\ \A h \in Users : ~ready'[h]
    BY <1>1, UsersAssumption DEF GameEnds, RoomInv, TypeOKRoom, Users
  <2> QED
    BY <1>1, <2>1 DEF GameEnds, RoomInv, RoomIsSound, ReadyTeamIsCurrent, LimitCovers,
       NotFrozen, MasterIsUser
<1>2. CASE Restart
  <2>1. Users' = {}
    BY <1>2 DEF Restart, Users
  <2> QED
    BY <1>2, <2>1, UsersAssumption DEF Restart, RoomInv, TypeOKRoom, MasterIsUser, RoomIsSound,
       ReadyTeamIsCurrent, LimitCovers, NotFrozen
<1>3. CASE UNCHANGED roomVars
  BY <1>3 DEF roomVars, sessRoom, RoomInv, TypeOKRoom, MasterIsUser, RoomIsSound,
     ReadyTeamIsCurrent, LimitCovers, NotFrozen, Users
<1>4. 0 .. MaxUsers \subseteq Nat /\ {0, 1, MaxUsers + 1} \subseteq Nat
  BY UsersAssumption
<1>5. ASSUME NEW n \in {0, 1, MaxUsers + 1}, SetTurnLimit(n) PROVE RoomInv'
  <2>1. PICK g \in Guests : TRUE
    BY <1>5 DEF SetTurnLimit, Users
  <2> QED
    BY <1>4, <1>5, <2>1, SettingsSound
<1>6. ASSUME NEW g \in Guests, NEW n \in 0 .. MaxUsers, SetTeamCount(g, n) PROVE RoomInv'
  BY <1>4, <1>6, SettingsSound
<1>7. ASSUME NEW g \in Guests, ReEnter(g) PROVE RoomInv'
  BY <1>7, SettingsSound
<1> QED
  BY <1>1, <1>2, <1>3, <1>5, <1>6, <1>7, LoginSound, WalkSound, LinkSound, LeaveRoomSound,
     LeaveGameSound, SetReadySound, StartSound DEF NextRoom

LEMMA RoomIsAlwaysSound == SpecRoom => []RoomInv
BY InitRoomSound, StepRoomSound, PTL DEF SpecRoom

(* After every packet, departure and game: who is ready has the team of his *)
(* place, the turn limit lets everybody act, and the master, a user who is  *)
(* not ready, can always let the room go on.                               *)
THEOREM SettingsFitTogether == SpecRoom => [](TypeOKRoom /\ RoomIsSound)
<1>1. RoomInv => TypeOKRoom /\ RoomIsSound
  BY DEF RoomInv
<1> QED
  BY <1>1, RoomIsAlwaysSound, PTL

(* Two entrants have a different number of entrants before them.           *)
LEMMA BeforeTellsApart ==
    ASSUME NEW g \in Entrants, NEW h \in Entrants, g < h
    PROVE  Cardinality(Before(g)) # Cardinality(Before(h))
<1>1. Entrants \subseteq Nat
  BY GuestsAreNumbers DEF Entrants, Users
<1>2. Before(g) \subseteq Before(h) /\ g \in Before(h) \ Before(g)
  <2>1. g \in Nat /\ h \in Nat /\ \A x \in Entrants : x \in Nat /\ (x < g => x < h)
    BY <1>1
  <2>2. Before(g) \subseteq Before(h)
    BY <2>1 DEF Before
  <2>3. g \in Before(h)
    BY DEF Before
  <2>4. g \notin Before(g)
    BY <2>1 DEF Before
  <2> QED
    BY <2>2, <2>3, <2>4
<1> QED
  BY <1>2, BeforeIsCounted, FS_Subset

(* A game begins with the teams complete, and in a team battle everybody    *)
(* but the master in the team he was told when he became ready.            *)
LEMMA StartMatches ==
    ASSUME RoomInv, Start
    PROVE  /\ \A g \in Entrants : team'[g] \in Nat
           /\ teams > 1 => /\ {team'[g] : g \in Entrants} = 0 .. teams - 1
                           /\ \A g \in Users \ {master} : team'[g] = team[g]
           /\ teams = 1 => \A g, h \in Entrants : team'[g] = team'[h] => g = h
<1> USE DEF RoomInv
<1>1. /\ teams \in Nat \ {0} /\ team' = Numbered(Seated)
      /\ \A t \in 0 .. teams - 1 : \E g \in Entrants : Seated[g] = t
  BY DEF Start, TypeOKRoom, AllTeamsManned
<1>2. /\ \A g \in Users : Seated[g] = TeamAt(place[g], teams)
      /\ \A g \in Entrants : Seated[g] \in 0 .. teams - 1
  BY <1>1, SeatedIs
<1>3. Entrants \subseteq Users /\ Users \subseteq Guests
  BY DEF Entrants, Users
<1>4. CASE teams = 1
  <2>1. \A g \in Entrants : Seated[g] # Gallery
    BY <1>1, <1>2 DEF Gallery
  <2>2. \A g \in Entrants : team'[g] = Cardinality(Before(g))
    BY <1>1, <1>3, <1>4, <2>1 DEF Numbered, Before
  <2>3. ASSUME NEW g \in Entrants, NEW h \in Entrants, team'[g] = team'[h] PROVE g = h
    <3>1. g \in Nat /\ h \in Nat
      BY <1>3, GuestsAreNumbers
    <3>2. ~(g < h) /\ ~(h < g)
      BY <2>2, <2>3, BeforeTellsApart
    <3> QED
      BY <3>1, <3>2
  <2> QED
    BY <1>4, <2>2, <2>3, BeforeIsCounted
<1>5. CASE teams > 1
  <2>1. \A g \in Guests : team'[g] = Seated[g]
    BY <1>1, <1>5 DEF Numbered
  <2>2. \A g \in Users \ {master} : team'[g] = team[g]
    BY <1>2, <1>3, <1>5, <2>1 DEF Start, AllOthersReady, RoomIsSound, ReadyTeamIsCurrent
  <2>3. {team'[g] : g \in Entrants} = 0 .. teams - 1
    BY <1>1, <1>2, <1>3, <2>1
  <2> QED
    BY <1>1, <1>2, <1>3, <1>5, <2>1, <2>2, <2>3
<1> QED
  BY <1>1, <1>4, <1>5

(* Whatever happens between the readiness of the first and of the last, a   *)
(* game begins with an entrant in every team, alone in it in a battle of    *)
(* individuals.                                                            *)
THEOREM GamesBeginMatched == SpecRoom => TeamsMatch
<1>1. ASSUME RoomInv, NextRoom, stage = "room", stage' = "game"
      PROVE  Start
  BY <1>1 DEF NextRoom, Login, LinkBreaks, Cleared, LeaveRoom, LeaveGame, ReEnter, Walk,
     SetTeamCount, SetReady, SetTurnLimit, StartRefused, StartDivides, GameEnds, Restart
<1>2. RoomInv /\ [NextRoom]_roomVars
        => [(stage = "room" /\ stage' = "game") =>
              /\ \A g \in Entrants : team'[g] \in Nat
              /\ teams > 1 => /\ {team'[g] : g \in Entrants} = 0 .. teams - 1
                              /\ \A g \in Users \ {master} : team'[g] = team[g]
              /\ teams = 1 => \A g, h \in Entrants : team'[g] = team'[h] => g = h
           ]_roomVars
  BY <1>1, StartMatches
<1> QED
  BY <1>2, RoomIsAlwaysSound, PTL DEF SpecRoom, TeamsMatch

-----------------------------------------------------------------------------
(* The random division into teams. *)

LEMMA DivisionWithRemainder ==
    ASSUME NEW n \in Nat, NEW k \in Nat \ {0}
    PROVE  n = k * (n \div k) + (n % k) /\ (n % k) \in 0 .. k - 1 /\ n \div k \in Nat
OBVIOUS

LEMMA QuotientIsPositive ==
    ASSUME NEW n \in Nat, NEW k \in Nat \ {0}, k <= n
    PROVE  n \div k > 0
OBVIOUS

(* The teams that have one player more than the even share.                *)
Over == {t \in TheTeams : size[t] > Share}

(* While players are dealt, the seats taken are as many as players were     *)
(* dealt, and the spare seats, taken and free, are as many as players are   *)
(* left over from the even share.                                          *)
DealtSoFar ==
    /\ IsFiniteSet(TheTeams) /\ Cardinality(TheTeams) \in 1 .. dealt
    /\ size \in [TheTeams -> 0 .. Share + 1]
    /\ spare \in Nat /\ Cardinality(Over) + spare = dealt % Cardinality(TheTeams)
    /\ IsFiniteSet(Seats) /\ Cardinality(Seats) = dealt - hand

DealInv ==
    /\ dealing \in {"no", "yes", "dead"}
    /\ dealt \in 0 .. MostPlayers /\ hand \in 0 .. dealt
    /\ dealing = "yes" => DealtSoFar
    /\ dealing # "yes" => hand = 0 /\ spare = 0 /\ TheTeams = {} /\ size = [t \in {} |-> 0]

(* Seats that may be taken: the even share, and whatever was taken beyond.  *)
Full == (TheTeams \X (1 .. Share)) \cup (Over \X {Share + 1})

LEMMA SeatIs ==
    \A t, i : <<t, i>> \in Seats <=> t \in TheTeams /\ i \in 1 .. size[t]
BY DEF Seats

LEMMA ShareIs ==
    ASSUME dealt \in Nat, Cardinality(TheTeams) \in 1 .. dealt
    PROVE  /\ Share \in Nat \ {0}
           /\ dealt = Cardinality(TheTeams) * Share + (dealt % Cardinality(TheTeams))
           /\ (dealt % Cardinality(TheTeams)) \in 0 .. Cardinality(TheTeams) - 1
<1> DEFINE k == Cardinality(TheTeams)
<1>1. k \in Nat \ {0} /\ k <= dealt
  OBVIOUS
<1>2. Share = dealt \div k
  BY DEF Share
<1> HIDE DEF k
<1>3. /\ dealt = k * (dealt \div k) + (dealt % k) /\ (dealt % k) \in 0 .. k - 1
      /\ dealt \div k \in Nat
  BY <1>1, DivisionWithRemainder
<1>4. dealt \div k > 0
  BY <1>1, QuotientIsPositive
<1> HIDE <1>2
<1> DEFINE q == dealt \div k
<1>5. q \in Nat \ {0}
  BY <1>3, <1>4
<1> QED
  BY <1>2, <1>3, <1>5 DEF k

LEMMA FullIsCounted ==
    ASSUME dealt \in Nat, DealtSoFar
    PROVE  /\ Seats \subseteq Full /\ IsFiniteSet(Full)
           /\ Cardinality(Full) = dealt - spare
<1> USE DEF DealtSoFar
<1>1. Share \in Nat
  BY ShareIs
<1>2. Seats \subseteq Full
  <2> SUFFICES ASSUME NEW t \in TheTeams, NEW i \in 1 .. size[t] PROVE <<t, i>> \in Full
    BY DEF Seats
  <2>1. size[t] \in 0 .. Share + 1
    OBVIOUS
  <2>2. i \in 1 .. Share \/ (i = Share + 1 /\ size[t] > Share)
    BY <1>1, <2>1
  <2> QED
    BY <2>2 DEF Full, Over
<1>3. /\ IsFiniteSet(TheTeams \X (1 .. Share))
      /\ Cardinality(TheTeams \X (1 .. Share)) = Cardinality(TheTeams) * Share
  <2>1. IsFiniteSet(1 .. Share) /\ Cardinality(1 .. Share) = Share
    BY <1>1, FS_Interval
  <2> QED
    BY <2>1, FS_Product
<1>4. /\ IsFiniteSet(Over \X {Share + 1})
      /\ Cardinality(Over \X {Share + 1}) = Cardinality(Over)
  <2>1. IsFiniteSet(Over) /\ Cardinality(Over) \in Nat
    BY FS_Subset, FS_CardinalityType DEF Over
  <2>2. IsFiniteSet({Share + 1}) /\ Cardinality({Share + 1}) = 1
    BY FS_Singleton
  <2>3. Cardinality(Over \X {Share + 1}) = Cardinality(Over) * 1
    BY <2>1, <2>2, FS_Product
  <2> QED
    BY <2>1, <2>2, <2>3, FS_Product
<1>5. (TheTeams \X (1 .. Share)) \cap (Over \X {Share + 1}) = {}
  BY <1>1
<1>6. /\ IsFiniteSet(Full)
      /\ Cardinality(Full) = Cardinality(TheTeams) * Share + Cardinality(Over)
  <2>1. Cardinality(Full) = Cardinality(TheTeams \X (1 .. Share))
                              + Cardinality(Over \X {Share + 1}) - Cardinality({})
    BY <1>3, <1>4, <1>5, FS_Union DEF Full
  <2>2. Cardinality({}) = 0
    BY FS_EmptySet
  <2>3. Cardinality(TheTeams \X (1 .. Share)) \in Nat /\ Cardinality(Over \X {Share + 1}) \in Nat
    BY <1>3, <1>4, FS_CardinalityType
  <2>4. IsFiniteSet(Full)
    BY <1>3, <1>4, FS_Union DEF Full
  <2> DEFINE a == Cardinality(TheTeams \X (1 .. Share))
             b == Cardinality(Over \X {Share + 1})
  <2>5. Cardinality(Full) = a + b - 0 /\ a \in Nat /\ b \in Nat
    BY <2>1, <2>2, <2>3
  <2> HIDE DEF a, b
  <2>6. Cardinality(Full) = a + b
    BY <2>5
  <2> QED
    BY <1>3, <1>4, <2>4, <2>6 DEF a, b
<1>7. Cardinality(Over) \in Nat /\ Cardinality(TheTeams) * Share \in Nat
  <2>1. IsFiniteSet(Over)
    BY FS_Subset DEF Over
  <2> QED
    BY <1>3, <2>1, FS_CardinalityType
<1>8. dealt = Cardinality(TheTeams) * Share + (dealt % Cardinality(TheTeams))
  BY ShareIs
<1>9. Cardinality(Over) + spare = dealt % Cardinality(TheTeams) /\ spare \in Nat
  OBVIOUS
<1> HIDE DEF DealtSoFar
<1> DEFINE p == Cardinality(TheTeams) * Share
           r == dealt % Cardinality(TheTeams)
<1>10. /\ Cardinality(Full) = p + Cardinality(Over) /\ p \in Nat /\ dealt = p + r
       /\ Cardinality(Over) + spare = r
  BY <1>6, <1>7, <1>8, <1>9
<1> HIDE DEF p, r
<1>11. Cardinality(Full) = dealt - spare
  BY <1>7, <1>9, <1>10
<1> QED
  BY <1>2, <1>6, <1>11

(* The loop that draws a team for a player ends: some team has a seat.      *)
LEMMA SeatIsFree == DealInv => SomeSeatIsFree
<1> SUFFICES ASSUME DealInv, hand > 0, \A t \in TheTeams : ~HasSeat(t) PROVE FALSE
  BY DEF SomeSeatIsFree
<1>1. DealtSoFar /\ dealt \in Nat /\ hand \in 1 .. dealt
  BY DEF DealInv
<1>2. Share \in Nat /\ (dealt % Cardinality(TheTeams)) \in 0 .. Cardinality(TheTeams) - 1
  BY <1>1, ShareIs DEF DealtSoFar
<1>3. \A t \in TheTeams : size[t] \in Nat /\ size[t] >= Share + (IF spare > 0 THEN 1 ELSE 0)
  BY <1>1, <1>2 DEF DealtSoFar, HasSeat
<1>4. spare = 0
  <2> SUFFICES ASSUME spare > 0 PROVE FALSE
    BY <1>1 DEF DealtSoFar
  <2>1. Over = TheTeams
    BY <1>2, <1>3 DEF Over
  <2>2. Cardinality(TheTeams) + spare = dealt % Cardinality(TheTeams)
    BY <1>1, <2>1 DEF DealtSoFar
  <2> QED
    BY <1>1, <1>2, <2>2 DEF DealtSoFar
<1>5. Full \subseteq Seats
  <2>1. ASSUME NEW t \in TheTeams, NEW i \in 1 .. Share PROVE <<t, i>> \in Seats
    BY <1>2, <1>3, <2>1, SeatIs
  <2>2. ASSUME NEW t \in Over PROVE <<t, Share + 1>> \in Seats
    BY <1>2, <1>3, <2>2, SeatIs DEF Over
  <2> QED
    BY <2>1, <2>2 DEF Full
<1>6. Seats = Full /\ Cardinality(Full) = dealt
  BY <1>1, <1>4, <1>5, FullIsCounted
<1> QED
  BY <1>1, <1>6 DEF DealtSoFar

LEMMA DivisionIsFair == DealInv => FairDeal
<1> SUFFICES ASSUME DealInv, dealing = "yes", hand = 0
             PROVE  /\ Cardinality(Seats) = dealt
                    /\ \A t, u \in TheTeams : size[t] > 0 /\ size[t] - size[u] <= 1
  BY DEF FairDeal
<1>1. DealtSoFar /\ dealt \in Nat /\ Cardinality(Seats) = dealt
  BY DEF DealInv, DealtSoFar
<1>2. Share \in Nat \ {0}
  BY <1>1, ShareIs DEF DealtSoFar
<1>3. Seats = Full
  <2>1. Seats \subseteq Full /\ IsFiniteSet(Full) /\ Cardinality(Full) = dealt - spare
    BY <1>1, FullIsCounted
  <2>2. Cardinality(Seats) <= Cardinality(Full)
    BY <2>1, FS_Subset
  <2>3. Cardinality(Seats) = Cardinality(Full)
    BY <1>1, <2>1, <2>2 DEF DealtSoFar
  <2> QED
    BY <2>1, <2>3, FS_Subset
<1>4. \A t \in TheTeams : size[t] \in Share .. Share + 1
  <2> SUFFICES ASSUME NEW t \in TheTeams PROVE size[t] \in Share .. Share + 1
    OBVIOUS
  <2>1. <<t, Share>> \in Seats
    BY <1>2, <1>3 DEF Full
  <2>2. Share \in 1 .. size[t] /\ size[t] \in 0 .. Share + 1
    BY <1>1, <2>1, SeatIs DEF DealtSoFar
  <2> QED
    BY <1>2, <2>2
<1> QED
  BY <1>1, <1>2, <1>4

LEMMA AskDeals ==
    ASSUME NEW n \in 1 .. MostPlayers, NEW wanted \in 1 .. MostPlayers, DealInv, Ask(n, wanted)
    PROVE  DealInv'
<1> USE MostAssumption
<1> DEFINE k == IF n < wanted THEN n ELSE wanted
<1>1. /\ hand' = n /\ dealt' = n /\ size' = [t \in 0 .. k - 1 |-> 0]
      /\ spare' = n % k /\ dealing' = "yes"
  BY DEF Ask
<1>2. k \in 1 .. n
  OBVIOUS
<1> HIDE DEF k
<1>3. TheTeams' = 0 .. k - 1 /\ IsFiniteSet(TheTeams') /\ Cardinality(TheTeams') = k
  <2>1. TheTeams' = 0 .. k - 1
    BY <1>1 DEF TheTeams
  <2>2. IsFiniteSet(0 .. k - 1) /\ Cardinality(0 .. k - 1) = k
    BY <1>2, FS_Interval
  <2> QED
    BY <2>1, <2>2
<1>4. Share' \in Nat
  <2>0. n \in Nat /\ k \in Nat \ {0}
    BY <1>2
  <2>1. n \div k \in Nat
    BY ONLY <2>0, DivisionWithRemainder
  <2>2. Share' = n \div k
    BY <1>1, <1>3 DEF Share
  <2> QED
    BY <2>1, <2>2
<1>5. \A t \in TheTeams' : size'[t] = 0
  BY <1>1, <1>3
<1>6. Seats' = {} /\ IsFiniteSet(Seats') /\ Cardinality(Seats') = 0
  <2>1. Seats' = {}
    BY <1>5 DEF Seats
  <2> QED
    BY <2>1, FS_EmptySet
<1>7. Over' = {} /\ Cardinality(Over') = 0
  <2>1. Over' = {}
    BY <1>4, <1>5 DEF Over
  <2> QED
    BY <2>1, FS_EmptySet
<1>8. n % k \in 0 .. k - 1
  BY <1>2, DivisionWithRemainder
<1>9. size' \in [TheTeams' -> 0 .. Share' + 1]
  <2>1. 0 \in 0 .. Share' + 1
    <3>1. \A q \in Nat : 0 \in 0 .. q + 1
      OBVIOUS
    <3> QED
      BY <1>4, <3>1
  <2>2. size' = [t \in TheTeams' |-> 0]
    BY <1>1, <1>3
  <2> QED
    BY <2>1, <2>2
<1>10. Cardinality(Over') + spare' = dealt' % Cardinality(TheTeams') /\ spare' \in Nat
  BY <1>1, <1>3, <1>7, <1>8
<1>11. DealtSoFar'
  BY <1>1, <1>2, <1>3, <1>6, <1>9, <1>10 DEF DealtSoFar
<1> QED
  BY <1>1, <1>11 DEF DealInv

LEMMA SeatDeals ==
    ASSUME NEW t \in TheTeams, DealInv, Seat(t)
    PROVE  DealInv'
<1> USE MostAssumption
<1>1. /\ dealing = "yes" /\ hand > 0 /\ HasSeat(t)
      /\ size' = [size EXCEPT ![t] = @ + 1] /\ spare' = SpareAfter(t)
      /\ hand' = hand - 1 /\ dealt' = dealt /\ dealing' = dealing
  BY DEF Seat
<1>2. /\ DealtSoFar /\ dealt \in 0 .. MostPlayers /\ hand \in 1 .. dealt
      /\ hand' \in 0 .. dealt'
  BY <1>1 DEF DealInv
<1>3. Share \in Nat
  BY <1>2, ShareIs DEF DealtSoFar
<1>4. TheTeams' = TheTeams /\ Share' = Share
  BY <1>1, <1>2 DEF TheTeams, Share, DealtSoFar
<1>5. /\ size \in [TheTeams -> 0 .. Share + 1] /\ spare \in Nat
      /\ IsFiniteSet(TheTeams) /\ IsFiniteSet(Seats)
  BY <1>2 DEF DealtSoFar
<1>6. /\ size[t] \in 0 .. Share /\ size'[t] = size[t] + 1
      /\ \A u \in TheTeams : u # t => size'[u] = size[u]
  BY <1>1, <1>3, <1>5 DEF HasSeat
<1>7. size' \in [TheTeams' -> 0 .. Share' + 1]
  BY <1>1, <1>3, <1>4, <1>5, <1>6
<1>8. /\ spare' \in Nat
      /\ Cardinality(Over') + spare' = Cardinality(Over) + spare
  <2>1. IsFiniteSet(Over) /\ Cardinality(Over) \in Nat
    BY <1>5, FS_Subset, FS_CardinalityType DEF Over
  <2>2. CASE size[t] < Share
    <3>1. Over' = Over
      BY <1>3, <1>4, <1>5, <1>6, <2>2 DEF Over
    <3>2. spare' = spare
      BY <1>1, <1>3, <1>5, <1>6, <2>2 DEF SpareAfter
    <3> QED
      BY <1>5, <3>1, <3>2
  <2>3. CASE size[t] = Share
    <3>1. spare > 0 /\ spare' = spare - 1
      BY <1>1, <1>3, <1>5, <2>3 DEF HasSeat, SpareAfter
    <3>2. t \notin Over /\ Over' = Over \cup {t}
      BY <1>3, <1>4, <1>5, <1>6, <2>3 DEF Over
    <3>3. Cardinality(Over') = Cardinality(Over) + 1
      BY <2>1, <3>2, FS_AddElement
    <3> QED
      BY <1>5, <2>1, <3>1, <3>3
  <2> QED
    BY <1>3, <1>6, <2>2, <2>3
<1>9. /\ IsFiniteSet(Seats') /\ Cardinality(Seats') = Cardinality(Seats) + 1
  <2> DEFINE s == <<t, size[t] + 1>>
  <2>1. s \notin Seats
    BY <1>6, SeatIs
  <2>2. Seats' = Seats \cup {s}
    <3>1. ASSUME NEW u \in TheTeams, NEW i \in 1 .. size'[u] PROVE <<u, i>> \in Seats \cup {s}
      BY <1>3, <1>6, <3>1, SeatIs
    <3>2. ASSUME NEW u \in TheTeams, NEW i \in 1 .. size[u] PROVE <<u, i>> \in Seats'
      <4>1. i \in 1 .. size'[u]
        BY <1>3, <1>5, <1>6, <3>2
      <4> QED
        BY <1>4, <4>1 DEF Seats
    <3>3. s \in Seats'
      <4>1. size[t] + 1 \in 1 .. size'[t]
        BY <1>3, <1>6
      <4> QED
        BY <1>4, <4>1 DEF Seats
    <3>4. Seats' \subseteq Seats \cup {s}
      BY <1>4, <3>1 DEF Seats
    <3>5. Seats \subseteq Seats'
      BY <3>2 DEF Seats
    <3> QED
      BY <3>3, <3>4, <3>5
  <2> QED
    BY <1>5, <2>1, <2>2, FS_AddElement
<1>10. Cardinality(Seats') = dealt' - hand'
  BY <1>1, <1>2, <1>9 DEF DealtSoFar
<1>11. DealtSoFar'
  BY <1>1, <1>2, <1>4, <1>5, <1>7, <1>8, <1>9, <1>10 DEF DealtSoFar
<1> QED
  BY <1>1, <1>2, <1>11 DEF DealInv

LEMMA DealInvStep == DealInv /\ [NextDeal]_dealVars => DealInv'
<1> SUFFICES ASSUME DealInv, [NextDeal]_dealVars PROVE DealInv'
  OBVIOUS
<1>1. ASSUME NEW n \in 1 .. MostPlayers, NEW wanted \in 1 .. MostPlayers, Ask(n, wanted)
      PROVE  DealInv'
  BY <1>1, AskDeals
<1>2. ASSUME NEW t \in TheTeams, Seat(t) PROVE DealInv'
  BY <1>2, SeatDeals
<1>3. CASE AskEmpty
  BY <1>3 DEF AskEmpty, DealInv, TheTeams
<1>4. CASE Tell
  BY <1>4, MostAssumption DEF Tell, DealInv, TheTeams
<1>5. CASE DealRestart
  BY <1>5 DEF DealRestart, DealInv, TheTeams
<1>6. CASE UNCHANGED dealVars
  BY <1>6 DEF dealVars, DealInv, DealtSoFar, TheTeams, Share, Over, Seats
<1> QED
  BY <1>1, <1>2, <1>3, <1>4, <1>5, <1>6 DEF NextDeal

(* Whatever is drawn, the dealing never gets stuck, and it ends with        *)
(* everybody in a team, no team empty, and no team two ahead of another.    *)
THEOREM DealsAreFair == SpecDeal => [](TypeOKDeal /\ DealIsSound)
<1>1. InitDeal => DealInv
  BY MostAssumption DEF InitDeal, DealInv, TheTeams
<1>2. DealInv => DealIsSound
  BY SeatIsFree, DivisionIsFair DEF DealIsSound
<1>3. DealInv => TypeOKDeal
  <2> SUFFICES ASSUME DealInv PROVE TypeOKDeal
    OBVIOUS
  <2>1. MostPlayers \in Nat \ {0}
    BY MostAssumption
  <2>2. CASE dealing = "yes"
    <3> DEFINE k == Cardinality(TheTeams)
               o == Cardinality(Over)
    <3>1. DealtSoFar /\ dealt \in 0 .. MostPlayers /\ hand \in 0 .. dealt
      BY <2>2 DEF DealInv
    <3>2. k \in 1 .. dealt /\ spare \in Nat /\ o + spare = dealt % k
      BY <3>1 DEF DealtSoFar
    <3>3. o \in Nat
      <4>1. IsFiniteSet(Over)
        BY <3>1, FS_Subset DEF DealtSoFar, Over
      <4> QED
        BY <4>1, FS_CardinalityType
    <3>4. size \in [TheTeams -> Nat]
      <4>1. 0 .. Share + 1 \subseteq Nat
        OBVIOUS
      <4> QED
        BY <3>1, <4>1 DEF DealtSoFar
    <3> HIDE DEF k, o
    <3>5. dealt % k \in 0 .. k - 1
      BY <3>1, <3>2
    <3>6. spare \in 0 .. MostPlayers - 1
      BY <2>1, <3>1, <3>2, <3>3, <3>5
    <3> QED
      BY <2>1, <2>2, <3>1, <3>4, <3>6 DEF TypeOKDeal
  <2>3. CASE dealing # "yes"
    BY <2>1, <2>3 DEF DealInv, TypeOKDeal
  <2> QED
    BY <2>2, <2>3
<1> QED
  BY <1>1, <1>2, <1>3, DealInvStep, PTL DEF SpecDeal

-----------------------------------------------------------------------------
(***************************************************************************)
(* The outfit.  What a bag is worth and what of it is affordable are folds   *)
(* over its pockets.                                                       *)
(***************************************************************************)

(* What a bag is worth.                                                    *)
Thing   == Goods \cup {Empty}
PriceOf(x) == IF x = Empty THEN 0 ELSE Price[x]

LEMMA PricesAre == \A x \in Thing : PriceOf(x) \in Nat
BY PriceAssumption DEF Thing, PriceOf

WorthStep(b, g, s) == IF s = {} THEN 0 ELSE g[s \ {Max(s)}] + PriceOf(b[Max(s)])
WorthBy(b, g) == g = [s \in SUBSET DOMAIN b |-> WorthStep(b, g, s)]

LEMMA WorthIsChosen ==
    ASSUME NEW b
    PROVE  Worth(b) = (CHOOSE g : WorthBy(b, g))[DOMAIN b]
BY DEF Worth, FoldLeft, MapThenFoldSet, WorthBy, WorthStep, PriceOf

LEMMA WorthExists ==
    ASSUME NEW b \in Seq(Thing)
    PROVE  \E g : WorthBy(b, g)
<1> DEFINE n == Len(b)
           F == [p \in Nat \X (1 .. n) |-> p[1] + PriceOf(b[p[2]])]
<1>1. n \in Nat /\ DOMAIN b = 1 .. n /\ \A i \in 1 .. n : b[i] \in Thing
  OBVIOUS
<1>2. F \in [Nat \X (1 .. n) -> Nat]
  <2>1. ASSUME NEW p \in Nat \X (1 .. n) PROVE p[1] + PriceOf(b[p[2]]) \in Nat
    <3>1. PriceOf(b[p[2]]) \in Nat
      BY <1>1, PricesAre
    <3> QED
      BY <3>1
  <2> QED
    BY <2>1
<1>3. PICK g \in [SUBSET (1 .. n) -> Nat] : \A s \in SUBSET (1 .. n) :
              g[s] = IF s = {} THEN 0 ELSE F[<<g[s \ {Max(s)}], Max(s)>>]
  <2>1. n \in Nat /\ 0 \in Nat
    BY <1>1
  <2> HIDE DEF F, n
  <2>2. \E g \in [SUBSET (1 .. n) -> Nat] : FoldsAll(g, n, 0, F)
    BY <1>2, <2>1, FoldIsWhole
  <2> QED
    BY <2>2 DEF FoldsAll
<1>4. ASSUME NEW s \in SUBSET (1 .. n) PROVE g[s] = WorthStep(b, g, s)
  <2>1. CASE s # {}
    <3>1. Max(s) \in s
      BY <1>1, <2>1, LastIs
    <3>2. <<g[s \ {Max(s)}], Max(s)>> \in Nat \X (1 .. n)
      BY <3>1
    <3>3. F[<<g[s \ {Max(s)}], Max(s)>>] = g[s \ {Max(s)}] + PriceOf(b[Max(s)])
      BY <3>2
    <3> HIDE DEF F
    <3> QED
      BY <1>3, <2>1, <3>3 DEF WorthStep
  <2> HIDE DEF F
  <2> QED
    BY <1>3, <2>1 DEF WorthStep
<1>5. g = [s \in SUBSET DOMAIN b |-> WorthStep(b, g, s)]
  BY <1>1, <1>4
<1> QED
  BY <1>5 DEF WorthBy

(* The worth of the first k pockets.                                        *)
WorthTo(b, k) == (CHOOSE g : WorthBy(b, g))[1 .. k]

LEMMA WorthToIs ==
    ASSUME NEW b \in Seq(Thing)
    PROVE  /\ Worth(b) = WorthTo(b, Len(b)) /\ WorthTo(b, 0) = 0
           /\ \A k \in 1 .. Len(b) : WorthTo(b, k) = WorthTo(b, k - 1) + PriceOf(b[k])
<1> DEFINE g == CHOOSE g0 : WorthBy(b, g0)
           n == Len(b)
<1>1. WorthBy(b, g)
  BY WorthExists
<1> HIDE DEF g
<1>2. n \in Nat /\ DOMAIN b = 1 .. n
  OBVIOUS
<1>3. \A s \in SUBSET (1 .. n) : g[s] = WorthStep(b, g, s)
  BY <1>1, <1>2 DEF WorthBy
<1>4. Worth(b) = g[1 .. n]
  BY <1>2, WorthIsChosen DEF g
<1>5. g[1 .. 0] = 0
  <2>1. 1 .. 0 = {} /\ {} \in SUBSET (1 .. n)
    OBVIOUS
  <2> QED
    BY <1>3, <2>1 DEF WorthStep
<1>6. ASSUME NEW k \in 1 .. n PROVE g[1 .. k] = g[1 .. k - 1] + PriceOf(b[k])
  BY <1>2, <1>3, SegmentIs DEF WorthStep
<1> QED
  BY <1>4, <1>5, <1>6 DEF WorthTo, g

LEMMA WorthAgrees ==
    ASSUME NEW b \in Seq(Thing), NEW d \in Seq(Thing), NEW m \in Nat,
           m <= Len(b), m <= Len(d), \A i \in 1 .. m : b[i] = d[i]
    PROVE  WorthTo(b, m) = WorthTo(d, m) /\ WorthTo(b, m) \in Nat
<1> DEFINE Good(k) == WorthTo(b, k) = WorthTo(d, k) /\ WorthTo(b, k) \in Nat
           Bad == {k \in 0 .. m : ~Good(k)}
<1>1. Bad = {}
  <2> SUFFICES ASSUME Bad # {} PROVE FALSE
    OBVIOUS
  <2>1. Bad \in SUBSET Nat
    OBVIOUS
  <2>2. PICK k \in Bad : \A q \in Bad : k <= q
    BY <2>1, LeastNumber
  <2>3. k # 0
    BY <2>2, WorthToIs
  <2> DEFINE j == k - 1
  <2>4. /\ k \in 1 .. m /\ k \in 1 .. Len(b) /\ k \in 1 .. Len(d) /\ b[k] = d[k] /\ b[k] \in Thing
        /\ j \in 0 .. m /\ ~(k <= j)
    BY <2>2, <2>3
  <2>5. /\ WorthTo(b, k) = WorthTo(b, j) + PriceOf(b[k])
        /\ WorthTo(d, k) = WorthTo(d, j) + PriceOf(d[k])
    BY <2>4, WorthToIs
  <2> HIDE DEF j
  <2>6. Good(j)
    BY <2>2, <2>4
  <2>7. Good(k)
    BY <2>4, <2>5, <2>6, PricesAre
  <2> QED
    BY <2>2, <2>7
<1>2. m \in 0 .. m
  OBVIOUS
<1> HIDE DEF Good
<1>3. Good(m)
  BY <1>1, <1>2
<1> QED
  BY <1>3 DEF Good

LEMMA WorthOfAppend ==
    ASSUME NEW b \in Seq(Thing), NEW x \in Thing
    PROVE  Worth(b) \in Nat /\ Worth(Append(b, x)) = Worth(b) + PriceOf(x)
<1> DEFINE d == Append(b, x)
           n == Len(b)
<1>1. /\ d \in Seq(Thing) /\ Len(d) = n + 1 /\ n \in Nat /\ d[n + 1] = x
      /\ \A i \in 1 .. n : d[i] = b[i]
  OBVIOUS
<1>a. n = Len(b) /\ n <= Len(b) /\ n <= Len(d)
  BY <1>1
<1> HIDE DEF d, n
<1>b. \A i \in 1 .. n : b[i] = d[i]
  BY <1>1
<1>2. WorthTo(b, n) = WorthTo(d, n) /\ WorthTo(b, n) \in Nat
  BY <1>1, <1>a, <1>b, WorthAgrees
<1>3. Worth(b) = WorthTo(b, n)
  BY <1>a, WorthToIs
<1>4. Worth(d) = WorthTo(d, n + 1) /\ WorthTo(d, n + 1) = WorthTo(d, n) + PriceOf(x)
  <2>1. Worth(d) = WorthTo(d, Len(d))
        /\ \A k \in 1 .. Len(d) : WorthTo(d, k) = WorthTo(d, k - 1) + PriceOf(d[k])
    BY <1>1, WorthToIs
  <2>2. n + 1 \in 1 .. Len(d) /\ (n + 1) - 1 = n
    BY <1>1
  <2> QED
    BY <1>1, <2>1, <2>2
<1> QED
  BY <1>2, <1>3, <1>4 DEF d

LEMMA EmptyBagIsWorthNothing == Worth(<<>>) = 0
<1>1. <<>> \in Seq(Thing) /\ Len(<<>>) = 0
  OBVIOUS
<1> QED
  BY <1>1, WorthToIs

-----------------------------------------------------------------------------
(* What of a bag is affordable.                                            *)
Keeps(kept, x) == Append(kept, IF Worth(Append(kept, x)) > MaxCost THEN Empty ELSE x)
KeepStep(b, g, s) == IF s = {} THEN <<>> ELSE Keeps(g[s \ {Max(s)}], b[Max(s)])
KeptBy(b, g) == g = [s \in SUBSET DOMAIN b |-> KeepStep(b, g, s)]

LEMMA AffordableIsChosen ==
    ASSUME NEW b
    PROVE  Affordable(b) = (CHOOSE g : KeptBy(b, g))[DOMAIN b]
BY DEF Affordable, FoldLeft, MapThenFoldSet, KeptBy, KeepStep, Keeps

LEMMA KeepsIs ==
    ASSUME NEW b \in Seq(Thing), NEW x \in Thing
    PROVE  /\ Keeps(b, x) \in Seq(Thing) /\ Len(Keeps(b, x)) = Len(b) + 1
           /\ Worth(b) <= MaxCost => Worth(Keeps(b, x)) <= MaxCost
<1>1. Worth(b) \in Nat /\ MaxCost \in Nat /\ Empty \in Thing /\ PriceOf(Empty) = 0
  BY WorthOfAppend, BudgetAssumption DEF Thing, PriceOf
<1>2. CASE Worth(Append(b, x)) > MaxCost
  <2>1. Keeps(b, x) = Append(b, Empty)
    BY <1>2 DEF Keeps
  <2>2. Worth(Append(b, Empty)) = Worth(b) + PriceOf(Empty)
    BY <1>1, WorthOfAppend
  <2> QED
    BY <1>1, <2>1, <2>2
<1>3. CASE ~(Worth(Append(b, x)) > MaxCost)
  <2>1. Keeps(b, x) = Append(b, x)
    BY <1>3 DEF Keeps
  <2>2. Worth(Append(b, x)) \in Nat
    <3>1. Worth(Append(b, x)) = Worth(b) + PriceOf(x) /\ PriceOf(x) \in Nat
      BY WorthOfAppend, PricesAre
    <3> QED
      BY <1>1, <3>1
  <2> QED
    BY <1>1, <1>3, <2>1, <2>2
<1> QED
  BY <1>2, <1>3

LEMMA KeptExists ==
    ASSUME NEW b \in Seq(Thing)
    PROVE  \E g : KeptBy(b, g)
<1> DEFINE n == Len(b)
           X == Seq(Thing)
           F == [p \in X \X (1 .. n) |-> Keeps(p[1], b[p[2]])]
<1>1. n \in Nat /\ DOMAIN b = 1 .. n /\ (\A i \in 1 .. n : b[i] \in Thing) /\ <<>> \in X
  OBVIOUS
<1>2. F \in [X \X (1 .. n) -> X]
  BY <1>1, KeepsIs
<1>3. PICK g \in [SUBSET (1 .. n) -> X] : \A s \in SUBSET (1 .. n) :
              g[s] = IF s = {} THEN <<>> ELSE F[<<g[s \ {Max(s)}], Max(s)>>]
  <2>1. n \in Nat /\ <<>> \in X
    BY <1>1
  <2> HIDE DEF F, n, X
  <2>2. \E g \in [SUBSET (1 .. n) -> X] : FoldsAll(g, n, <<>>, F)
    BY <1>2, <2>1, FoldIsWhole
  <2> QED
    BY <2>2 DEF FoldsAll
<1>4. ASSUME NEW s \in SUBSET (1 .. n) PROVE g[s] = KeepStep(b, g, s)
  <2>1. CASE s # {}
    <3>1. Max(s) \in s
      BY <1>1, <2>1, LastIs
    <3>2. <<g[s \ {Max(s)}], Max(s)>> \in X \X (1 .. n)
      BY <3>1
    <3>3. F[<<g[s \ {Max(s)}], Max(s)>>] = Keeps(g[s \ {Max(s)}], b[Max(s)])
      BY <3>2
    <3> HIDE DEF F
    <3> QED
      BY <1>3, <2>1, <3>3 DEF KeepStep
  <2> HIDE DEF F
  <2> QED
    BY <1>3, <2>1 DEF KeepStep
<1>5. g = [s \in SUBSET DOMAIN b |-> KeepStep(b, g, s)]
  BY <1>1, <1>4
<1> QED
  BY <1>5 DEF KeptBy

(* A bag that was cut to the budget has as many pockets and is within it.    *)
LEMMA AffordableIs ==
    ASSUME NEW b \in Seq(Thing)
    PROVE  /\ Affordable(b) \in Seq(Thing) /\ Len(Affordable(b)) = Len(b)
           /\ Worth(Affordable(b)) \in 0 .. MaxCost
<1> DEFINE g == CHOOSE g0 : KeptBy(b, g0)
           n == Len(b)
<1>1. KeptBy(b, g)
  BY KeptExists
<1> HIDE DEF g
<1>2. n \in Nat /\ DOMAIN b = 1 .. n /\ \A i \in 1 .. n : b[i] \in Thing
  OBVIOUS
<1>3. \A s \in SUBSET (1 .. n) : g[s] = KeepStep(b, g, s)
  BY <1>1, <1>2 DEF KeptBy
<1>4. Affordable(b) = g[1 .. n]
  BY <1>2, AffordableIsChosen DEF g
<1> HIDE DEF n
<1> DEFINE Good(k) == /\ g[1 .. k] \in Seq(Thing) /\ Len(g[1 .. k]) = k
                      /\ Worth(g[1 .. k]) <= MaxCost
           Bad == {k \in 0 .. n : ~Good(k)}
<1>5. Bad = {}
  <2> SUFFICES ASSUME Bad # {} PROVE FALSE
    OBVIOUS
  <2>1. Bad \in SUBSET Nat
    BY <1>2
  <2>2. PICK k \in Bad : \A q \in Bad : k <= q
    BY <2>1, LeastNumber
  <2>3. CASE k = 0
    <3>1. 1 .. 0 = {} /\ {} \in SUBSET (1 .. n)
      OBVIOUS
    <3>2. g[1 .. 0] = <<>>
      BY <1>3, <3>1 DEF KeepStep
    <3>3. Good(0)
      BY <3>2, EmptyBagIsWorthNothing, BudgetAssumption
    <3> QED
      BY <2>2, <2>3, <3>3
  <2>4. CASE k # 0
    <3> DEFINE j == k - 1
    <3>1. k \in 1 .. n /\ j \in 0 .. n /\ ~(k <= j) /\ j + 1 = k
      BY <1>2, <2>2, <2>4
    <3>2. g[1 .. k] = Keeps(g[1 .. k - 1], b[k])
      BY <1>2, <1>3, <3>1, SegmentIs DEF KeepStep
    <3>3. g[1 .. k] = Keeps(g[1 .. j], b[k])
      BY <3>2
    <3> HIDE DEF j
    <3>4. Good(j)
      BY <2>2, <3>1
    <3>5. Good(k)
      BY <1>2, <3>1, <3>3, <3>4, KeepsIs
    <3> QED
      BY <2>2, <3>5
  <2> QED
    BY <2>3, <2>4
<1> HIDE DEF Good
<1>6. n \in 0 .. n
  BY <1>2
<1>7. Good(n)
  BY <1>5, <1>6
<1>8. /\ Affordable(b) \in Seq(Thing) /\ Len(Affordable(b)) = n
      /\ Worth(Affordable(b)) <= MaxCost
  BY <1>4, <1>7 DEF Good
<1>9. Worth(Affordable(b)) \in Nat
  BY <1>8, WorthOfAppend DEF Thing
<1> QED
  BY <1>8, <1>9, BudgetAssumption DEF n

-----------------------------------------------------------------------------
(* The account.                                                            *)
OutfitInv == TypeOKOutfit /\ BudgetIsExact

LEMMA SettledKeepsAccount ==
    ASSUME NEW b \in Seq(Thing), Len(b) = PocketCount, Settled(b)
    PROVE  /\ bag' \in Seq(Thing) /\ Len(bag') = PocketCount
           /\ cost' \in 0 .. MaxCost /\ Worth(bag') + cost' = MaxCost
<1>1. bag' = Affordable(b) /\ cost' = AtLeastZero(MaxCost - Worth(Affordable(b)))
  BY DEF Settled
<1>2. MaxCost \in Nat
  BY BudgetAssumption
<1>3. /\ Affordable(b) \in Seq(Thing) /\ Len(Affordable(b)) = Len(b)
      /\ Worth(Affordable(b)) \in 0 .. MaxCost
  BY AffordableIs
<1>4. cost' = MaxCost - Worth(bag')
  BY <1>1, <1>2, <1>3 DEF AtLeastZero
<1> QED
  BY <1>1, <1>2, <1>3, <1>4

LEMMA OutfitStarts == InitOutfit => OutfitInv
<1> SUFFICES ASSUME InitOutfit PROVE OutfitInv
  OBVIOUS
<1>1. /\ bag = [i \in 1 .. PocketCount |-> Empty] /\ cost = MaxCost /\ chara \in Charas
      /\ okay = FALSE /\ where = "room"
  BY DEF InitOutfit
<1>2. PocketCount \in Nat /\ MaxCost \in Nat
  BY BudgetAssumption
<1>3. bag \in Seq(Thing) /\ Len(bag) = PocketCount
  BY <1>1, <1>2 DEF Thing
<1> DEFINE Bad == {k \in 0 .. PocketCount : WorthTo(bag, k) # 0}
<1>4. Bad = {}
  <2> SUFFICES ASSUME Bad # {} PROVE FALSE
    OBVIOUS
  <2>1. Bad \in SUBSET Nat
    BY <1>2
  <2>2. PICK k \in Bad : \A q \in Bad : k <= q
    BY <2>1, LeastNumber
  <2>3. k # 0
    BY <1>3, <2>2, WorthToIs
  <2> DEFINE j == k - 1
  <2>4. k \in 1 .. Len(bag) /\ j \in 0 .. PocketCount /\ ~(k <= j) /\ bag[k] = Empty
    BY <1>1, <1>2, <1>3, <2>2, <2>3
  <2>5. WorthTo(bag, k) = WorthTo(bag, j) + PriceOf(bag[k])
    BY <1>3, <2>4, WorthToIs
  <2> HIDE DEF j
  <2>6. WorthTo(bag, j) = 0
    BY <2>2, <2>4
  <2> QED
    BY <2>2, <2>4, <2>5, <2>6 DEF PriceOf
<1>5. Worth(bag) = 0
  <2>1. PocketCount \in 0 .. PocketCount
    BY <1>2
  <2> QED
    BY <1>3, <1>4, <2>1, WorthToIs
<1>6. cost \in 0 .. MaxCost /\ Worth(bag) + cost = MaxCost
  BY <1>1, <1>2, <1>5
<1>7. TypeOKOutfit
  BY <1>1, <1>3, <1>6 DEF TypeOKOutfit, Thing
<1> QED
  BY <1>6, <1>7 DEF OutfitInv, BudgetIsExact

LEMMA OutfitStep == OutfitInv /\ [NextOutfit]_outfitVars => OutfitInv'
<1> SUFFICES ASSUME OutfitInv, [NextOutfit]_outfitVars PROVE OutfitInv'
  OBVIOUS
<1>0. /\ bag \in Seq(Thing) /\ Len(bag) = PocketCount /\ cost \in 0 .. MaxCost
      /\ chara \in Charas \cup {Random} /\ okay \in BOOLEAN
      /\ where \in {"room", "game", "confirming"}
      /\ where = "room" => Worth(bag) + cost = MaxCost
  BY DEF OutfitInv, TypeOKOutfit, BudgetIsExact, Thing
<1> DEFINE Sound == /\ bag' \in Seq(Thing) /\ Len(bag') = PocketCount /\ cost' \in 0 .. MaxCost
                    /\ chara' \in Charas \cup {Random} /\ okay' \in BOOLEAN
                    /\ where' \in {"room", "game", "confirming"}
                    /\ where' = "room" => Worth(bag') + cost' = MaxCost
<1> SUFFICES Sound
  BY DEF OutfitInv, TypeOKOutfit, BudgetIsExact, Thing
<1>1. ASSUME NEW i \in 1 .. PocketCount, NEW x \in Thing
      PROVE  [bag EXCEPT ![i] = x] \in Seq(Thing) /\ Len([bag EXCEPT ![i] = x]) = PocketCount
  BY <1>0
<1>2. Goods \subseteq Thing /\ Empty \in Thing
  BY DEF Thing
<1>3. ASSUME NEW ch \in Charas \cup {Random}, SetCharacter(ch) PROVE Sound
  BY <1>0, <1>3 DEF SetCharacter
<1>4. ASSUME NEW f \in BOOLEAN, SetOkay(f) PROVE Sound
  BY <1>0, <1>4 DEF SetOkay
<1>5. ASSUME NEW i \in 1 .. PocketCount, NEW x \in Goods, SetItem(i, x) PROVE Sound
  <2>1. Settled([bag EXCEPT ![i] = x]) /\ UNCHANGED <<chara, okay, where>>
    BY <1>5 DEF SetItem
  <2> QED
    BY <1>0, <1>1, <1>2, <2>1, SettledKeepsAccount
<1>6. ASSUME NEW i \in 1 .. PocketCount, ClearItem(i) PROVE Sound
  <2>1. Settled([bag EXCEPT ![i] = Empty]) /\ UNCHANGED <<chara, okay, where>>
    BY <1>6 DEF ClearItem
  <2> QED
    BY <1>0, <1>1, <1>2, <2>1, SettledKeepsAccount
<1>7. ASSUME NEW i \in 1 .. PocketCount, Use(i) PROVE Sound
  BY <1>0, <1>1, <1>2, <1>7 DEF Use
<1>8. ASSUME NEW x \in Goods, Find(x) PROVE Sound
  <2>1. PICK i \in 1 .. PocketCount : bag' = [bag EXCEPT ![i] = x]
    BY <1>8 DEF Find
  <2>2. where = "game" /\ UNCHANGED <<cost, chara, okay, where>>
    BY <1>8 DEF Find
  <2> QED
    BY <1>0, <1>1, <1>2, <2>1, <2>2
<1>9. CASE Confirm
  <2>1. Settled(bag) /\ where' = "room" /\ okay' = FALSE /\ chara' = chara
    BY <1>9 DEF Confirm
  <2> QED
    BY <1>0, <2>1, SettledKeepsAccount
<1>10. CASE Load
  <2>1. where' = "game" /\ chara' \in Charas \cup {Random} /\ UNCHANGED <<bag, cost, okay>>
    BY <1>0, <1>10 DEF Load
  <2> QED
    BY <1>0, <2>1
<1>11. CASE BackInRoom
  BY <1>0, <1>11 DEF BackInRoom
<1>12. CASE UNCHANGED outfitVars
  BY <1>0, <1>12 DEF outfitVars
<1> HIDE DEF Sound
<1> QED
  BY <1>3, <1>4, <1>5, <1>6, <1>7, <1>8, <1>9, <1>10, <1>11, <1>12 DEF NextOutfit

(* The rest of the budget, kept beside the pockets through every choice in   *)
(* the room, is exact again as soon as the player is back from a game        *)
(* (CPacketProcRoom::SetItem, ReEnter), whatever the game left in the bag.   *)
THEOREM BudgetsAreExact == SpecOutfit => [](TypeOKOutfit /\ BudgetIsExact)
<1>1. OutfitInv => TypeOKOutfit /\ BudgetIsExact
  BY DEF OutfitInv
<1> QED
  BY <1>1, OutfitStarts, OutfitStep, PTL DEF SpecOutfit

=============================================================================
