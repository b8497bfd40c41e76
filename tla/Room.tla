-------------------------------- MODULE Room --------------------------------
(***************************************************************************)
(* The room as CPacketProcRoom keeps it: where everybody stands, who is     *)
(* ready and for which team, how many teams there are and how many turns    *)
(* the game may last; and the step from the room into the game, which the   *)
(* master's readiness takes.                                                *)
(*                                                                         *)
(* A handler runs under the Session lock, so each is one action; moving is  *)
(* the handler of PK_CMD_ROOM_MV together with the frames of CSyncRoom that  *)
(* carry the character along.  Who is master after a failed link is the     *)
(* subject of the module Lobby: here no link of the master fails, and nobody *)
(* logs in during a game.                                                  *)
(***************************************************************************)
EXTENDS Integers, FiniteSets

CONSTANTS
    Guests,    \* slots of the session table, 0 .. n
    Columns,   \* places side by side in the entry area (ROOM_ENTRY_WIDTH)
    MaxUsers   \* MAXUSERNUM

ASSUME GuestsAssumption == IsFiniteSet(Guests) /\ Guests = 0 .. Cardinality(Guests) - 1
ASSUME ColumnsAssumption == Columns \in Nat /\ Columns >= MaxUsers - 1
ASSUME UsersAssumption == MaxUsers \in Nat /\ MaxUsers >= 2

Gallery == -1   \* a place outside the entry area, and GALLERY_TEAM_NO
NoOne   == -1   \* m_pMasterSession = NULL
Entry   == 0 .. Columns - 1

Least(S)     == CHOOSE x \in S : \A y \in S : x <= y
AtMost(a, b) == Least({a, b})
AtLeast(a, b) == -Least({-a, -b})

VARIABLES
    conn,    \* connect_state: "EMPTY", "AUTHED" or "DESTROY"
    place,   \* lx: a column of the entry area or the gallery
    ready,   \* game_ready
    team,    \* team_no
    teams,   \* m_nTeamCount
    limit,   \* m_nTurnLimit, 0 for none
    master,  \* m_pMasterSession
    stage    \* "room", "game", or "dead" once the server has divided by zero

sessRoom == <<conn, place, ready, team>>
roomVars == <<sessRoom, teams, limit, master, stage>>

Users    == {g \in Guests : conn[g] = "AUTHED"}    \* CalcAuthedUserCount
Flagged  == {g \in Guests : conn[g] # "EMPTY"}     \* the slots in use
Entrants == {g \in Users : place[g] \in Entry}

InitRoom ==
    /\ conn = [g \in Guests |-> "EMPTY"]
    /\ place = [g \in Guests |-> Gallery]
    /\ ready = [g \in Guests |-> FALSE]
    /\ team = [g \in Guests |-> 0]
    /\ teams = 1
    /\ limit = 0
    /\ master = NoOne
    /\ stage = "room"

\* The team that belongs to a place when the entry area is cut into n strips.
TeamAt(p, n) ==
    IF p = Gallery THEN Gallery ELSE AtMost(n - 1, p \div (Columns \div n))

\* Mutant: as many turns as users.
LimitForAll(asked, n) == IF asked = 0 THEN 0 ELSE AtLeast(asked, n)
\* SetTurnLimit, with n users: a game lasts long enough for all to act.
LimitFor(asked, n) == IF asked = 0 THEN 0 ELSE AtLeast(asked, n + 1)

\* Mutant: the readiness stays.
UnreadyNobody(S) == ready
\* TellTeamCount to all: no user but those in S stays ready.
UnreadyExcept(S) == [g \in Guests |-> ready[g] /\ (g \in S \/ g \notin Users)]

-----------------------------------------------------------------------------
(* Coming, moving and leaving. *)

\* CPacketProcAuth::InitSession and AddNewUser, in a slot that is free.
Login(g) ==
    /\ stage = "room" /\ conn[g] = "EMPTY"
    /\ conn' = [conn EXCEPT ![g] = "AUTHED"]
    /\ place' = [place EXCEPT ![g] = Columns \div 2]
    /\ ready' = [ready EXCEPT ![g] = FALSE]
    /\ team' = [team EXCEPT ![g] = 0]
    /\ master' = IF master = NoOne THEN g ELSE master
    /\ limit' = LimitFor(limit, Cardinality(Users) + 1)
    /\ UNCHANGED <<teams, stage>>

\* SetMove and the frames of CSyncRoom after it.
Walk(g, p) ==
    /\ stage = "room" /\ g \in Users
    /\ ~ready[g] /\ ~ready[master]
    /\ place' = [place EXCEPT ![g] = p]
    /\ UNCHANGED <<conn, ready, team, teams, limit, master, stage>>

\* The sender thread marks a session whose socket refuses a packet.
LinkBreaks(g) ==
    /\ stage # "dead" /\ g \in Users \ {master}
    /\ conn' = [conn EXCEPT ![g] = "DESTROY"]
    /\ UNCHANGED <<place, ready, team, teams, limit, master, stage>>

\* ClearSession.  What a free slot still holds is read by nobody and wiped
\* when it is used again; here it is wiped at once.
Freed(g) ==
    /\ conn' = [conn EXCEPT ![g] = "EMPTY"]
    /\ place' = [place EXCEPT ![g] = Gallery]
    /\ team' = [team EXCEPT ![g] = 0]

\* The receiver clears a marked session; the handler of the room returns early.
Cleared(g) ==
    /\ stage # "dead" /\ conn[g] = "DESTROY"
    /\ Freed(g)
    /\ ready' = [ready EXCEPT ![g] = FALSE]
    /\ UNCHANGED <<teams, limit, master, stage>>

\* The most teams the room keeps when n users are left.
TeamCap(n) == AtMost(MaxUsers - 1, AtLeast(1, n - 2))

\* Mutant: nobody follows.
SuccessorNone(g) == IF master # g THEN master ELSE NoOne
\* Who is master when g goes: the first user in the table.
Successor(g) ==
    IF master # g THEN master
    ELSE IF Users = {g} THEN NoOne ELSE Least(Users \ {g})

\* CPacketProcRoom::DisconnectSession, which counts the leaver among the
\* users, then ClearSession.  With nobody left the receiver sets the room up
\* anew.
LeaveRoom(g) ==
    /\ stage = "room" /\ g \in Users
    /\ LET heir  == master = g /\ Users # {g}
           count == IF heir THEN 1 ELSE teams
           kept  == AtMost(count, TeamCap(Cardinality(Users)))
       IN /\ teams' = IF Users = {g} THEN 1 ELSE kept
          /\ ready' = IF heir \/ kept < count THEN UnreadyExcept({})
                       ELSE [ready EXCEPT ![g] = FALSE]
    /\ Freed(g)
    /\ master' = Successor(g)
    /\ limit' = IF Users = {g} THEN 0 ELSE limit
    /\ UNCHANGED stage

-----------------------------------------------------------------------------
(* The settings of the game. *)

\* Mutant: no upper limit.
CountForAny(asked) == AtLeast(asked, 1)
\* PK_CMD_ROOM_TEAM_COUNT: at most one team less than there are users.
CountFor(asked) ==
    LET most == AtMost(MaxUsers - 1, Cardinality(Users) - 1)
    IN IF most < asked THEN most ELSE AtLeast(asked, 1)

SetTeamCount(g, asked) ==
    /\ stage = "room" /\ g = master
    /\ teams' = CountFor(asked)
    /\ ready' = UnreadyExcept({g})
    /\ UNCHANGED <<conn, place, team, limit, master, stage>>

\* PK_CMD_ROOM_RULE_TURN_LIMIT: from anybody.
SetTurnLimit(asked) ==
    /\ stage = "room" /\ Users # {}
    /\ limit # asked
    /\ limit' = LimitFor(asked, Cardinality(Users))
    /\ UNCHANGED <<sessRoom, teams, master, stage>>

-----------------------------------------------------------------------------
(* Readiness. *)

\* The team a user who is not the master gets with his readiness.
TeamWhenReady(g) ==
    IF teams > 1 THEN TeamAt(place[g], teams)
    ELSE IF place[g] = Gallery THEN Gallery ELSE team[g]

\* SetGameReady for a user who is not the master.
SetReady(g, flag) ==
    /\ stage = "room" /\ g \in Users \ {master} /\ ~ready[master]
    /\ ready' = [ready EXCEPT ![g] = flag]
    /\ team' = [team EXCEPT ![g] = IF flag THEN TeamWhenReady(g) ELSE 0]
    /\ UNCHANGED <<conn, place, teams, limit, master, stage>>

\* SetTeamNo: everybody gets the team of his place.
Seated == [g \in Guests |-> IF g \in Users THEN TeamAt(place[g], teams) ELSE team[g]]

\* Mutant: one team may be empty.
MannedButLast(seats) == \A t \in 0 .. teams - 2 : \E g \in Entrants : seats[g] = t
\* Its verdict on them: no team may be empty.
AllTeamsManned(seats) == \A t \in 0 .. teams - 1 : \E g \in Entrants : seats[g] = t

\* In a battle of individuals it first counts those who stand in the entry
\* area, whatever the state of their connections.
EnoughPlayers ==
    teams > 1 \/ Cardinality({g \in Flagged : place[g] \in Entry}) \in 2 .. MaxUsers

\* CPacketProcLoad::Init: individuals are numbered, each is a team.
Numbered(seats) ==
    [g \in Guests |->
        IF teams = 1 /\ g \in Users /\ seats[g] # Gallery
        THEN Cardinality({h \in Entrants : h < g}) ELSE seats[g]]

AllOthersReady == \A g \in Users \ {master} : ready[g]

\* SetGameReady for the master, when all others are ready: the game begins ...
Start ==
    /\ stage = "room" /\ master # NoOne
    /\ AllOthersReady /\ EnoughPlayers /\ teams > 0
    /\ AllTeamsManned(Seated)
    /\ ready' = [ready EXCEPT ![master] = TRUE]
    /\ team' = Numbered(Seated)
    /\ stage' = "game"
    /\ UNCHANGED <<conn, place, teams, limit, master>>

\* ... or the teams cannot be formed, and the master is not ready after all ...
StartRefused ==
    /\ stage = "room" /\ master # NoOne
    /\ AllOthersReady
    /\ \/ ~EnoughPlayers /\ UNCHANGED <<ready, team>>
       \/ /\ EnoughPlayers /\ teams > 0 /\ ~AllTeamsManned(Seated)
          /\ team' = Seated
          /\ UNCHANGED ready
    /\ UNCHANGED <<conn, place, teams, limit, master, stage>>

\* ... or the width of the entry area is divided by no teams at all.
StartDivides ==
    /\ stage = "room" /\ master # NoOne
    /\ AllOthersReady /\ EnoughPlayers /\ teams = 0
    /\ stage' = "dead"
    /\ UNCHANGED <<sessRoom, teams, limit, master>>

-----------------------------------------------------------------------------
(* The game, as far as the room sees it, and the way back. *)

\* CPacketProcPhase::DisconnectSession and ClearSession.
LeaveGame(g) ==
    /\ stage = "game" /\ g \in Users
    /\ IF Users = {g}
       THEN /\ teams' = 1 /\ limit' = 0 /\ stage' = "room"
       ELSE UNCHANGED <<teams, limit, stage>>
    /\ Freed(g)
    /\ ready' = [ready EXCEPT ![g] = FALSE]
    /\ master' = Successor(g)

\* CPacketProcRoom::Reset at the end of the game.
GameEnds ==
    /\ stage = "game"
    /\ stage' = "room"
    /\ ready' = [g \in Guests |-> FALSE]
    /\ teams' = IF Cardinality(Users) <= 2 \/ teams > Cardinality(Users) - 1
                THEN 1 ELSE teams
    /\ UNCHANGED <<conn, place, team, limit, master>>

\* PK_CMD_CONFIRM: ReEnter tells the settings again and asks for readiness anew.
ReEnter(g) ==
    /\ stage = "room" /\ g \in Users
    /\ ready' = [ready EXCEPT ![g] = FALSE]
    /\ limit' = LimitFor(limit, Cardinality(Users))
    /\ UNCHANGED <<conn, place, team, teams, master, stage>>

\* The server has gone down; the operator starts it again.
Restart ==
    /\ stage = "dead"
    /\ conn' = [g \in Guests |-> "EMPTY"]
    /\ place' = [g \in Guests |-> Gallery]
    /\ ready' = [g \in Guests |-> FALSE]
    /\ team' = [g \in Guests |-> 0]
    /\ teams' = 1 /\ limit' = 0 /\ master' = NoOne /\ stage' = "room"

NextRoom ==
    \/ \E g \in Guests :
        \/ Login(g) \/ LinkBreaks(g) \/ Cleared(g)
        \/ LeaveRoom(g) \/ LeaveGame(g) \/ ReEnter(g)
        \/ \E p \in Entry \cup {Gallery} : Walk(g, p)
        \/ \E n \in 0 .. MaxUsers : SetTeamCount(g, n)
        \/ \E flag \in BOOLEAN : SetReady(g, flag)
    \/ \E n \in {0, 1, MaxUsers + 1} : SetTurnLimit(n)
    \/ Start \/ StartRefused \/ StartDivides \/ GameEnds \/ Restart

SpecRoom == InitRoom /\ [][NextRoom]_roomVars

-----------------------------------------------------------------------------
(* Properties. *)

TypeOKRoom ==
    /\ conn \in [Guests -> {"EMPTY", "AUTHED", "DESTROY"}]
    /\ place \in [Guests -> Entry \cup {Gallery}]
    /\ ready \in [Guests -> BOOLEAN]
    /\ team \in [Guests -> Int]
    /\ teams \in 0 .. MaxUsers - 1
    /\ limit \in Nat
    /\ master \in Guests \cup {NoOne}
    /\ stage \in {"room", "game", "dead"}

\* A ready user of a team battle has the team of the place he stands on, for
\* the number of teams of now: nobody moves once ready, and whoever changes
\* the number (the master, a leaver's cap, a new master) voids readiness.
ReadyTeamIsCurrent ==
    \A g \in Users : stage = "room" /\ teams > 1 /\ ready[g]
                        => team[g] = TeamAt(place[g], teams)

\* The turn limit exceeds the number of users, also after a login and after a
\* game, so that the game cannot end before everybody had a turn.
LimitCovers == limit = 0 \/ limit > Cardinality(Users)

\* The room is never frozen: as long as it is the phase, its master is a user
\* who is not ready (a ready one makes all moves and choices be refused).
NotFrozen ==
    stage = "room" /\ Users # {} => master \in Users /\ ~ready[master]

\* The settings, the ready flags and the master fit together after every packet,
\* departure and game.
RoomIsSound == ReadyTeamIsCurrent /\ LimitCovers /\ NotFrozen

\* A game begins with an entrant in every team and in no other team, and the
\* others got in a team battle the team they were told when they got ready
\* (CheckTeam's message says what it is when not).
TeamsMatch ==
    [][(stage = "room" /\ stage' = "game") =>
        /\ \A g \in Entrants : team'[g] \in Nat
        /\ teams > 1 => /\ {team'[g] : g \in Entrants} = 0 .. teams - 1
                        /\ \A g \in Users \ {master} : team'[g] = team[g]
        /\ teams = 1 => \A g, h \in Entrants : team'[g] = team'[h] => g = h
      ]_roomVars

\* The number of teams is a divisor (of the entry area's width), so never 0.
SomeTeam == stage # "dead"
=============================================================================
