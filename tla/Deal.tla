-------------------------------- MODULE Deal --------------------------------
(***************************************************************************)
(* SetTeamRandom: the players who stand in the entry area are dealt to a    *)
(* number of teams.  A player is given a team drawn at random, and another   *)
(* draw is made until the team has a seat: per team as many seats as there   *)
(* are players in the even share, and one more in as many teams as there     *)
(* are players left over.                                                    *)
(*                                                                         *)
(* A draw that finds no seat changes nothing and is no step here.           *)
(***************************************************************************)
EXTENDS Integers, FiniteSets

CONSTANT MostPlayers   \* g_nMaxLoginNum

ASSUME MostAssumption == MostPlayers \in Nat \ {0}

VARIABLES
    hand,    \* players not dealt yet
    size,    \* pVecTeamPlayer[t].size()
    spare,   \* iFraction
    dealt,   \* vecPlayer.size()
    dealing  \* "no", "yes", or "dead" after a division by zero

dealVars == <<hand, size, spare, dealt, dealing>>

TheTeams == DOMAIN size

InitDeal ==
    /\ hand = 0 /\ size = [t \in {} |-> 0] /\ spare = 0 /\ dealt = 0
    /\ dealing = "no"

\* nPlayersInTeam
Share == dealt \div Cardinality(TheTeams)

\* PK_REQ_TEAM_RAND, from anybody, when n players stand in the entry area: no
\* more teams than players.
Ask(n, wanted) ==
    LET k == IF n < wanted THEN n ELSE wanted
    IN /\ dealing = "no" /\ n > 0
       /\ hand' = n /\ dealt' = n
       /\ size' = [t \in 0 .. k - 1 |-> 0]
       /\ spare' = n % k
       /\ dealing' = "yes"

\* With nobody there, the remainder is by zero teams.
AskEmpty ==
    /\ dealing = "no"
    /\ dealing' = "dead"
    /\ UNCHANGED <<hand, size, spare, dealt>>

\* Mutant: spare seats are not used up.
SpareAfterKept(t) == spare
\* --iFraction when the seat is one beyond the share.
SpareAfter(t) == IF spare > 0 /\ size[t] >= Share THEN spare - 1 ELSE spare

\* Mutant: only the even share.
HasSeatEven(t) == size[t] < Share
\* The drawn team has a seat.
HasSeat(t) == size[t] < Share + (IF spare > 0 THEN 1 ELSE 0)

Seat(t) ==
    /\ dealing = "yes" /\ hand > 0 /\ HasSeat(t)
    /\ size' = [size EXCEPT ![t] = @ + 1]
    /\ spare' = SpareAfter(t)
    /\ hand' = hand - 1
    /\ UNCHANGED <<dealt, dealing>>

\* The division is told to everybody.
Tell ==
    /\ dealing = "yes" /\ hand = 0
    /\ dealing' = "no" /\ dealt' = 0 /\ spare' = 0
    /\ size' = [t \in {} |-> 0]
    /\ UNCHANGED hand

\* The operator starts the server again.
DealRestart == dealing = "dead" /\ dealing' = "no" /\ UNCHANGED <<hand, size, spare, dealt>>

NextDeal ==
    \/ \E n \in 1 .. MostPlayers, wanted \in 1 .. MostPlayers : Ask(n, wanted)
    \/ \E t \in TheTeams : Seat(t)
    \/ AskEmpty \/ Tell \/ DealRestart

SpecDeal == InitDeal /\ [][NextDeal]_dealVars

-----------------------------------------------------------------------------
(* Properties. *)

TypeOKDeal ==
    /\ hand \in 0 .. MostPlayers /\ dealt \in 0 .. MostPlayers
    /\ spare \in 0 .. MostPlayers - 1
    /\ size \in [TheTeams -> Nat]
    /\ dealing \in {"no", "yes", "dead"}

\* As long as there are players in hand, some team has a seat: the loop that
\* draws a team can always end.
SomeSeatIsFree == hand > 0 => \E t \in TheTeams : HasSeat(t)

\* The seats that are taken: the i-th of team t.
Seats == UNION {{t} \X (1 .. size[t]) : t \in TheTeams}

\* At the end everybody has a team, no team is empty and no team has two
\* players more than another, whatever was drawn.
FairDeal ==
    dealing = "yes" /\ hand = 0 =>
        /\ Cardinality(Seats) = dealt
        /\ \A t, u \in TheTeams : size[t] > 0 /\ size[t] - size[u] <= 1

\* The dealing can always go on and ends in a fair division.
DealIsSound == SomeSeatIsFree /\ FairDeal
=============================================================================
