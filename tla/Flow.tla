-------------------------------- MODULE Flow --------------------------------
(***************************************************************************)
(* The parts of the server that work something off and must come to an end: *)
(* the table of flying objects, the ranking, the serving of script files,    *)
(* the way of a packet to its socket, and the cutting of packets out of what *)
(* the sockets deliver.                                                      *)
(*                                                                         *)
(* The five modules share no state.  One side moves at a time while the      *)
(* others stay as they began: what is explored is their sum, and each is     *)
(* fair while it is the one that moves.                                     *)
(***************************************************************************)
EXTENDS Bullets, Ranking, FileTransfer, SendPath, Framing

VARIABLE side

flowVars == <<bulletVars, rankVars, fileVars, sendVars, frameVars, side>>

InitFlow ==
    /\ side \in {"bullets", "ranking", "files", "send", "framing"}
    /\ InitBullets /\ InitRanking /\ InitFiles /\ InitSend /\ InitFraming
    /\ side # "ranking" => match = "single" /\ Entities = {}
    /\ side # "files" => stale = {}
    /\ side # "framing" => from = CHOOSE co \in Conns : TRUE

\* Only one side moves.
Aside ==
    /\ UNCHANGED side
    /\ side # "bullets" => UNCHANGED bulletVars
    /\ side # "ranking" => UNCHANGED rankVars
    /\ side # "files" => UNCHANGED fileVars
    /\ side # "send" => UNCHANGED sendVars
    /\ side # "framing" => UNCHANGED frameVars

NextFlow ==
    /\ Aside
    /\ \/ side = "bullets" /\ NextBullets
       \/ side = "ranking" /\ NextRanking
       \/ side = "files" /\ NextFiles
       \/ side = "send" /\ NextSend
       \/ side = "framing" /\ NextFraming

\* FairBullets, FairRanking, FairFiles and FairSend, of the side that moves.
Weak ==
    /\ Aside
    /\ \/ side = "bullets" /\ (Steps \/ ShootingEnds)
       \/ side = "ranking" /\ NextRanking
       \/ side = "files" /\ Serve
       \/ side = "send" /\ Sender

Strong ==
    /\ Aside
    /\ \/ side = "bullets" /\ \E co \in BOOLEAN : TurnEndBegins(co)
       \/ side = "send" /\ PacketEnqueue

SpecFlow == InitFlow /\ [][NextFlow]_flowVars /\ WF_flowVars(Weak) /\ SF_flowVars(Strong)

\* Every variable of the five has its type.
TypeOKFlow ==
    /\ TypeOKBullets /\ TypeOKRanking /\ TypeOKFiles /\ TypeOKSend /\ TypeOKFraming
=============================================================================
