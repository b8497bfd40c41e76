------------------------------- MODULE Slots --------------------------------
(***************************************************************************)
(* The two modules on the slots of the session table that change hands while *)
(* somebody looks at them: the gate of the phase LOAD, and the closing of a  *)
(* connection in the room.                                                 *)
(*                                                                         *)
(* They share no state.  One side moves and the other stays as it began, so  *)
(* that what is explored is their sum.                                     *)
(***************************************************************************)
EXTENDS LoadGate, Closing

VARIABLE side

slotsVars == <<vars, closingVars, side>>

InitSlots ==
    /\ side \in {"gate", "closing"}
    /\ Init /\ InitClosing
    /\ side # "gate" => \A s \in Slots : conn[s] = "AUTHED" /\ entity[s]

NextSlots ==
    /\ UNCHANGED side
    /\ \/ side = "gate" /\ Next /\ UNCHANGED closingVars
       \/ side = "closing" /\ NextClosing /\ UNCHANGED vars

\* The fairness of LoadGate, while its side moves.
GateFrame == side = "gate" /\ Frame /\ UNCHANGED <<closingVars, side>>

SpecSlots == InitSlots /\ [][NextSlots]_slotsVars /\ WF_slotsVars(GateFrame)

-----------------------------------------------------------------------------
(* Properties, beside those of the two modules. *)

\* Every variable of the two has its type.
TypeOKSlots == TypeOK /\ TypeOKClosing

\* The gate of LOAD always opens: no client, silent, gone or late, can hold it.
GateOpens == side = "gate" => <>next
=============================================================================
