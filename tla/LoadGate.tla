------------------------------ MODULE LoadGate ------------------------------
(***************************************************************************)
(* The phase LOAD: every client loads the stage and says so; CSyncLoad      *)
(* asks one slot of the session table after the other, kicks the silent and *)
(* lets the synchronizer go on to the phase MAIN.                           *)
(*                                                                         *)
(* How many slots are asked is the number of users counted in the first     *)
(* frame, without a lock.  The initial states are those the room leaves:    *)
(* any set of slots may be in use, because users come and go, and a free    *)
(* one still has the entity of its last user.                               *)
(***************************************************************************)
EXTENDS Integers, FiniteSets

CONSTANTS
    MaxLogin,    \* g_nMaxLoginNum
    WaitTime,    \* GAME_LOADING_WAIT_TIME, in frames
    SynTimeout,  \* SYN_TIMEOUT, in frames
    SendFails    \* TRUE: the sender thread may meet a dead socket

ASSUME SizeAssumption == MaxLogin \in Nat \ {0}
ASSUME FrameAssumption == WaitTime \in Nat \ {0} /\ SynTimeout \in Nat \ {0}
ASSUME SwitchAssumption == SendFails \in BOOLEAN

Slots == 0 .. MaxLogin - 1

VARIABLES
    conn,     \* connect_state
    entity,   \* entity: a player, not a spectator; a free slot keeps its last one's
    obj,      \* obj_state
    gate,     \* [index |-> m_nLoadCompleteCheckIndex, wait |-> m_nLoadingWaitTimeCounter,
              \*  time |-> m_nLoadingTimeCounter, users |-> m_nLoadingCheckUserCount]
    next,     \* m_bNextPhase
    asked     \* the players who were sent PK_REQ_LOAD_COMPLETE

sessVars == <<conn, entity, obj>>
vars == <<sessVars, gate, next, asked>>

Authed  == {s \in Slots : conn[s] = "AUTHED"}
Players == {s \in Authed : entity[s]}

\* CPacketProcLoad::Init and CSyncLoad::Init: the users of the room load.
Init ==
    /\ conn \in [Slots -> {"AUTHED", "EMPTY"}]
    /\ Authed # {}
    /\ entity \in [Slots -> BOOLEAN]
    /\ Cardinality(Players) >= 2
    /\ obj = [s \in Slots |-> IF s \in Authed THEN "LOADING" ELSE "EMPTY"]
    /\ gate = [index |-> 0, wait |-> 0, time |-> 0, users |-> 0]
    /\ next = FALSE
    /\ asked = {}

-----------------------------------------------------------------------------
(* The receiver thread. *)

\* PK_CMD_LOAD_COMPLETE, whenever the client has loaded.
SetLoadComplete(s) ==
    /\ s \in Authed /\ obj[s] = "LOADING" /\ ~next
    /\ obj' = [obj EXCEPT ![s] = "LOADCOMPLETE"]
    /\ UNCHANGED <<conn, entity, gate, next, asked>>

\* CPacketProcLoad::DisconnectSession and ClearSession, which leaves entity.
Leave(s) ==
    /\ conn' = [conn EXCEPT ![s] = "EMPTY"]
    /\ obj' = [obj EXCEPT ![s] = "EMPTY"]
    /\ asked' = asked \ {s}
    /\ UNCHANGED entity

Disconnect(s) ==
    /\ conn[s] # "EMPTY" /\ ~next
    /\ Leave(s)
    /\ UNCHANGED <<gate, next>>

\* Mutant: the slot is not zeroed.
CreateKeepsEntity(s) == entity
\* CreateSession: ZeroMemory of the slot's session.
CreateSession(s) == [entity EXCEPT ![s] = FALSE]

\* A login whose second step comes after the start of the game (see Lobby).
LateLogin(s) ==
    /\ conn[s] = "EMPTY" /\ ~next
    /\ \A t \in Slots : t < s => conn[t] # "EMPTY"
    /\ conn' = [conn EXCEPT ![s] = "AUTHED"]
    /\ obj' = [obj EXCEPT ![s] = "ROOM"]
    /\ entity' = CreateSession(s)
    /\ UNCHANGED <<gate, next, asked>>

\* SetErrorSession of the sender thread.
SendError(s) ==
    /\ SendFails /\ s \in Authed /\ ~next
    /\ conn' = [conn EXCEPT ![s] = "DESTROY"]
    /\ UNCHANGED <<entity, obj, gate, next, asked>>

-----------------------------------------------------------------------------
(* CSyncLoad::Frame. *)

\* The wait, which counts the users in its first frame.
Counted(g) ==
    [g EXCEPT !.users = IF g.wait = 0 THEN Cardinality(Authed) ELSE @,
              !.wait = IF g.wait < WaitTime THEN @ + 1 ELSE @]

\* Mutant: the next slot starts with this one's time.
NextIndexKeepsTime(g) == [g EXCEPT !.index = @ + 1]
\* m_nLoadingTimeCounter = 0; m_nLoadCompleteCheckIndex++
NextIndex(g) == [g EXCEPT !.index = @ + 1, !.time = 0]
\* Mutant: a client that answers nothing starts its time again.
TickRestarts(g) == [g EXCEPT !.time = 1]
\* m_nLoadingTimeCounter++
Tick(g) == [g EXCEPT !.time = @ + 1]

FrameWait ==
    /\ ~next /\ Counted(gate).wait < WaitTime
    /\ gate' = Counted(gate)
    /\ UNCHANGED <<sessVars, next, asked>>

\* The frames after the wait, and the slot they look at.
Asking == ~next /\ Counted(gate).wait = WaitTime
AtSlot == Asking /\ gate.index < Counted(gate).users

FrameNext ==
    /\ Asking /\ gate.index >= Counted(gate).users
    /\ next' = TRUE
    /\ gate' = Counted(gate)
    /\ UNCHANGED <<sessVars, asked>>

FrameSkip ==
    /\ AtSlot /\ gate.index \notin Players
    /\ gate' = NextIndex(Counted(gate))
    /\ UNCHANGED <<sessVars, next, asked>>

FrameAsk ==
    /\ AtSlot /\ gate.index \in Players /\ gate.time = 0
    /\ gate' = Tick(Counted(gate))
    /\ asked' = asked \cup {gate.index}
    /\ UNCHANGED <<sessVars, next>>

FrameLoaded ==
    /\ AtSlot /\ gate.index \in Players /\ gate.time > 0
    /\ obj[gate.index] = "LOADCOMPLETE"
    /\ gate' = NextIndex(Counted(gate))
    /\ UNCHANGED <<sessVars, next, asked>>

\* m_nLoadingTimeCounter > SYN_TIMEOUT, after the ++ of this frame.
TimesOut == Tick(gate).time > SynTimeout

FrameIdle ==
    /\ AtSlot /\ gate.index \in Players /\ gate.time > 0
    /\ obj[gate.index] # "LOADCOMPLETE" /\ ~TimesOut
    /\ gate' = Tick(Counted(gate))
    /\ UNCHANGED <<sessVars, next, asked>>

FrameKick ==
    /\ AtSlot /\ gate.index \in Players /\ gate.time > 0
    /\ obj[gate.index] # "LOADCOMPLETE" /\ TimesOut
    /\ Leave(gate.index)
    /\ gate' = NextIndex(Counted(gate))
    /\ UNCHANGED next

Frame == FrameWait \/ FrameNext \/ FrameSkip \/ FrameAsk \/ FrameLoaded
         \/ FrameIdle \/ FrameKick

Receiver ==
    \E s \in Slots : SetLoadComplete(s) \/ Disconnect(s) \/ LateLogin(s) \/ SendError(s)

\* The phase is over when the synchronizer sees m_bNextPhase.
Over == next /\ UNCHANGED vars

Next == Frame \/ Receiver \/ Over

Spec == Init /\ [][Next]_vars
\* The synchronizer thread runs its frames whatever the clients do.
LiveSpec == Spec /\ WF_vars(Frame)

-----------------------------------------------------------------------------
(* Properties. *)

\* The types of the session fields, of the gate and of its counters.
TypeOK ==
    /\ conn \in [Slots -> {"AUTHED", "DESTROY", "EMPTY"}]
    /\ entity \in [Slots -> BOOLEAN]
    /\ obj \in [Slots -> {"LOADING", "LOADCOMPLETE", "ROOM", "EMPTY"}]
    /\ gate \in [index : 0 .. MaxLogin, wait : 0 .. WaitTime,
                 time : 0 .. SynTimeout, users : 0 .. MaxLogin]
    /\ next \in BOOLEAN /\ asked \subseteq Slots

\* No player is passed over: whoever sits in a slot the gate has left behind
\* has loaded, or was never asked to play.
PassedMeansLoaded == \A s \in Players : s < gate.index => obj[s] = "LOADCOMPLETE"

\* When the game goes on, every player who is still there has loaded it: the
\* others were kicked.  (What the code's comment says; the last slots of a
\* table with gaps are never asked.)
OpenMeansLoaded == next => \A s \in Players : obj[s] = "LOADCOMPLETE"

\* A player is kicked for not having loaded only after being asked, and never
\* for the time the player before it took.
AskedBeforeKicked ==
    [][\A s \in Slots : gate'.index # gate.index /\ conn[s] # "EMPTY" /\ conn'[s] = "EMPTY"
         => s \in asked]_vars
=============================================================================
