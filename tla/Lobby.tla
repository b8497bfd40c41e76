------------------------------- MODULE Lobby -------------------------------
(***************************************************************************)
(* The session table (CNetworkSession), the login of a client              *)
(* (CPacketProcAuth), the room's master and ready flags (CPacketProcRoom)  *)
(* and the change of game phase ROOM -> LOAD -> MAIN -> ROOM, which the     *)
(* receiver thread (PacketReceiver.cpp), the synchronizer thread           *)
(* (Synchronizer.cpp, CSyncMain::GameEnd) and the operator's dialog        *)
(* (srv.cpp) carry out between them.                                       *)
(*                                                                         *)
(* A packet handler runs under the Session lock and is one action.  The    *)
(* synchronizer's change from LOAD to MAIN takes no lock and is one action *)
(* per assignment.  A disconnection is one action here; its unlocked test  *)
(* of the session flag is the subject of Closing.                         *)
(***************************************************************************)
EXTENDS Integers, FiniteSets

CONSTANTS
    MaxLogin,    \* g_nMaxLoginNum: the slots of the session table
    Names,       \* the user names clients log in with
    None,        \* no name, no session (NULL), no request of the dialog
    SendFails,   \* TRUE: the sender thread may meet a dead socket
    UiDelay      \* TRUE: the dialog's choice and its SetMaster are two steps

ASSUME MaxLoginAssumption == MaxLogin \in Nat \ {0}
ASSUME NoneAssumption == None \notin Names /\ None \notin Nat
ASSUME SwitchAssumption == SendFails \in BOOLEAN /\ UiDelay \in BOOLEAN

Slots  == 0 .. MaxLogin - 1
Phases == {"ROOM", "LOAD", "MAIN"}     \* phases, and the phase processors

VARIABLES
    (* the session table, one function per field *)
    flag,         \* t_sessionInfo.flag: the slot is in use
    conn,         \* connect_state
    obj,          \* obj_state: "ROOM" stands for every OBJ_STATE_ROOM_* state,
                  \* "GAME" for the states from LOADING to DEAD
    master,       \* the session's master flag
    ready,        \* game_ready
    name,         \* the recorded name, None when name[0] = 0
    userCount,    \* m_dwUserCount
    sessionCount, \* g_nSessionCount, the receiver's own count
    (* the phase machinery *)
    srv,          \* [game |-> g_eGamePhase, proc |-> g_pPPPhase,
                  \*  phase |-> each processor's m_eGamePhase,
                  \*  ptr |-> each processor's m_pMasterSession]
    syncPc,       \* where the synchronizer thread is
    ui,           \* the dialog's pending SetMaster, or None
    restart,      \* g_bRestartFlg: the receiver waits for the restart
    crashed,      \* the process died on a NULL m_pMasterSession
    (* the clients, outside the repository *)
    scene         \* what the client of a slot shows its player

sessVars == <<flag, conn, obj, master, ready, name, userCount, sessionCount>>
vars == <<sessVars, srv, syncPc, ui, restart, crashed, scene>>

-----------------------------------------------------------------------------
(* Session table helpers. *)

Flagged == {s \in Slots : flag[s]}
Authed  == {s \in Slots : flag[s] /\ conn[s] = "AUTHED"}

\* What a GetSessionFirst/GetSessionNext loop that breaks on a match returns.
First(S) == CHOOSE s \in S : \A t \in S : s <= t

\* Mutant: only users who are already in keep their names.
IsUniqueUserNameAuthed(n) == \A s \in Authed : name[s] # n

\* CNetworkSession::IsUniqueUserName
IsUniqueUserName(n) == \A s \in Flagged : name[s] # n

\* CNetworkSession::CalcAuthedUserCount, which does not look at the flag.
NobodyAuthed == \A s \in Slots : conn[s] # "AUTHED"

-----------------------------------------------------------------------------
(* The phase processors: values of srv before and after a call. *)

\* CPacketProcRoom::Init and CPacketProcPhase::Init: Init(pNWSess) clears the
\* room's master first, so a room initialised from itself has none.
RoomInit(v, prev) ==
    [v EXCEPT !.phase["ROOM"] = "ROOM",
              !.ptr["ROOM"] = IF prev = "ROOM" THEN None ELSE v.ptr[prev]]

LoadInit(v, prev) ==
    [v EXCEPT !.phase["LOAD"] = "LOAD", !.ptr["LOAD"] = v.ptr[prev]]

\* Mutant: the processor keeps the phase it left at the end of a game.
MainInitKeepsPhase(v, prev) == [v EXCEPT !.ptr["MAIN"] = v.ptr[prev]]

MainInit(v, prev) ==
    [v EXCEPT !.phase["MAIN"] = "MAIN", !.ptr["MAIN"] = v.ptr[prev]]

InitPhase(v, g) ==
    CASE g = "ROOM" -> RoomInit(v, v.proc)
      [] g = "LOAD" -> LoadInit(v, v.proc)
      [] g = "MAIN" -> MainInit(v, v.proc)

\* The switch that ends PacketProc: the serving processor has left g_eGamePhase.
PhaseChanged(v) == v.phase[v.proc] # v.game
\* Mutant: the new phase is served by the old processor.
SwitchPhaseKeepsProc(v) ==
    LET g == v.phase[v.proc] IN
    IF PhaseChanged(v) THEN [InitPhase(v, g) EXCEPT !.game = g] ELSE v
SwitchPhase(v) ==
    LET g == v.phase[v.proc] IN
    IF PhaseChanged(v)
      THEN [InitPhase(v, g) EXCEPT !.game = g, !.proc = g]
      ELSE v

\* The receiver's reset of the room when nobody is authenticated.
EmptyReset(v) ==
    IF NobodyAuthed THEN [RoomInit(v, v.proc) EXCEPT !.proc = "ROOM"] ELSE v

\* CPacketProcRoom::AddNewUser: a room without a master takes the newcomer.
AddNewUser(v, s) == IF v.ptr["ROOM"] = None THEN [v EXCEPT !.ptr["ROOM"] = s] ELSE v

-----------------------------------------------------------------------------
InitSrv == [game |-> "ROOM", proc |-> "ROOM",
            phase |-> [p \in Phases |-> p],
            ptr |-> [p \in Phases |-> None]]

Init ==
    /\ flag = [s \in Slots |-> FALSE]
    /\ conn = [s \in Slots |-> "EMPTY"]
    /\ obj = [s \in Slots |-> "EMPTY"]
    /\ master = [s \in Slots |-> FALSE]
    /\ ready = [s \in Slots |-> FALSE]
    /\ name = [s \in Slots |-> None]
    /\ userCount = 0
    /\ sessionCount = 0
    /\ srv = InitSrv
    /\ syncPc = "idle"
    /\ ui = None
    /\ restart = FALSE
    /\ crashed = FALSE
    /\ scene = [s \in Slots |-> "login"]

-----------------------------------------------------------------------------
(* The receiver thread. *)

\* NewUserSession and CreateSession: the first free slot, zeroed.
Connect ==
    /\ ~restart
    /\ Cardinality({s \in Slots : conn[s] = "AUTHED"}) < MaxLogin
    /\ Flagged # Slots
    /\ LET s == First(Slots \ Flagged) IN
       /\ flag' = [flag EXCEPT ![s] = TRUE]
       /\ conn' = [conn EXCEPT ![s] = "EMPTY"]
       /\ obj' = [obj EXCEPT ![s] = "EMPTY"]
       /\ master' = [master EXCEPT ![s] = FALSE]
       /\ ready' = [ready EXCEPT ![s] = FALSE]
       /\ name' = [name EXCEPT ![s] = None]
       /\ scene' = [scene EXCEPT ![s] = "login"]
    /\ userCount' = userCount + 1
    /\ sessionCount' = sessionCount + 1
    /\ UNCHANGED <<srv, syncPc, ui, restart, crashed>>

\* PK_USER_AUTH from a client at its login screen: its name n is accepted, or
\* the packet is refused (None), whether for its server password, its name or
\* the phase.  The phase processors refuse the packet of a session that is not
\* AUTHED.
Password(s, n) ==
    /\ flag[s] /\ conn[s] = "EMPTY" /\ scene[s] = "login"
    /\ n # None => IsUniqueUserName(n) /\ srv.game = "ROOM" /\ srv.phase["ROOM"] = "ROOM"
    /\ name' = IF n # None THEN [name EXCEPT ![s] = n] ELSE name
    /\ ready' = [ready EXCEPT ![s] = n # None]
    /\ srv' = EmptyReset(SwitchPhase(srv))
    /\ UNCHANGED <<flag, conn, obj, master, userCount, sessionCount,
                   syncPc, ui, restart, crashed, scene>>

\* PK_RET_HASH with a wrong hash, from a client whose name was accepted.
HashMismatch ==
    /\ \E s \in Flagged : conn[s] = "EMPTY" /\ name[s] # None
    /\ srv' = EmptyReset(SwitchPhase(srv))
    /\ UNCHANGED <<sessVars, syncPc, ui, restart, crashed, scene>>

\* PK_RET_HASH with the right hashes: CPacketProcAuth::InitSession, then
\* CPacketProcRoom::AddNewUser when the room serves packets, and once more
\* when this packet is the one that switches the phase back to ROOM.
HashMatch(s) ==
    /\ flag[s] /\ conn[s] = "EMPTY" /\ name[s] # None
    /\ LET inRoom   == srv.proc = "ROOM"
           added    == IF inRoom THEN AddNewUser(srv, s) ELSE srv
           switched == SwitchPhase(added)
           back     == PhaseChanged(added) /\ switched.game = "ROOM"
           noMaster == \/ inRoom /\ srv.ptr["ROOM"] = None
                       \/ back /\ switched.ptr["ROOM"] = None IN
       /\ srv' = IF back THEN AddNewUser(switched, s) ELSE switched
       /\ master' = [master EXCEPT ![s] = (Authed \ {s} = {}) \/ noMaster]
    /\ conn' = [conn EXCEPT ![s] = "AUTHED"]
    /\ obj' = [obj EXCEPT ![s] = "ROOM"]
    /\ ready' = [ready EXCEPT ![s] = FALSE]
    /\ scene' = [scene EXCEPT ![s] = "room"]
    /\ UNCHANGED <<flag, name, userCount, sessionCount, syncPc, ui, restart, crashed>>

\* A turn of the receive loop on a session that sent nothing.
Poll ==
    /\ \E s \in Flagged : conn[s] # "DESTROY"
    /\ srv' = EmptyReset(srv)
    /\ UNCHANGED <<sessVars, syncPc, ui, restart, crashed, scene>>

\* Any packet of an authenticated session that its processor ignores or
\* refuses, or whose effect is outside this module: PacketProc still ends
\* with the phase switch.
OtherPacket ==
    /\ Authed # {}
    /\ srv' = SwitchPhase(srv)
    /\ UNCHANGED <<sessVars, syncPc, ui, restart, crashed, scene>>

\* A room packet of a client that shows the room, with the room serving.
RoomPacket(s) == s \in Authed /\ scene[s] = "room" /\ srv.proc = "ROOM"

\* PK_CMD_ROOM_READY before the check of the teams: does the room accept it?
RoomMaster == srv.ptr["ROOM"]
\* Mutant: the master waits for those who are in the room only.
ReadyAcceptedInRoom(s) ==
    IF s = RoomMaster
      THEN \A t \in Authed \ {s} : obj[t] = "ROOM" => ready[t]
      ELSE RoomMaster # None => ~ready[RoomMaster]
ReadyAccepted(s) ==
    IF s = RoomMaster
      THEN \A t \in Authed \ {s} : ready[t]
      ELSE RoomMaster # None => ~ready[RoomMaster]

\* ... accepted, and the game does not start: a player's flag, the master
\* taking its own back, or a division of teams that fails (SetTeamNo).
SetGameReady(s, b) ==
    /\ RoomPacket(s) /\ RoomMaster # None /\ ReadyAccepted(s)
    /\ LET teamsFail == s = RoomMaster /\ b IN
       /\ ready' = [ready EXCEPT ![s] = b /\ ~teamsFail]
       /\ obj' = IF b /\ ~teamsFail THEN [obj EXCEPT ![s] = "ROOM"] ELSE obj
    /\ srv' = SwitchPhase(srv)
    /\ UNCHANGED <<flag, conn, master, name, userCount, sessionCount,
                   syncPc, ui, restart, crashed, scene>>

\* ... accepted from the master, with teams (SetTeamNo wants a second entry,
\* and counts a session in DESTROY too): the room goes to LOAD and
\* CPacketProcLoad::Init sends every authenticated session into the game.
StartLoad(s) ==
    /\ RoomPacket(s) /\ s = RoomMaster /\ ReadyAccepted(s)
    /\ \E t \in Flagged \ {s} : conn[t] # "EMPTY"
    /\ ready' = [ready EXCEPT ![s] = TRUE]
    /\ srv' = SwitchPhase([srv EXCEPT !.phase["ROOM"] = "LOAD"])
    /\ obj' = [t \in Slots |-> IF t \in Authed THEN "GAME" ELSE obj[t]]
    /\ scene' = [t \in Slots |-> IF t \in Authed THEN "game" ELSE scene[t]]
    /\ UNCHANGED <<flag, conn, master, name, userCount, sessionCount,
                   syncPc, ui, restart, crashed>>

\* ... accepted in a room without a master: m_pMasterSession->game_ready.
ReadyWithoutMaster(s) ==
    /\ RoomPacket(s) /\ RoomMaster = None
    /\ crashed' = TRUE
    /\ UNCHANGED <<sessVars, srv, syncPc, ui, restart, scene>>

\* PK_CMD_ROOM_MV: refused while the sender or the master is ready.
SetMove(s) ==
    /\ RoomPacket(s)
    /\ ~ready[s] /\ (RoomMaster # None => ~ready[RoomMaster])
    /\ obj' = [obj EXCEPT ![s] = "ROOM"]
    /\ srv' = SwitchPhase(srv)
    /\ UNCHANGED <<flag, conn, master, ready, name, userCount, sessionCount,
                   syncPc, ui, restart, crashed, scene>>

\* CPacketProcRoom::TellTeamCount to all: everyone in the room but skip is
\* no longer ready.
ClearReady(r, skip) ==
    [t \in Slots |-> r[t] /\ (conn[t] = "AUTHED" /\ obj[t] = "ROOM" => t = skip)]

\* PK_CMD_ROOM_TEAM_COUNT from a session with the master flag.
SetTeamCount(s) ==
    /\ RoomPacket(s) /\ master[s]
    /\ ready' = ClearReady(ready, s)
    /\ srv' = SwitchPhase(srv)
    /\ UNCHANGED <<flag, conn, obj, master, name, userCount, sessionCount,
                   syncPc, ui, restart, crashed, scene>>

\* CPacketProcRoom::ReEnter: a room without a master takes the first flagged
\* one and clears the other flags; a room with one restores its flag.
ReEnterMaster(v) ==
    LET claim == {t \in Authed : master[t]} IN
    IF v.ptr["ROOM"] = None /\ claim # {}
      THEN [v EXCEPT !.ptr["ROOM"] = First(claim)]
      ELSE v
ReEnterFlags ==
    LET claim == {t \in Authed : master[t]}
        m     == RoomMaster IN
    IF m = None
      THEN [t \in Slots |-> IF t \in claim THEN t = First(claim) ELSE master[t]]
      ELSE [master EXCEPT ![m] = TRUE]

\* PK_CMD_CONFIRM from a client that shows the result: PacketProcConfirm,
\* then ReEnter in the room (which also withdraws the sender's ready flag).
Confirm(s) ==
    /\ s \in Authed /\ scene[s] = "result" /\ srv.proc = "ROOM"
    /\ obj' = [obj EXCEPT ![s] = "ROOM"]
    /\ ready' = [ready EXCEPT ![s] = FALSE]
    /\ master' = ReEnterFlags
    /\ srv' = SwitchPhase(ReEnterMaster(srv))
    /\ scene' = [scene EXCEPT ![s] = "room"]
    /\ UNCHANGED <<flag, conn, name, userCount, sessionCount,
                   syncPc, ui, restart, crashed>>

-----------------------------------------------------------------------------
(* Disconnection, by the receiver or by the dialog's kick. *)

\* The session the master's flag goes to when s leaves.
Heirs(s) == Authed \ {s}

\* CPacketProcRoom::DisconnectSession: the heir becomes the room's master, is
\* not ready, and the count of teams is told again; the flags of the others
\* go too when the count of teams has to be lowered (clamp).
RoomLeaveReady(s, clamp) ==
    LET heirOnly == IF master[s] /\ Heirs(s) # {}
                      THEN [ready EXCEPT ![s] = FALSE, ![First(Heirs(s))] = FALSE]
                      ELSE [ready EXCEPT ![s] = FALSE]
        told == \E t \in Heirs(s) : obj[t] = "ROOM" IN
    IF clamp \/ (master[s] /\ told) THEN ClearReady(heirOnly, s) ELSE heirOnly

\* Mutant: the flag leaves with its holder.
LeaveFlagsDropped(s) == [master EXCEPT ![s] = FALSE]

\* The master flags after a hand-over, the same in every phase.
LeaveFlags(s) ==
    [t \in Slots |-> CASE ~master[s] -> master[t]
                       [] t = s -> FALSE
                       [] OTHER -> \/ master[t]
                                   \/ t \in Heirs(s) /\ t = First(Heirs(s))]

\* Mutant: the next slot inherits, whoever is there.
LeavePtrNext(s) == IF Heirs(s) = {} THEN None ELSE s + 1

\* m_pMasterSession after a hand-over: the room's is the heir; in a game
\* (CPacketProcPhase) it is the heir only when the heir is in a room state.
LeavePtr(s) ==
    IF Heirs(s) = {} THEN None
    ELSE LET h == First(Heirs(s)) IN
         IF srv.proc = "ROOM" \/ obj[h] = "ROOM" THEN h ELSE None

\* Mutants: the session is not counted down, or its name stays.
ClearSessionKeepsCount(s) ==
    /\ flag' = [flag EXCEPT ![s] = FALSE]
    /\ conn' = [conn EXCEPT ![s] = "EMPTY"]
    /\ obj' = [obj EXCEPT ![s] = "EMPTY"]
    /\ name' = [name EXCEPT ![s] = None]
    /\ UNCHANGED userCount
ClearSessionKeepsName(s) ==
    /\ flag' = [flag EXCEPT ![s] = FALSE]
    /\ conn' = [conn EXCEPT ![s] = "EMPTY"]
    /\ obj' = [obj EXCEPT ![s] = "EMPTY"]
    /\ UNCHANGED name
    /\ userCount' = userCount - 1

\* CNetworkSession::ClearSession
ClearSession(s) ==
    /\ flag' = [flag EXCEPT ![s] = FALSE]
    /\ conn' = [conn EXCEPT ![s] = "EMPTY"]
    /\ obj' = [obj EXCEPT ![s] = "EMPTY"]
    /\ name' = [name EXCEPT ![s] = None]
    /\ userCount' = userCount - 1

\* DisconnectSession.  The handlers do nothing for a session
\* that is not AUTHED, so the flags of one in DESTROY stay where they are.
Disconnect(s, clamp) ==
    /\ flag[s] /\ ~restart
    /\ IF conn[s] = "AUTHED"
         THEN /\ master' = LeaveFlags(s)
              /\ ready' = IF srv.proc = "ROOM" THEN RoomLeaveReady(s, clamp) ELSE ready
              /\ srv' = IF master[s]
                          THEN [srv EXCEPT !.ptr[srv.proc] = LeavePtr(s)]
                          ELSE srv
         ELSE ~clamp /\ UNCHANGED <<master, ready, srv>>
    /\ ClearSession(s)
    /\ sessionCount' = sessionCount - 1
    /\ restart' = (sessionCount = 1)
    /\ scene' = [scene EXCEPT ![s] = "login"]
    /\ UNCHANGED <<syncPc, ui, crashed>>

\* The window thread answers WM_NULL: StopServer, StartServer.
Restart ==
    /\ restart /\ ui = None
    /\ flag' = [s \in Slots |-> FALSE]
    /\ conn' = [s \in Slots |-> "EMPTY"]
    /\ obj' = [s \in Slots |-> "EMPTY"]
    /\ master' = [s \in Slots |-> FALSE]
    /\ ready' = [s \in Slots |-> FALSE]
    /\ name' = [s \in Slots |-> None]
    /\ userCount' = 0
    /\ sessionCount' = 0
    /\ srv' = InitSrv
    /\ syncPc' = "idle"
    /\ restart' = FALSE
    /\ scene' = [s \in Slots |-> "login"]
    /\ UNCHANGED <<ui, crashed>>

-----------------------------------------------------------------------------
(* The sender thread. *)

\* SetErrorSession: the session waits for the receiver to disconnect it.  The
\* packet that could not be sent points to a slot, which by now may be free
\* or somebody else's.
SendError(s) ==
    /\ SendFails
    /\ conn' = [conn EXCEPT ![s] = "DESTROY"]
    /\ UNCHANGED <<flag, obj, master, ready, name, userCount, sessionCount,
                   srv, syncPc, ui, restart, crashed, scene>>

-----------------------------------------------------------------------------
(* The synchronizer thread. *)

\* switch (g_eGamePhase): the value read may be stale when it is used.
SyncRead ==
    /\ syncPc = "idle" /\ srv.game # "ROOM"
    /\ syncPc' = IF srv.game = "LOAD" THEN "load" ELSE "main"
    /\ UNCHANGED <<sessVars, srv, ui, restart, crashed, scene>>

\* A frame that does not end the phase.
SyncFrame ==
    /\ syncPc \in {"load", "main"}
    /\ syncPc' = "idle"
    /\ UNCHANGED <<sessVars, srv, ui, restart, crashed, scene>>

\* IsNextPhase: g_pPPPhase->SetGamePhase(GAME_PHASE_MAIN), without a lock.
LoadDone ==
    /\ syncPc = "load"
    /\ srv' = [srv EXCEPT !.phase[srv.proc] = "MAIN"]
    /\ syncPc' = "init"
    /\ UNCHANGED <<sessVars, ui, restart, crashed, scene>>

\* g_pPPMain->Init(pNWSess, g_pPPLoad), without a lock.
MainInitFromLoad ==
    /\ syncPc = "init"
    /\ srv' = MainInit(srv, "LOAD")
    /\ syncPc' = "switch"
    /\ UNCHANGED <<sessVars, ui, restart, crashed, scene>>

\* g_pPPPhase = g_pPPMain; g_eGamePhase = GAME_PHASE_MAIN; CSyncMain::Init,
\* after which GameEnd may follow at once.
SwitchToMain ==
    /\ syncPc = "switch"
    /\ srv' = [srv EXCEPT !.proc = "MAIN", !.game = "MAIN"]
    /\ syncPc' = "main"
    /\ UNCHANGED <<sessVars, ui, restart, crashed, scene>>

\* CSyncMain::GameEnd and CPacketProcRoom::Reset: free slots are zeroed, the
\* others have to confirm the result.
GameEnd ==
    /\ syncPc = "main"
    /\ srv' = [RoomInit([srv EXCEPT !.phase[srv.proc] = "ROOM"], "MAIN")
                 EXCEPT !.proc = "ROOM", !.game = "ROOM"]
    /\ conn' = [s \in Slots |-> IF flag[s] THEN conn[s] ELSE "EMPTY"]
    /\ master' = [s \in Slots |-> flag[s] /\ master[s]]
    /\ name' = [s \in Slots |-> IF flag[s] THEN name[s] ELSE None]
    /\ obj' = [s \in Slots |-> IF flag[s] THEN "CONFIRMING" ELSE "EMPTY"]
    /\ ready' = [s \in Slots |-> FALSE]
    /\ scene' = [s \in Slots |-> IF s \in Authed /\ scene[s] = "game"
                                   THEN "result" ELSE scene[s]]
    /\ syncPc' = "idle"
    /\ UNCHANGED <<flag, userCount, sessionCount, ui, restart, crashed>>

-----------------------------------------------------------------------------
(* The operator's dialog. *)

\* OnUserSetMaster: the chosen user's slot, and the master as SetMaster reads
\* it before it takes the Session lock.
MayBecomeMaster(t) ==
    /\ t \in Authed
    /\ srv.ptr[srv.proc] \notin {None, t}

\* SetMaster under the lock: every processor's master changes.
GiveMaster(old, new) ==
    /\ master' = [master EXCEPT ![old] = FALSE, ![new] = TRUE]
    /\ ready' = [ready EXCEPT ![old] = FALSE, ![new] = FALSE]
    /\ srv' = [srv EXCEPT !.ptr = [p \in Phases |-> new]]
    /\ UNCHANGED <<flag, conn, obj, name, userCount, sessionCount,
                   syncPc, restart, crashed, scene>>

UiSetMaster(t) ==
    /\ ~UiDelay /\ MayBecomeMaster(t)
    /\ GiveMaster(srv.ptr[srv.proc], t)
    /\ UNCHANGED ui

UiChoose(t) ==
    /\ UiDelay /\ ui = None /\ MayBecomeMaster(t)
    /\ ui' = [old |-> srv.ptr[srv.proc], new |-> t]
    /\ UNCHANGED <<sessVars, srv, syncPc, restart, crashed, scene>>

UiApply ==
    /\ ui # None
    /\ GiveMaster(ui.old, ui.new)
    /\ ui' = None

-----------------------------------------------------------------------------
Receiver ==
    \/ Connect
    \/ HashMismatch
    \/ Poll
    \/ OtherPacket
    \/ \E s \in Slots :
         \/ \E n \in Names \cup {None} : Password(s, n)
         \/ HashMatch(s)
         \/ \E b \in BOOLEAN : SetGameReady(s, b)
         \/ StartLoad(s)
         \/ ReadyWithoutMaster(s)
         \/ SetMove(s)
         \/ SetTeamCount(s)
         \/ Confirm(s)
         \/ \E clamp \in BOOLEAN : Disconnect(s, clamp)

Sender == \E s \in Slots : SendError(s)

Synchronizer ==
    \/ SyncRead
    \/ SyncFrame
    \/ LoadDone
    \/ MainInitFromLoad
    \/ SwitchToMain
    \/ GameEnd

Dialog ==
    \/ \E t \in Slots : UiSetMaster(t)
    \/ \E t \in Slots : UiChoose(t)
    \/ UiApply
    \/ Restart

\* A dead process stays dead.
Halted == crashed /\ UNCHANGED vars

Next ==
    \/ ~crashed /\ (Receiver \/ Sender \/ Synchronizer \/ Dialog)
    \/ Halted

Spec == Init /\ [][Next]_vars

-----------------------------------------------------------------------------
(* Properties. *)

SrvType == [game : Phases, proc : Phases, phase : [Phases -> Phases],
            ptr : [Phases -> Slots \cup {None}]]

\* The type of every variable of the session table, the phases, the threads
\* and the dialog.
TypeOK ==
    /\ flag \in [Slots -> BOOLEAN]
    /\ conn \in [Slots -> {"EMPTY", "AUTHED", "DESTROY"}]
    /\ obj \in [Slots -> {"EMPTY", "ROOM", "GAME", "CONFIRMING"}]
    /\ master \in [Slots -> BOOLEAN]
    /\ ready \in [Slots -> BOOLEAN]
    /\ name \in [Slots -> Names \cup {None}]
    /\ userCount \in Int
    /\ sessionCount \in Int
    /\ srv \in SrvType
    /\ syncPc \in {"idle", "load", "main", "init", "switch"}
    /\ ui \in [old : Slots, new : Slots] \cup {None}
    /\ restart \in BOOLEAN
    /\ crashed \in BOOLEAN
    /\ scene \in [Slots -> {"login", "room", "game", "result"}]

\* CreateSession, ClearSession and the receiver count sessions one by one;
\* both counters always agree with the slots in use, so the server restarts
\* exactly when the last session has gone.
CountsAgree ==
    /\ userCount = Cardinality(Flagged)
    /\ sessionCount = Cardinality(Flagged)
    /\ restart => Flagged = {}

\* CalcAuthedUserCount counts connect_state without looking at the flag: it is
\* the number of users only because no cleared slot is ever AUTHED, and
\* IsUniqueUserName may skip cleared slots only because they hold no name.
FreeSlotIsEmpty ==
    \A s \in Slots : ~flag[s] => conn[s] # "AUTHED" /\ name[s] = None

\* The table and the counts kept beside it agree, and the next user of a slot
\* inherits nothing.
TableIsSound == CountsAgree /\ FreeSlotIsEmpty

\* A name is checked at the password step and the user appears at the hash
\* step: two users who log in at the same time still never share a name.
UniqueNames ==
    \A s, t \in Flagged : s # t /\ name[s] # None => name[s] # name[t]

\* While somebody is authenticated somebody authenticated has the master flag:
\* logins, leaves in any phase, the end of a game and the dialog hand it on.
AuthedHasMaster == Authed # {} => \E s \in Authed : master[s]

\* Whoever is authenticated is served by the processor of the phase the
\* synchronizer runs, whenever the synchronizer is not changing the phase.
PhaseAgreement ==
    syncPc \in {"idle", "load", "main"} /\ Authed # {}
      => srv.proc = srv.game /\ srv.phase[srv.proc] = srv.game

\* A packet handled by the room is never handled a second time by a freshly
\* initialised room, except the login packet of the first user.
RoomHandlesOnce ==
    Authed # {} /\ PhaseChanged(srv) => srv.phase[srv.proc] # "ROOM"

\* The four processors and the synchronizer agree on who handles a packet, and no
\* packet is handled twice, through the change of phase that takes no lock.
ProcessorsAgree == PhaseAgreement /\ RoomHandlesOnce

\* A game starts only when every authenticated user is ready and none is still
\* looking at the result of the previous game or choosing a name.
StartsWithEveryoneReady ==
    [][srv.game = "ROOM" /\ srv'.game = "LOAD"
         => \A s \in Authed : ready'[s] /\ scene[s] = "room"]_vars

-----------------------------------------------------------------------------
(* What the comments say and the code does not do (see PROJECT.json). *)

\* A newcomer becomes master only where nobody is: AddNewUser looks at the
\* room's pointer, which a hand-over during a game leaves empty.
NewcomerTakesVacantOffice ==
    [][\A s \in Slots : conn[s] # "AUTHED" /\ conn'[s] = "AUTHED" /\ master'[s]
         => \A t \in Authed : ~master[t]]_vars

\* Nobody gets in during a game: the phase is checked at the password step,
\* and the hash step that follows takes the user in.
LoginOnlyInRoom ==
    [][\A s \in Slots : conn[s] # "AUTHED" /\ conn'[s] = "AUTHED"
         => srv'.game = "ROOM"]_vars

\* The room's master is somebody who is still there: a leaving master's
\* office goes to the first session found.
RoomMasterIsPresent ==
    srv.proc = "ROOM" => srv.ptr["ROOM"] \in Authed \cup {None}

\* A ready packet is answered, with or without a master.
NeverCrashes == ~crashed
=============================================================================
