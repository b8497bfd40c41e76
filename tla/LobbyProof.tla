----------------------------- MODULE LobbyProof -----------------------------
(***************************************************************************)
(* Proofs about Lobby for every number of slots and every set of names: the *)
(* types, the master's office, the session table with its counters, free    *)
(* slots and names, and the phases with their processors.                   *)
(***************************************************************************)
EXTENDS Lobby, TLAPS, FiniteSetTheorems

(* The loops over the session table that stop at the first match find the  *)
(* lowest matching slot: First returns a member of any non-empty set of    *)
(* slots.  The sets of elements below a member are ordered by inclusion,   *)
(* which is well-founded on finite sets; the least of them is empty.       *)
LEMMA FirstIsMember ==
    ASSUME NEW S \in SUBSET Slots, S # {}
    PROVE  First(S) \in S
<1> DEFINE Below(x) == {y \in S : y < x}
           Family   == {Below(x) : x \in S}
           R        == StrictSubsetOrdering(S)
<1>1. S \subseteq Nat /\ IsFiniteSet(S)
  <2>1. IsFiniteSet(Slots)
    BY FS_Interval, MaxLoginAssumption DEF Slots
  <2>2. IsFiniteSet(S)
    BY <2>1, FS_Subset
  <2> QED
    BY <2>2, MaxLoginAssumption DEF Slots
<1>2. IsWellFoundedOn(R, FiniteSubsetsOf(S))
  BY <1>1, FS_StrictSubsetOrderingWellFounded
<1>3. Family \subseteq FiniteSubsetsOf(S) /\ Family # {}
  <2>1. \A x \in S : Below(x) \subseteq S /\ IsFiniteSet(Below(x))
    BY <1>1, FS_Subset
  <2> QED
    BY <2>1 DEF FiniteSubsetsOf
<1>4. PICK B \in Family : \A C \in Family : <<C, B>> \notin R
  <2> HIDE DEF Family, R
  <2> QED
    BY <1>2, <1>3, WFMin
<1>5. PICK x \in S : B = Below(x)
  OBVIOUS
<1>6. \A y \in S : x <= y
  <2> SUFFICES ASSUME NEW y \in S, y < x PROVE FALSE
    BY <1>1
  <2>1. Below(y) \in Family
    OBVIOUS
  <2>2. y \in Below(x) /\ y \notin Below(y)
    BY <1>1
  <2>3. Below(y) \subseteq Below(x)
    <3>1. \A z \in S : z < y => z < x
      BY <1>1
    <3> QED
      BY <3>1
  <2>4. <<Below(y), Below(x)>> \in R
    BY <2>2, <2>3 DEF StrictSubsetOrdering
  <2> QED
    BY <1>4, <1>5, <2>1, <2>4
<1> QED
  BY <1>6 DEF First


-----------------------------------------------------------------------------
(* Types. *)

LEMMA FirstIsSlot ==
    ASSUME NEW S \in SUBSET Slots, S # {}
    PROVE  First(S) \in Slots
BY FirstIsMember

(* Initialising a phase processor keeps the type of the phase machinery.   *)
LEMMA InitPhaseType ==
    ASSUME NEW v \in SrvType, NEW g \in Phases
    PROVE  /\ RoomInit(v, v.proc) \in SrvType
           /\ RoomInit(v, "MAIN") \in SrvType
           /\ MainInit(v, "LOAD") \in SrvType
           /\ InitPhase(v, g) \in SrvType
BY DEF SrvType, Phases, RoomInit, LoadInit, MainInit, InitPhase

LEMMA SwitchType ==
    ASSUME NEW v \in SrvType
    PROVE  SwitchPhase(v) \in SrvType
<1>1. v.phase[v.proc] \in Phases
  BY DEF SrvType
<1>2. InitPhase(v, v.phase[v.proc]) \in SrvType
  BY <1>1, InitPhaseType
<1> QED
  BY <1>1, <1>2 DEF SwitchPhase, SrvType

LEMMA EmptyResetType ==
    ASSUME NEW v \in SrvType
    PROVE  EmptyReset(v) \in SrvType
<1>1. RoomInit(v, v.proc) \in SrvType
  BY InitPhaseType DEF Phases
<1> QED
  BY <1>1 DEF EmptyReset, SrvType, Phases

LEMMA AddNewUserType ==
    ASSUME NEW v \in SrvType, NEW s \in Slots
    PROVE  AddNewUser(v, s) \in SrvType
BY DEF AddNewUser, SrvType

LEMMA InitSrvType == InitSrv \in SrvType
<1>1. [p \in Phases |-> p] \in [Phases -> Phases]
  OBVIOUS
<1>2. [p \in Phases |-> None] \in [Phases -> Slots \cup {None}]
  OBVIOUS
<1> QED
  BY <1>1, <1>2 DEF InitSrv, SrvType, Phases

LEMMA InitType == Init => TypeOK
<1>1. InitSrv \in SrvType
  BY InitSrvType
<1>2. ASSUME Init
      PROVE  /\ flag \in [Slots -> BOOLEAN] /\ master \in [Slots -> BOOLEAN]
             /\ ready \in [Slots -> BOOLEAN]
             /\ restart \in BOOLEAN /\ crashed \in BOOLEAN
  BY <1>2 DEF Init
<1>3. ASSUME Init
      PROVE  /\ conn \in [Slots -> {"EMPTY", "AUTHED", "DESTROY"}]
             /\ obj \in [Slots -> {"EMPTY", "ROOM", "GAME", "CONFIRMING"}]
             /\ name \in [Slots -> Names \cup {None}]
             /\ scene \in [Slots -> {"login", "room", "game", "result"}]
  BY <1>3 DEF Init
<1>4. ASSUME Init
      PROVE  /\ userCount \in Int /\ sessionCount \in Int
             /\ syncPc \in {"idle", "load", "main", "init", "switch"}
             /\ ui \in [old : Slots, new : Slots] \cup {None}
  BY <1>4 DEF Init
<1> QED
  BY <1>1, <1>2, <1>3, <1>4 DEF Init, TypeOK

(* The packets and turns of the receiver keep every variable's type.       *)
LEMMA ReceiverType == TypeOK /\ Receiver => TypeOK'
<1> SUFFICES ASSUME TypeOK, Receiver PROVE TypeOK'
  OBVIOUS
<1> USE DEF TypeOK
<1>0. srv \in SrvType /\ srv.ptr \in [Phases -> Slots \cup {None}] /\ srv.proc \in Phases
  BY DEF SrvType
<1>1. CASE Connect
  <2>1. First(Slots \ Flagged) \in Slots
    BY <1>1, FirstIsSlot DEF Connect, Flagged
  <2> QED
    BY <1>1, <2>1 DEF Connect
<1>2. ASSUME NEW s \in Slots, NEW n \in Names \cup {None}, Password(s, n)
      PROVE  TypeOK'
  <2>1. srv' \in SrvType
    BY <1>2, SwitchType, EmptyResetType DEF Password
  <2>2. (srv.game = "ROOM" /\ srv.phase["ROOM"] = "ROOM") \in BOOLEAN
    OBVIOUS
  <2> QED
    BY <1>2, <2>1 DEF Password
<1>3. CASE HashMismatch
  <2>1. srv' \in SrvType
    BY <1>3, SwitchType, EmptyResetType DEF HashMismatch
  <2> QED
    BY <1>3, <2>1 DEF HashMismatch, sessVars
<1>4. ASSUME NEW s \in Slots, HashMatch(s) PROVE TypeOK'
  <2>1. srv' \in SrvType
    BY <1>4, SwitchType, AddNewUserType DEF HashMatch
  <2> QED
    BY <1>4, <2>1 DEF HashMatch
<1>5. CASE Poll
  <2>1. srv' \in SrvType
    BY <1>5, EmptyResetType DEF Poll
  <2> QED
    BY <1>5, <2>1 DEF Poll, sessVars
<1>6. CASE OtherPacket
  <2>1. srv' \in SrvType
    BY <1>6, SwitchType DEF OtherPacket
  <2> QED
    BY <1>6, <2>1 DEF OtherPacket, sessVars
<1>7. ASSUME NEW s \in Slots, NEW b \in BOOLEAN, SetGameReady(s, b) PROVE TypeOK'
  <2>1. srv' \in SrvType
    BY <1>7, SwitchType DEF SetGameReady
  <2> QED
    BY <1>7, <2>1 DEF SetGameReady
<1>8. ASSUME NEW s \in Slots, StartLoad(s) PROVE TypeOK'
  <2>1. [srv EXCEPT !.phase["ROOM"] = "LOAD"] \in SrvType
    BY DEF SrvType, Phases
  <2>2. srv' \in SrvType
    BY <1>8, <2>1, SwitchType DEF StartLoad
  <2> QED
    BY <1>8, <2>2 DEF StartLoad
<1>9. ASSUME NEW s \in Slots, ReadyWithoutMaster(s) PROVE TypeOK'
  BY <1>9 DEF ReadyWithoutMaster, sessVars
<1>10. ASSUME NEW s \in Slots, SetMove(s) PROVE TypeOK'
  <2>1. srv' \in SrvType
    BY <1>10, SwitchType DEF SetMove
  <2> QED
    BY <1>10, <2>1 DEF SetMove
<1>11. ASSUME NEW s \in Slots, SetTeamCount(s) PROVE TypeOK'
  <2>1. srv' \in SrvType
    BY <1>11, SwitchType DEF SetTeamCount
  <2> QED
    BY <1>11, <2>1 DEF SetTeamCount, ClearReady
<1>12. ASSUME NEW s \in Slots, Confirm(s) PROVE TypeOK'
  <2> DEFINE claim == {t \in Authed : master[t]}
  <2>1. claim # {} => First(claim) \in Slots
    BY FirstIsSlot DEF Authed
  <2>2. ReEnterMaster(srv) \in SrvType
    BY <2>1 DEF ReEnterMaster, SrvType, Phases
  <2>3. srv' \in SrvType
    BY <1>12, <2>2, SwitchType DEF Confirm
  <2>4. ReEnterFlags \in [Slots -> BOOLEAN]
    <3>1. CASE RoomMaster = None
      BY <3>1 DEF ReEnterFlags
    <3>2. CASE RoomMaster # None
      BY <3>2 DEF ReEnterFlags
    <3> QED
      BY <3>1, <3>2
  <2> QED
    BY <1>12, <2>3, <2>4 DEF Confirm
<1>13. ASSUME NEW s \in Slots, NEW clamp \in BOOLEAN, Disconnect(s, clamp) PROVE TypeOK'
  <2>1. Heirs(s) # {} => First(Heirs(s)) \in Slots
    BY FirstIsSlot DEF Heirs, Authed
  <2>2. LeaveFlags(s) \in [Slots -> BOOLEAN]
    BY DEF LeaveFlags
  <2>3. RoomLeaveReady(s, clamp) \in [Slots -> BOOLEAN]
    BY <2>1 DEF RoomLeaveReady, ClearReady
  <2>4. LeavePtr(s) \in Slots \cup {None}
    BY <2>1 DEF LeavePtr
  <2>5. [srv EXCEPT !.ptr[srv.proc] = LeavePtr(s)] \in SrvType
    BY <2>4 DEF SrvType
  <2>6. /\ master' \in [Slots -> BOOLEAN]
        /\ ready' \in [Slots -> BOOLEAN]
        /\ srv' \in SrvType
    BY <1>13, <2>2, <2>3, <2>5 DEF Disconnect, ClearSession
  <2>7. restart' \in BOOLEAN /\ userCount' \in Int /\ sessionCount' \in Int
    BY <1>13 DEF Disconnect, ClearSession
  <2>8. /\ flag' \in [Slots -> BOOLEAN]
        /\ conn' \in [Slots -> {"EMPTY", "AUTHED", "DESTROY"}]
        /\ obj' \in [Slots -> {"EMPTY", "ROOM", "GAME", "CONFIRMING"}]
        /\ name' \in [Slots -> Names \cup {None}]
    BY <1>13 DEF Disconnect, ClearSession
  <2> QED
    BY <1>13, <2>6, <2>7, <2>8 DEF Disconnect, ClearSession
<1> QED
  BY <1>1, <1>2, <1>3, <1>4, <1>5, <1>6, <1>7, <1>8, <1>9, <1>10, <1>11, <1>12,
     <1>13 DEF Receiver

(* The sender, the synchronizer and the dialog keep every variable's type. *)
LEMMA SenderType == TypeOK /\ Sender => TypeOK'
BY DEF TypeOK, Sender, SendError

LEMMA SynchronizerType == TypeOK /\ Synchronizer => TypeOK'
<1> SUFFICES ASSUME TypeOK, Synchronizer PROVE TypeOK'
  OBVIOUS
<1> USE DEF TypeOK
<1>1. CASE SyncRead
  BY <1>1 DEF SyncRead, sessVars
<1>2. CASE SyncFrame
  BY <1>2 DEF SyncFrame, sessVars
<1>3. CASE LoadDone
  <2>1. srv' \in SrvType
    BY <1>3 DEF LoadDone, SrvType, Phases
  <2> QED
    BY <1>3, <2>1 DEF LoadDone, sessVars
<1>4. CASE MainInitFromLoad
  <2>1. srv' \in SrvType
    BY <1>4, InitPhaseType DEF MainInitFromLoad, Phases
  <2> QED
    BY <1>4, <2>1 DEF MainInitFromLoad, sessVars
<1>5. CASE SwitchToMain
  <2>1. srv' \in SrvType
    BY <1>5 DEF SwitchToMain, SrvType, Phases
  <2> QED
    BY <1>5, <2>1 DEF SwitchToMain, sessVars
<1>6. CASE GameEnd
  <2>1. [srv EXCEPT !.phase[srv.proc] = "ROOM"] \in SrvType
    BY DEF SrvType, Phases
  <2>2. RoomInit([srv EXCEPT !.phase[srv.proc] = "ROOM"], "MAIN") \in SrvType
    BY <2>1, InitPhaseType DEF Phases
  <2>3. srv' \in SrvType
    BY <1>6, <2>2 DEF GameEnd, SrvType, Phases
  <2>4. master' \in [Slots -> BOOLEAN] /\ ready' \in [Slots -> BOOLEAN]
    BY <1>6 DEF GameEnd
  <2>5. /\ conn' \in [Slots -> {"EMPTY", "AUTHED", "DESTROY"}]
        /\ obj' \in [Slots -> {"EMPTY", "ROOM", "GAME", "CONFIRMING"}]
        /\ name' \in [Slots -> Names \cup {None}]
        /\ scene' \in [Slots -> {"login", "room", "game", "result"}]
    BY <1>6 DEF GameEnd
  <2> QED
    BY <1>6, <2>3, <2>4, <2>5 DEF GameEnd
<1> QED
  BY <1>1, <1>2, <1>3, <1>4, <1>5, <1>6 DEF Synchronizer

LEMMA DialogType == TypeOK /\ Dialog => TypeOK'
<1> SUFFICES ASSUME TypeOK, Dialog PROVE TypeOK'
  OBVIOUS
<1> USE DEF TypeOK
<1>1. ASSUME NEW old \in Slots, NEW new \in Slots, GiveMaster(old, new)
      PROVE  /\ master' \in [Slots -> BOOLEAN]
             /\ ready' \in [Slots -> BOOLEAN]
             /\ srv' \in SrvType
  BY <1>1 DEF GiveMaster, SrvType
<1>2. ASSUME NEW t \in Slots, UiSetMaster(t) PROVE TypeOK'
  <2>1. srv.ptr[srv.proc] \in Slots
    BY <1>2 DEF UiSetMaster, MayBecomeMaster, SrvType
  <2> QED
    BY <1>1, <1>2, <2>1 DEF UiSetMaster, GiveMaster
<1>3. ASSUME NEW t \in Slots, UiChoose(t) PROVE TypeOK'
  <2>1. srv.ptr[srv.proc] \in Slots
    BY <1>3 DEF UiChoose, MayBecomeMaster, SrvType
  <2> QED
    BY <1>3, <2>1 DEF UiChoose, sessVars
<1>4. CASE UiApply
  <2>1. ui \in [old : Slots, new : Slots]
    BY <1>4 DEF UiApply
  <2> QED
    BY <1>1, <1>4, <2>1 DEF UiApply, GiveMaster
<1>5. CASE Restart
  <2>1. srv' \in SrvType
    BY <1>5, InitSrvType DEF Restart
  <2>2. /\ flag' \in [Slots -> BOOLEAN] /\ master' \in [Slots -> BOOLEAN]
        /\ ready' \in [Slots -> BOOLEAN]
        /\ restart' \in BOOLEAN /\ crashed' \in BOOLEAN
    BY <1>5 DEF Restart
  <2>3. /\ conn' \in [Slots -> {"EMPTY", "AUTHED", "DESTROY"}]
        /\ obj' \in [Slots -> {"EMPTY", "ROOM", "GAME", "CONFIRMING"}]
        /\ name' \in [Slots -> Names \cup {None}]
        /\ scene' \in [Slots -> {"login", "room", "game", "result"}]
    BY <1>5 DEF Restart
  <2> QED
    BY <1>5, <2>1, <2>2, <2>3 DEF Restart
<1> QED
  BY <1>2, <1>3, <1>4, <1>5 DEF Dialog

(* Every variable of the server keeps its type: in particular no hand-over *)
(* or phase change leaves a master pointer outside the table.              *)
THEOREM TypeCorrect == Spec => []TypeOK
<1>1. TypeOK /\ [Next]_vars => TypeOK'
  <2> SUFFICES ASSUME TypeOK, [Next]_vars PROVE TypeOK'
    OBVIOUS
  <2>1. CASE UNCHANGED vars
    BY <2>1 DEF TypeOK, vars, sessVars
  <2> QED
    BY <2>1, ReceiverType, SenderType, SynchronizerType, DialogType DEF Next, Halted
<1> QED
  BY <1>1, InitType, PTL DEF Spec

-----------------------------------------------------------------------------
(* The master's office. *)

(* Without a dead socket nobody is in DESTROY, and without a delay in the   *)
(* dialog no request is pending: what the master's flag is kept by.         *)
MasterInv ==
    /\ TypeOK
    /\ \A s \in Slots : conn[s] = "AUTHED" => flag[s]
    /\ \A s \in Slots : conn[s] # "DESTROY"
    /\ ui = None
    /\ AuthedHasMaster

LEMMA ConnectTakesFreeSlot ==
    ASSUME Connect
    PROVE  First(Slots \ Flagged) \in Slots /\ ~flag[First(Slots \ Flagged)]
<1>1. Slots \ Flagged # {} /\ Slots \ Flagged \subseteq Slots
  <2>1. Flagged # Slots
    BY DEF Connect
  <2> QED
    BY <2>1 DEF Flagged
<1>2. First(Slots \ Flagged) \in Slots \ Flagged
  BY <1>1, FirstIsMember
<1> QED
  BY <1>2 DEF Flagged

(* Login, leave and the rest of the receiver leave somebody with the flag.  *)
LEMMA ReceiverKeepsMaster ==
    ASSUME MasterInv, Receiver, TypeOK'
    PROVE  MasterInv'
<1> USE DEF MasterInv, TypeOK
<1>1. ASSUME UNCHANGED <<flag, conn, master, ui>> PROVE MasterInv'
  BY <1>1 DEF AuthedHasMaster, Authed
<1>2. CASE Connect
  <2> DEFINE free == First(Slots \ Flagged)
  <2>1. free \in Slots /\ ~flag[free]
    BY <1>2, ConnectTakesFreeSlot
  <2>2. /\ flag' = [flag EXCEPT ![free] = TRUE]
        /\ conn' = [conn EXCEPT ![free] = "EMPTY"]
        /\ master' = [master EXCEPT ![free] = FALSE]
        /\ ui' = None
    BY <1>2 DEF Connect
  <2> HIDE DEF free
  <2>3. Authed' = Authed
    BY <2>1, <2>2 DEF Authed
  <2>4. \A s \in Authed : master[s] => master'[s]
    BY <2>1, <2>2 DEF Authed
  <2>5. AuthedHasMaster'
    BY <2>3, <2>4 DEF AuthedHasMaster
  <2> QED
    BY <2>1, <2>2, <2>5
<1>3. ASSUME NEW s \in Slots, HashMatch(s) PROVE MasterInv'
  <2>1. /\ conn' = [conn EXCEPT ![s] = "AUTHED"]
        /\ flag[s] /\ conn[s] = "EMPTY" /\ flag' = flag /\ ui' = None
        /\ \A t \in Slots \ {s} : master'[t] = master[t]
        /\ Authed \ {s} = {} => master'[s]
    BY <1>3 DEF HashMatch
  <2>2. Authed' = Authed \cup {s} /\ s \notin Authed
    BY <2>1 DEF Authed
  <2>3. AuthedHasMaster'
    BY <2>1, <2>2 DEF AuthedHasMaster, Authed
  <2> QED
    BY <2>1, <2>3
<1>4. ASSUME NEW s \in Slots, Confirm(s) PROVE MasterInv'
  <2> DEFINE claim == {t \in Authed : master[t]}
  <2>1. Authed' = Authed /\ flag' = flag /\ conn' = conn /\ ui' = None
    BY <1>4 DEF Confirm, Authed
  <2>2. claim # {} /\ claim \subseteq Slots
    BY <1>4 DEF Confirm, AuthedHasMaster, Authed
  <2>3. First(claim) \in claim
    BY <2>2, FirstIsMember
  <2>4. PICK t \in claim : ReEnterFlags[t]
    <3>1. CASE RoomMaster = None
      <4>1. ReEnterFlags[First(claim)]
        BY <2>2, <2>3, <3>1 DEF ReEnterFlags
      <4> QED
        BY <2>3, <4>1
    <3>2. CASE RoomMaster # None
      <4>1. \A t \in claim : ReEnterFlags[t]
        BY <2>2, <3>2 DEF ReEnterFlags
      <4> QED
        BY <2>2, <4>1
    <3> QED
      BY <3>1, <3>2
  <2>5. AuthedHasMaster'
    BY <1>4, <2>1, <2>4 DEF Confirm, AuthedHasMaster
  <2> QED
    BY <2>1, <2>5
<1>5. ASSUME NEW s \in Slots, NEW clamp \in BOOLEAN, Disconnect(s, clamp) PROVE MasterInv'
  <2>1. /\ flag' = [flag EXCEPT ![s] = FALSE]
        /\ conn' = [conn EXCEPT ![s] = "EMPTY"]
        /\ master' = IF conn[s] = "AUTHED" THEN LeaveFlags(s) ELSE master
        /\ ui' = None
    BY <1>5 DEF Disconnect, ClearSession
  <2>2. Authed' = Heirs(s) /\ Heirs(s) \subseteq Slots
    BY <2>1 DEF Authed, Heirs
  <2>3. ASSUME Heirs(s) # {} PROVE \E t \in Heirs(s) : master'[t]
    <3>1. CASE conn[s] = "AUTHED" /\ master[s]
      <4>1. First(Heirs(s)) \in Heirs(s)
        BY <2>2, <2>3, FirstIsMember
      <4>2. LeaveFlags(s)[First(Heirs(s))]
        BY <2>2, <3>1, <4>1 DEF LeaveFlags, Heirs
      <4> QED
        BY <2>1, <3>1, <4>1, <4>2
    <3>2. CASE conn[s] = "AUTHED" /\ ~master[s]
      <4>1. \A t \in Slots : master[t] => master'[t]
        BY <2>1, <3>2 DEF LeaveFlags
      <4>2. PICK t \in Authed : master[t]
        BY <2>3 DEF AuthedHasMaster, Heirs
      <4> QED
        BY <3>2, <4>1, <4>2 DEF Heirs, Authed
    <3>3. CASE conn[s] # "AUTHED"
      <4>1. PICK t \in Authed : master[t]
        BY <2>3 DEF AuthedHasMaster, Heirs
      <4> QED
        BY <2>1, <3>3, <4>1 DEF Heirs, Authed
    <3> QED
      BY <3>1, <3>2, <3>3
  <2>4. AuthedHasMaster'
    BY <2>2, <2>3 DEF AuthedHasMaster
  <2> QED
    BY <2>1, <2>4
<1>6. ASSUME NEW s \in Slots,
             \/ HashMismatch \/ Poll \/ OtherPacket
             \/ \E n \in Names \cup {None} : Password(s, n)
             \/ \E b \in BOOLEAN : SetGameReady(s, b)
             \/ StartLoad(s) \/ ReadyWithoutMaster(s) \/ SetMove(s) \/ SetTeamCount(s)
      PROVE  UNCHANGED <<flag, conn, master, ui>>
  BY <1>6 DEF Password, HashMismatch, Poll, OtherPacket, SetGameReady, StartLoad,
     ReadyWithoutMaster, SetMove, SetTeamCount, sessVars
<1> QED
  BY <1>1, <1>2, <1>3, <1>4, <1>5, <1>6 DEF Receiver

(* The end of a game keeps the flags; the dialog moves one to a user.       *)
LEMMA OthersKeepMaster ==
    ASSUME MasterInv, Synchronizer \/ Dialog, TypeOK', ~UiDelay
    PROVE  MasterInv'
<1> USE DEF MasterInv, TypeOK
<1>1. ASSUME UNCHANGED <<flag, conn, master, ui>> PROVE MasterInv'
  BY <1>1 DEF AuthedHasMaster, Authed
<1>2. ASSUME SyncRead \/ SyncFrame \/ LoadDone \/ MainInitFromLoad \/ SwitchToMain
      PROVE  UNCHANGED <<flag, conn, master, ui>>
  BY <1>2 DEF SyncRead, SyncFrame, LoadDone, MainInitFromLoad, SwitchToMain, sessVars
<1>3. CASE GameEnd
  <2>1. /\ flag' = flag /\ ui' = None
        /\ \A s \in Slots : flag[s] => conn'[s] = conn[s] /\ master'[s] = master[s]
        /\ \A s \in Slots : ~flag[s] => conn'[s] = "EMPTY"
    BY <1>3 DEF GameEnd
  <2>2. Authed' = Authed
    BY <2>1 DEF Authed
  <2>3. AuthedHasMaster'
    BY <2>1, <2>2 DEF AuthedHasMaster, Authed
  <2> QED
    BY <2>1, <2>3
<1>4. ASSUME NEW t \in Slots, UiSetMaster(t) PROVE MasterInv'
  <2> DEFINE old == srv.ptr[srv.proc]
  <2>1. old \in Slots /\ old # t /\ t \in Authed
    BY <1>4 DEF UiSetMaster, MayBecomeMaster, SrvType
  <2>2. /\ master' = [master EXCEPT ![old] = FALSE, ![t] = TRUE]
        /\ flag' = flag /\ conn' = conn /\ ui' = None
    BY <1>4 DEF UiSetMaster, GiveMaster
  <2>3. master'[t] /\ Authed' = Authed
    BY <2>1, <2>2 DEF Authed
  <2>4. AuthedHasMaster'
    BY <2>1, <2>3 DEF AuthedHasMaster
  <2> QED
    BY <2>2, <2>4
<1>5. CASE Restart
  <2>1. /\ \A s \in Slots : ~flag'[s] /\ conn'[s] = "EMPTY"
        /\ ui' = None
    BY <1>5 DEF Restart
  <2> QED
    BY <2>1 DEF AuthedHasMaster, Authed
<1>6. (\A t \in Slots : ~UiChoose(t)) /\ ~UiApply
  BY DEF UiChoose, UiApply
<1> QED
  BY <1>1, <1>2, <1>3, <1>4, <1>5, <1>6 DEF Synchronizer, Dialog

(* As long as no socket dies under the sender and the dialog acts at once,  *)
(* the users are never left without a holder of the master's flag, through  *)
(* every order of logins, leaves, games and hand-overs.  Neither     *)
(* assumption can be dropped: a master in DESTROY keeps its flag when it is  *)
(* cleared, and a delayed choice takes the flag from whoever has it by then. *)
THEOREM MasterIsKept ==
    ASSUME ~SendFails, ~UiDelay
    PROVE  Spec => []AuthedHasMaster
<1>1. Init => MasterInv
  <2> SUFFICES ASSUME Init PROVE MasterInv
    OBVIOUS
  <2>1. TypeOK
    BY InitType
  <2>2. \A s \in Slots : ~flag[s] /\ conn[s] = "EMPTY"
    BY DEF Init
  <2> QED
    BY <2>1, <2>2 DEF MasterInv, AuthedHasMaster, Authed, Init
<1>2. MasterInv /\ [Next]_vars => MasterInv'
  <2> SUFFICES ASSUME MasterInv, [Next]_vars PROVE MasterInv'
    OBVIOUS
  <2>1. CASE UNCHANGED vars
    BY <2>1 DEF MasterInv, TypeOK, AuthedHasMaster, Authed, vars, sessVars
  <2>2. ~Sender
    BY DEF Sender, SendError
  <2>3. CASE Receiver
    <3>1. TypeOK'
      BY <2>3, ReceiverType DEF MasterInv
    <3> QED
      BY <2>3, <3>1, ReceiverKeepsMaster
  <2>4. CASE Synchronizer \/ Dialog
    <3>1. TypeOK'
      BY <2>4, SynchronizerType, DialogType DEF MasterInv
    <3> QED
      BY <2>4, <3>1, OthersKeepMaster
  <2> QED
    BY <2>1, <2>2, <2>3, <2>4 DEF Next, Halted
<1>3. MasterInv => AuthedHasMaster
  BY DEF MasterInv
<1> QED
  BY <1>1, <1>2, <1>3, PTL DEF Spec

-----------------------------------------------------------------------------
(* The session table. *)

TableInv == TypeOK /\ FreeSlotIsEmpty /\ UniqueNames /\ CountsAgree

LEMMA FlaggedIsFinite == IsFiniteSet(Flagged)
<1>1. IsFiniteSet(Slots)
  BY FS_Interval, MaxLoginAssumption DEF Slots
<1> QED
  BY <1>1, FS_Subset DEF Flagged

(* Every step keeps the table except five: a step that changes no flag, no *)
(* name and no counter, and no state of a free slot.                       *)
LEMMA TableUntouched ==
    ASSUME TableInv, TypeOK',
           UNCHANGED <<flag, name, userCount, sessionCount, restart>>,
           \A s \in Slots : ~flag[s] => conn'[s] \in {conn[s], "DESTROY"}
    PROVE  TableInv'
<1>1. Flagged' = Flagged
  BY DEF Flagged
<1>2. CountsAgree'
  BY <1>1 DEF TableInv, CountsAgree
<1> QED
  BY <1>1, <1>2 DEF TableInv, FreeSlotIsEmpty, UniqueNames

LEMMA ConnectKeepsTable ==
    ASSUME TableInv, TypeOK', Connect
    PROVE  TableInv'
<1> USE DEF TableInv, TypeOK
<1> DEFINE free == First(Slots \ Flagged)
<1>1. free \in Slots /\ free \notin Flagged
  <2>1. Slots \ Flagged # {} /\ Slots \ Flagged \subseteq Slots
    BY DEF Connect, Flagged
  <2> QED
    BY <2>1, FirstIsMember
<1>2. /\ flag' = [flag EXCEPT ![free] = TRUE]
      /\ conn' = [conn EXCEPT ![free] = "EMPTY"]
      /\ name' = [name EXCEPT ![free] = None]
      /\ userCount' = userCount + 1 /\ sessionCount' = sessionCount + 1
      /\ ~restart'
  BY DEF Connect
<1> HIDE DEF free
<1>3. Flagged' = Flagged \cup {free}
  BY <1>1, <1>2 DEF Flagged
<1>4. Cardinality(Flagged') = Cardinality(Flagged) + 1
  BY <1>1, <1>3, FlaggedIsFinite, FS_AddElement
<1>5. CountsAgree'
  BY <1>2, <1>4 DEF CountsAgree
<1>6. FreeSlotIsEmpty'
  BY <1>1, <1>2 DEF FreeSlotIsEmpty
<1>7. UniqueNames'
  BY <1>1, <1>2, <1>3 DEF UniqueNames, Flagged
<1> QED
  BY <1>5, <1>6, <1>7

LEMMA PasswordKeepsTable ==
    ASSUME TableInv, TypeOK', NEW s \in Slots, NEW n \in Names \cup {None},
           Password(s, n)
    PROVE  TableInv'
<1> USE DEF TableInv, TypeOK
<1>1. /\ UNCHANGED <<flag, conn, userCount, sessionCount, restart>>
      /\ flag[s]
      /\ \/ name' = name
         \/ name' = [name EXCEPT ![s] = n] /\ IsUniqueUserName(n)
  BY DEF Password
<1>2. Flagged' = Flagged /\ s \in Flagged
  BY <1>1 DEF Flagged
<1>3. CountsAgree'
  BY <1>1, <1>2 DEF CountsAgree
<1>4. FreeSlotIsEmpty'
  BY <1>1 DEF FreeSlotIsEmpty
<1>5. UniqueNames'
  BY <1>1, <1>2 DEF UniqueNames, IsUniqueUserName, Flagged
<1> QED
  BY <1>3, <1>4, <1>5

LEMMA DisconnectKeepsTable ==
    ASSUME TableInv, TypeOK', NEW s \in Slots, NEW clamp \in BOOLEAN,
           Disconnect(s, clamp)
    PROVE  TableInv'
<1> USE DEF TableInv, TypeOK
<1>1. /\ flag[s]
      /\ flag' = [flag EXCEPT ![s] = FALSE]
      /\ conn' = [conn EXCEPT ![s] = "EMPTY"]
      /\ name' = [name EXCEPT ![s] = None]
      /\ userCount' = userCount - 1 /\ sessionCount' = sessionCount - 1
      /\ restart' = (sessionCount = 1)
  BY DEF Disconnect, ClearSession
<1>2. Flagged' = Flagged \ {s} /\ s \in Flagged
  BY <1>1 DEF Flagged
<1>3. Cardinality(Flagged') = Cardinality(Flagged) - 1 /\ Cardinality(Flagged') \in Nat
  BY <1>2, FlaggedIsFinite, FS_RemoveElement, FS_CardinalityType, FS_Subset
<1>4. restart' => Flagged' = {}
  <2> SUFFICES ASSUME restart' PROVE Flagged' = {}
    OBVIOUS
  <2>1. Cardinality(Flagged') = 0 /\ IsFiniteSet(Flagged')
    BY <1>1, <1>2, <1>3, FlaggedIsFinite, FS_Subset DEF CountsAgree
  <2> QED
    BY <2>1, FS_EmptySet
<1>5. CountsAgree'
  BY <1>1, <1>3, <1>4 DEF CountsAgree
<1>6. FreeSlotIsEmpty'
  BY <1>1 DEF FreeSlotIsEmpty
<1>7. UniqueNames'
  BY <1>1, <1>2 DEF UniqueNames, Flagged
<1> QED
  BY <1>5, <1>6, <1>7

LEMMA GameEndKeepsTable ==
    ASSUME TableInv, TypeOK', GameEnd
    PROVE  TableInv'
<1> USE DEF TableInv, TypeOK
<1>1. UNCHANGED <<flag, userCount, sessionCount, restart>>
  BY DEF GameEnd
<1>2. \A s \in Slots : /\ flag[s] => name'[s] = name[s]
                       /\ ~flag[s] => name'[s] = None /\ conn'[s] = "EMPTY"
  BY DEF GameEnd
<1>3. Flagged' = Flagged
  BY <1>1 DEF Flagged
<1>4. CountsAgree'
  BY <1>1, <1>3 DEF CountsAgree
<1> QED
  BY <1>1, <1>2, <1>3, <1>4 DEF FreeSlotIsEmpty, UniqueNames, Flagged

LEMMA RestartKeepsTable ==
    ASSUME TableInv, TypeOK', Restart
    PROVE  TableInv'
<1>1. /\ \A s \in Slots : ~flag'[s] /\ conn'[s] = "EMPTY" /\ name'[s] = None
      /\ userCount' = 0 /\ sessionCount' = 0
  BY DEF Restart
<1>2. Flagged' = {}
  BY <1>1 DEF Flagged
<1>3. CountsAgree'
  BY <1>1, <1>2, FS_EmptySet DEF CountsAgree
<1> QED
  BY <1>1, <1>2, <1>3 DEF TableInv, FreeSlotIsEmpty, UniqueNames

LEMMA InitTable == Init => TableInv
<1> SUFFICES ASSUME Init PROVE TableInv
  OBVIOUS
<1>1. \A s \in Slots : ~flag[s] /\ conn[s] = "EMPTY" /\ name[s] = None
  BY DEF Init
<1>2. Flagged = {}
  BY <1>1 DEF Flagged
<1>3. CountsAgree
  BY <1>2, FS_EmptySet DEF Init, CountsAgree
<1> QED
  BY <1>1, <1>2, <1>3, InitType DEF TableInv, FreeSlotIsEmpty, UniqueNames

LEMMA NextKeepsTable == TableInv /\ [Next]_vars => TableInv'
<1> SUFFICES ASSUME TableInv, [Next]_vars PROVE TableInv'
  OBVIOUS
<1>1. TypeOK /\ TypeOK'
  <2>1. CASE UNCHANGED vars
    BY <2>1 DEF TableInv, TypeOK, vars, sessVars
  <2> QED
    BY <2>1, ReceiverType, SenderType, SynchronizerType, DialogType
       DEF TableInv, Next, Halted
<1>2. CASE UNCHANGED vars
  BY <1>1, <1>2, TableUntouched DEF vars, sessVars
<1>3. CASE Receiver
  <2>1. ASSUME NEW s \in Slots,
               \/ HashMatch(s)
               \/ \E b \in BOOLEAN : SetGameReady(s, b)
               \/ StartLoad(s) \/ ReadyWithoutMaster(s) \/ SetMove(s)
               \/ SetTeamCount(s) \/ Confirm(s)
        PROVE  TableInv'
    <3>1. UNCHANGED <<flag, name, userCount, sessionCount, restart>>
      BY <2>1 DEF HashMatch, SetGameReady,
         StartLoad, ReadyWithoutMaster, SetMove, SetTeamCount, Confirm, sessVars
    <3>2. \/ conn' = conn
          \/ conn' = [conn EXCEPT ![s] = "AUTHED"] /\ flag[s]
      BY <2>1 DEF HashMatch, SetGameReady,
         StartLoad, ReadyWithoutMaster, SetMove, SetTeamCount, Confirm, sessVars
    <3> QED
      BY <1>1, <3>1, <3>2, TableUntouched DEF TypeOK
  <2>2. ASSUME HashMismatch \/ Poll \/ OtherPacket PROVE TableInv'
    <3>1. UNCHANGED sessVars /\ UNCHANGED restart
      BY <2>2 DEF HashMismatch, Poll, OtherPacket
    <3> QED
      BY <1>1, <3>1, TableUntouched DEF sessVars
  <2> QED
    BY <1>1, <1>3, <2>1, <2>2, ConnectKeepsTable, PasswordKeepsTable, DisconnectKeepsTable
       DEF Receiver
<1>4. CASE Sender
  <2>1. PICK s \in Slots : SendError(s)
    BY <1>4 DEF Sender
  <2>2. /\ UNCHANGED <<flag, name, userCount, sessionCount, restart>>
        /\ \A t \in Slots : ~flag[t] => conn'[t] \in {conn[t], "DESTROY"}
    BY <1>1, <2>1 DEF SendError, TypeOK
  <2> QED
    BY <1>1, <2>2, TableUntouched
<1>5. CASE Synchronizer
  <2>1. ASSUME SyncRead \/ SyncFrame \/ LoadDone \/ MainInitFromLoad \/ SwitchToMain
        PROVE  UNCHANGED <<flag, conn, name, userCount, sessionCount, restart>>
    BY <2>1 DEF SyncRead, SyncFrame, LoadDone, MainInitFromLoad, SwitchToMain, sessVars
  <2> QED
    BY <1>1, <1>5, <2>1, GameEndKeepsTable, TableUntouched DEF Synchronizer
<1>6. CASE Dialog
  <2>1. ASSUME NEW t \in Slots, UiSetMaster(t) \/ UiChoose(t) \/ UiApply
        PROVE  UNCHANGED <<flag, conn, name, userCount, sessionCount, restart>>
    BY <2>1 DEF UiSetMaster, UiChoose, UiApply, GiveMaster, sessVars
  <2>2. CASE Restart
    BY <1>1, <2>2, RestartKeepsTable
  <2>3. CASE UiApply
    <3>1. 0 \in Slots
      BY MaxLoginAssumption DEF Slots
    <3> QED
      BY <1>1, <2>1, <2>3, <3>1, TableUntouched
  <2> QED
    BY <1>1, <1>6, <2>1, <2>2, <2>3, TableUntouched DEF Dialog
<1> QED
  BY <1>2, <1>3, <1>4, <1>5, <1>6 DEF Next, Halted

(* The counter the restart of the server depends on, kept by hand in three  *)
(* places, always is the number of sessions in use.                         *)
THEOREM CountsAreRight == Spec => []CountsAgree
<1>1. TableInv => CountsAgree
  BY DEF TableInv
<1> QED
  BY <1>1, InitTable, NextKeepsTable, PTL DEF Spec

(* No cleared slot is ever AUTHED or keeps a name, whoever clears it and    *)
(* whatever the sender thread writes into it.                               *)
THEOREM FreeSlotsAreEmpty == Spec => []FreeSlotIsEmpty
<1>1. TableInv => FreeSlotIsEmpty
  BY DEF TableInv
<1> QED
  BY <1>1, InitTable, NextKeepsTable, PTL DEF Spec

(* Logins, departures, restarts and dead sockets leave the session table and *)
(* its two counts in agreement.                                            *)
THEOREM TableStaysSound == Spec => []TableIsSound
  BY CountsAreRight, FreeSlotsAreEmpty, PTL DEF TableIsSound

(* No two sessions ever hold the same name, even in the middle of a login.  *)
THEOREM NamesAreUnique == Spec => []UniqueNames
<1>1. TableInv => UniqueNames
  BY DEF TableInv
<1> QED
  BY <1>1, InitTable, NextKeepsTable, PTL DEF Spec

-----------------------------------------------------------------------------
(* The phases.  Of the invariant, what concerns the processors alone: v is   *)
(* their state, pc the synchronizer's place, and in tells whether somebody   *)
(* is authenticated.  The processor of the room may serve a phase that is    *)
(* not its own only while nobody is, and a processor is marked as done only  *)
(* while the synchronizer is about to put the next one in its place.         *)
Serving(v, pc, in) ==
    /\ v.game = v.proc \/ (v.proc = "ROOM" /\ ~in)
    /\ v.proc = "ROOM" => v.phase["ROOM"] \in {"ROOM", "MAIN"}
    /\ v.proc = "LOAD" => v.phase["LOAD"] \in {"LOAD", "MAIN"}
    /\ v.proc = "MAIN" => v.phase["MAIN"] = "MAIN"
    /\ v.proc # "MAIN" /\ v.phase[v.proc] = "MAIN" =>
         pc \in {"init", "switch"} /\ v.game # "MAIN"
    /\ pc = "load" => v.game # "MAIN"
    /\ pc = "switch" => v.phase["MAIN"] = "MAIN"

(* Who is in and ready has confirmed the result of the last game, or is in   *)
(* the one that runs.                                                       *)
ReadyAreBack ==
    \A s \in Authed : ready[s] =>
        \/ scene[s] = "room"
        \/ scene[s] = "game" /\ srv.proc # "ROOM"

PhaseInv == TypeOK /\ Serving(srv, syncPc, Authed # {}) /\ ReadyAreBack

(* The switch that ends PacketProc leaves nothing to be switched, never goes *)
(* back to the room from another processor, and never starts to load.        *)
LEMMA SwitchServes ==
    ASSUME NEW v \in SrvType, NEW pc, NEW in \in BOOLEAN, Serving(v, pc, in),
           NEW in1 \in BOOLEAN
    PROVE  /\ Serving(SwitchPhase(v), pc, in1)
           /\ SwitchPhase(v).proc = "ROOM" => v.proc = "ROOM"
           /\ SwitchPhase(v).game = "LOAD" => v.game = "LOAD"
<1> DEFINE g == v.phase[v.proc]
<1>1. /\ v.proc \in Phases /\ v.game \in Phases /\ v.phase \in [Phases -> Phases]
      /\ DOMAIN v = {"game", "proc", "phase", "ptr"}
  BY DEF SrvType
<1>2. CASE g = v.game
  <2>1. SwitchPhase(v) = v
    BY <1>2 DEF SwitchPhase, PhaseChanged
  <2>2. v.game = v.proc
    BY <1>1, <1>2 DEF Serving, Phases
  <2> QED
    BY <1>1, <2>1, <2>2 DEF Serving
<1>3. CASE g # v.game
  <2>1. SwitchPhase(v) = [InitPhase(v, g) EXCEPT !.game = g, !.proc = g]
    BY <1>3 DEF SwitchPhase, PhaseChanged
  <2>2. \/ v.proc = "ROOM" /\ g = "ROOM"
        \/ v.proc # "MAIN" /\ g = "MAIN" /\ pc # "load"
    BY <1>1, <1>3 DEF Serving, Phases
  <2>3. CASE v.proc = "ROOM" /\ g = "ROOM"
    <3>1. /\ SwitchPhase(v).game = "ROOM" /\ SwitchPhase(v).proc = "ROOM"
          /\ SwitchPhase(v).phase = [v.phase EXCEPT !["ROOM"] = "ROOM"]
      BY <1>1, <2>1, <2>3 DEF InitPhase, RoomInit, SrvType
    <3> QED
      BY <1>1, <2>3, <3>1 DEF Serving, Phases
  <2>4. CASE v.proc # "MAIN" /\ g = "MAIN" /\ pc # "load"
    <3>1. /\ SwitchPhase(v).game = "MAIN" /\ SwitchPhase(v).proc = "MAIN"
          /\ SwitchPhase(v).phase = [v.phase EXCEPT !["MAIN"] = "MAIN"]
      BY <1>1, <2>1, <2>4 DEF InitPhase, MainInit, SrvType
    <3> QED
      BY <1>1, <2>4, <3>1 DEF Serving, Phases
  <2> QED
    BY <2>2, <2>3, <2>4
<1> QED
  BY <1>2, <1>3

LEMMA ResetServes ==
    ASSUME NEW v \in SrvType, NEW pc, NEW in \in BOOLEAN, Serving(v, pc, in),
           NobodyAuthed => ~in
    PROVE  /\ Serving(EmptyReset(v), pc, in)
           /\ EmptyReset(v).proc = "ROOM" => v.proc = "ROOM" \/ ~in
           /\ EmptyReset(v).game = v.game
<1>1. CASE NobodyAuthed
  <2>1. /\ EmptyReset(v).game = v.game /\ EmptyReset(v).proc = "ROOM"
        /\ EmptyReset(v).phase = [v.phase EXCEPT !["ROOM"] = "ROOM"]
    BY <1>1 DEF EmptyReset, RoomInit, SrvType
  <2>2. v.phase \in [Phases -> Phases]
    BY DEF SrvType
  <2> QED
    BY <1>1, <2>1, <2>2 DEF Serving, Phases
<1>2. CASE ~NobodyAuthed
  BY <1>2 DEF EmptyReset
<1> QED
  BY <1>1, <1>2

(* A change of a master's pointer alone changes nothing.                    *)
LEMMA PointersDoNotServe ==
    ASSUME NEW v, NEW w, w.game = v.game, w.proc = v.proc, w.phase = v.phase,
           NEW pc, NEW in \in BOOLEAN, NEW in1 \in BOOLEAN, in1 => in, Serving(v, pc, in)
    PROVE  Serving(w, pc, in1)
BY DEF Serving

(* Steps that leave the processors as they are.                            *)
LEMMA ServingStays ==
    ASSUME PhaseInv, UNCHANGED syncPc, Authed' \subseteq Authed,
           srv'.game = srv.game, srv'.proc = srv.proc, srv'.phase = srv.phase
    PROVE  Serving(srv, syncPc, Authed # {})'
<1>1. (Authed' # {}) \in BOOLEAN /\ (Authed # {}) \in BOOLEAN /\ (Authed' # {} => Authed # {})
  OBVIOUS
<1>2. Serving(srv', syncPc, Authed' # {})
  BY <1>1, PointersDoNotServe DEF PhaseInv
<1> QED
  BY <1>2

LEMMA NobodyIs == NobodyAuthed => Authed = {}
BY DEF NobodyAuthed, Authed

(* The packets that end with the switch and have no other say in the phases. *)
LEMMA SwitchStep ==
    ASSUME PhaseInv, UNCHANGED <<syncPc, flag, conn>>, srv' = SwitchPhase(srv)
    PROVE  /\ Serving(srv, syncPc, Authed # {})'
           /\ srv'.proc = "ROOM" => srv.proc = "ROOM"
           /\ srv'.game = "LOAD" => srv.game = "LOAD"
<1>1. Authed' = Authed
  BY DEF Authed
<1>2. srv \in SrvType /\ (Authed # {}) \in BOOLEAN /\ Serving(srv, syncPc, Authed # {})
  BY DEF PhaseInv, TypeOK
<1>3. Serving(srv', syncPc, Authed # {})
  BY <1>2, SwitchServes
<1> QED
  BY <1>1, <1>2, <1>3, SwitchServes

LEMMA ReadyStay ==
    ASSUME PhaseInv, srv'.proc = "ROOM" => srv.proc = "ROOM" \/ Authed' = {},
           \A s \in Authed' : ready'[s] => s \in Authed /\ ready[s] /\ scene'[s] = scene[s]
    PROVE  ReadyAreBack'
BY DEF PhaseInv, ReadyAreBack

(* A game starts to load only on the master's ready packet.                 *)
LoadsOnlyWhenReady ==
    srv.game = "ROOM" /\ srv'.game = "LOAD" => \A s \in Authed : ready'[s] /\ scene[s] = "room"

LEMMA PhaseReceiver ==
    ASSUME PhaseInv, TypeOK', Receiver
    PROVE  PhaseInv' /\ LoadsOnlyWhenReady
<1> DEFINE Goal == /\ Serving(srv, syncPc, Authed # {})' /\ ReadyAreBack'
                   /\ LoadsOnlyWhenReady
<1> SUFFICES Goal
  BY DEF PhaseInv
<1>0. /\ srv \in SrvType /\ (Authed # {}) \in BOOLEAN /\ (Authed' # {}) \in BOOLEAN
      /\ Serving(srv, syncPc, Authed # {}) /\ ReadyAreBack /\ TypeOK
      /\ srv.game \in Phases /\ srv.proc \in Phases /\ srv.phase \in [Phases -> Phases]
      /\ \A s \in Authed : s \in Slots
  BY DEF PhaseInv, TypeOK, SrvType, Authed
<1>1. CASE Connect
  <2> DEFINE free == First(Slots \ Flagged)
  <2>1. free \in Slots /\ ~flag[free]
    BY <1>1, FirstIsMember DEF Connect, Flagged
  <2>2. /\ flag' = [flag EXCEPT ![free] = TRUE]
        /\ conn' = [conn EXCEPT ![free] = "EMPTY"]
        /\ ready' = [ready EXCEPT ![free] = FALSE]
        /\ scene' = [scene EXCEPT ![free] = "login"]
        /\ srv' = srv /\ syncPc' = syncPc
    BY <1>1 DEF Connect
  <2> HIDE DEF free
  <2>3. Authed' = Authed /\ free \notin Authed
    BY <1>0, <2>1, <2>2 DEF Authed, TypeOK
  <2>4. ReadyAreBack'
    BY <1>0, <2>1, <2>2, <2>3, ReadyStay DEF TypeOK
  <2> QED
    BY <2>2, <2>3, <2>4, ServingStays DEF LoadsOnlyWhenReady
<1>2. ASSUME NEW s \in Slots, NEW n \in Names \cup {None}, Password(s, n) PROVE Goal
  <2>1. /\ conn[s] = "EMPTY" /\ flag' = flag /\ conn' = conn /\ scene' = scene
        /\ ready' = [ready EXCEPT ![s] = n # None] /\ syncPc' = syncPc
        /\ srv' = EmptyReset(SwitchPhase(srv))
    BY <1>2 DEF Password
  <2>2. Authed' = Authed /\ s \notin Authed
    BY <2>1 DEF Authed
  <2> DEFINE w == SwitchPhase(srv)
  <2>3. /\ w \in SrvType /\ Serving(w, syncPc, Authed # {})
        /\ w.proc = "ROOM" => srv.proc = "ROOM"
        /\ w.game = "LOAD" => srv.game = "LOAD"
    BY <1>0, SwitchServes, SwitchType
  <2> HIDE DEF w
  <2>4. /\ Serving(EmptyReset(w), syncPc, Authed # {})
        /\ EmptyReset(w).proc = "ROOM" => w.proc = "ROOM" \/ Authed = {}
        /\ EmptyReset(w).game = w.game
    BY <1>0, <2>3, ResetServes, NobodyIs
  <2>5. ReadyAreBack'
    BY <1>0, <2>1, <2>2, <2>3, <2>4, ReadyStay DEF TypeOK, w
  <2> QED
    BY <2>1, <2>2, <2>3, <2>4, <2>5 DEF LoadsOnlyWhenReady, w
<1>3. CASE HashMismatch
  <2>1. /\ flag' = flag /\ conn' = conn /\ scene' = scene /\ ready' = ready
        /\ syncPc' = syncPc /\ srv' = EmptyReset(SwitchPhase(srv))
    BY <1>3 DEF HashMismatch, sessVars
  <2>2. Authed' = Authed
    BY <2>1 DEF Authed
  <2> DEFINE w == SwitchPhase(srv)
  <2>3. /\ w \in SrvType /\ Serving(w, syncPc, Authed # {})
        /\ w.proc = "ROOM" => srv.proc = "ROOM"
        /\ w.game = "LOAD" => srv.game = "LOAD"
    BY <1>0, SwitchServes, SwitchType
  <2> HIDE DEF w
  <2>4. /\ Serving(EmptyReset(w), syncPc, Authed # {})
        /\ EmptyReset(w).proc = "ROOM" => w.proc = "ROOM" \/ Authed = {}
        /\ EmptyReset(w).game = w.game
    BY <1>0, <2>3, ResetServes, NobodyIs
  <2>5. ReadyAreBack'
    BY <1>0, <2>1, <2>2, <2>3, <2>4, ReadyStay DEF w
  <2> QED
    BY <2>1, <2>2, <2>3, <2>4, <2>5 DEF LoadsOnlyWhenReady, w
<1>4. ASSUME NEW s \in Slots, HashMatch(s) PROVE Goal
  <2> DEFINE added    == IF srv.proc = "ROOM" THEN AddNewUser(srv, s) ELSE srv
             switched == SwitchPhase(added)
  <2>1. /\ conn' = [conn EXCEPT ![s] = "AUTHED"] /\ flag' = flag
        /\ ready' = [ready EXCEPT ![s] = FALSE] /\ scene' = [scene EXCEPT ![s] = "room"]
        /\ srv' = switched \/ srv' = AddNewUser(switched, s)
        /\ syncPc' = syncPc
    BY <1>4 DEF HashMatch
  <2>2. /\ added.game = srv.game /\ added.proc = srv.proc /\ added.phase = srv.phase
        /\ added \in SrvType
    BY <1>0, AddNewUserType DEF AddNewUser, SrvType
  <2>3. Serving(added, syncPc, Authed # {})
    <3> HIDE DEF added
    <3> QED
      BY <1>0, <2>2, PointersDoNotServe
  <2> HIDE DEF added
  <2>4. /\ switched \in SrvType /\ Serving(switched, syncPc, Authed' # {})
        /\ switched.proc = "ROOM" => srv.proc = "ROOM"
        /\ switched.game = "LOAD" => srv.game = "LOAD"
    BY <1>0, <2>2, <2>3, SwitchServes, SwitchType
  <2> HIDE DEF switched
  <2>5. srv'.game = switched.game /\ srv'.proc = switched.proc /\ srv'.phase = switched.phase
    BY <2>1, <2>4 DEF AddNewUser, SrvType
  <2>6. Serving(srv', syncPc, Authed' # {})
    BY <1>0, <2>4, <2>5, PointersDoNotServe
  <2>7. \A t \in Authed' : t = s \/ t \in Authed
    BY <1>0, <2>1 DEF Authed, TypeOK
  <2>8. ReadyAreBack'
    BY <1>0, <2>1, <2>4, <2>5, <2>7, ReadyStay DEF TypeOK
  <2> QED
    BY <2>1, <2>4, <2>5, <2>6, <2>8 DEF LoadsOnlyWhenReady
<1>5. CASE Poll
  <2>1. /\ flag' = flag /\ conn' = conn /\ scene' = scene /\ ready' = ready
        /\ syncPc' = syncPc /\ srv' = EmptyReset(srv)
    BY <1>5 DEF Poll, sessVars
  <2>2. Authed' = Authed
    BY <2>1 DEF Authed
  <2>3. /\ Serving(EmptyReset(srv), syncPc, Authed # {})
        /\ EmptyReset(srv).proc = "ROOM" => srv.proc = "ROOM" \/ Authed = {}
        /\ EmptyReset(srv).game = srv.game
    BY <1>0, ResetServes, NobodyIs
  <2>4. ReadyAreBack'
    BY <1>0, <2>1, <2>2, <2>3, ReadyStay
  <2> QED
    BY <2>1, <2>2, <2>3, <2>4 DEF LoadsOnlyWhenReady
<1>6. CASE OtherPacket
  <2>1. UNCHANGED <<flag, conn, scene, ready, syncPc>> /\ srv' = SwitchPhase(srv)
    BY <1>6 DEF OtherPacket, sessVars
  <2>2. Authed' = Authed
    BY <2>1 DEF Authed
  <2> QED
    BY <1>0, <2>1, <2>2, SwitchStep, ReadyStay DEF LoadsOnlyWhenReady
<1>7. ASSUME NEW s \in Slots, NEW b \in BOOLEAN, SetGameReady(s, b) PROVE Goal
  <2>1. /\ UNCHANGED <<flag, conn, scene, syncPc>> /\ srv' = SwitchPhase(srv)
        /\ scene[s] = "room" /\ \A t \in Slots \ {s} : ready'[t] = ready[t]
    BY <1>0, <1>7 DEF SetGameReady, RoomPacket, TypeOK
  <2>2. Authed' = Authed
    BY <2>1 DEF Authed
  <2>3. /\ Serving(srv, syncPc, Authed # {})'
        /\ srv'.proc = "ROOM" => srv.proc = "ROOM"
        /\ srv'.game = "LOAD" => srv.game = "LOAD"
    BY <2>1, SwitchStep
  <2>4. ReadyAreBack'
    BY <1>0, <2>1, <2>2, <2>3 DEF ReadyAreBack
  <2> QED
    BY <2>3, <2>4 DEF LoadsOnlyWhenReady
<1>8. ASSUME NEW s \in Slots, StartLoad(s) PROVE Goal
  <2> DEFINE v == [srv EXCEPT !.phase["ROOM"] = "LOAD"]
  <2>1. /\ UNCHANGED <<flag, conn, syncPc>> /\ srv' = SwitchPhase(v)
        /\ s \in Authed /\ scene[s] = "room" /\ srv.proc = "ROOM" /\ s = RoomMaster
        /\ ReadyAccepted(s)
        /\ ready' = [ready EXCEPT ![s] = TRUE]
        /\ scene' = [t \in Slots |-> IF t \in Authed THEN "game" ELSE scene[t]]
    BY <1>8 DEF StartLoad, RoomPacket
  <2>2. Authed' = Authed /\ Authed # {}
    BY <2>1 DEF Authed
  <2>3. srv.game = "ROOM"
    BY <1>0, <2>1, <2>2 DEF Serving
  <2>4. /\ v \in SrvType /\ v.proc = "ROOM" /\ v.game = "ROOM"
        /\ v.phase = [srv.phase EXCEPT !["ROOM"] = "LOAD"]
    BY <1>0, <2>1, <2>3 DEF SrvType, Phases
  <2> HIDE DEF v
  <2>5. /\ srv'.proc = "LOAD" /\ srv'.game = "LOAD"
        /\ srv'.phase = [v.phase EXCEPT !["LOAD"] = "LOAD"]
    <3>1. v.phase["ROOM"] = "LOAD"
      BY <1>0, <2>4 DEF Phases
    <3>2. SwitchPhase(v) = [LoadInit(v, "ROOM") EXCEPT !.game = "LOAD", !.proc = "LOAD"]
      BY <2>4, <3>1 DEF SwitchPhase, PhaseChanged, InitPhase
    <3> QED
      BY <2>1, <2>4, <3>2 DEF LoadInit, SrvType
  <2>6. Serving(srv', syncPc, TRUE)
    BY <1>0, <2>1, <2>4, <2>5 DEF Serving, Phases
  <2>7. Serving(srv, syncPc, Authed # {})'
    BY <2>1, <2>2, <2>6
  <2>8. ReadyAreBack'
    BY <1>0, <2>1, <2>2, <2>5 DEF ReadyAreBack
  <2>9. \A t \in Authed \ {s} : ready[t]
    BY <2>1 DEF ReadyAccepted
  <2>10. \A t \in Authed : ready'[t] /\ scene[t] = "room"
    <3> SUFFICES ASSUME NEW t \in Authed PROVE ready'[t] /\ scene[t] = "room"
      OBVIOUS
    <3>1. CASE t = s
      BY <1>0, <2>1, <3>1 DEF TypeOK
    <3>2. CASE t # s
      BY <1>0, <2>1, <2>9, <3>2 DEF TypeOK, ReadyAreBack
    <3> QED
      BY <3>1, <3>2
  <2> QED
    BY <2>7, <2>8, <2>10 DEF LoadsOnlyWhenReady
<1>9. ASSUME NEW s \in Slots, ReadyWithoutMaster(s) PROVE Goal
  <2>1. UNCHANGED <<flag, conn, scene, ready, syncPc, srv>>
    BY <1>9 DEF ReadyWithoutMaster, sessVars
  <2>2. Authed' = Authed
    BY <2>1 DEF Authed
  <2> QED
    BY <2>1, <2>2, ServingStays, ReadyStay DEF LoadsOnlyWhenReady
<1>10. ASSUME NEW s \in Slots, SetMove(s) PROVE Goal
  <2>1. UNCHANGED <<flag, conn, scene, ready, syncPc>> /\ srv' = SwitchPhase(srv)
    BY <1>10 DEF SetMove
  <2>2. Authed' = Authed
    BY <2>1 DEF Authed
  <2> QED
    BY <2>1, <2>2, SwitchStep, ReadyStay DEF LoadsOnlyWhenReady
<1>11. ASSUME NEW s \in Slots, SetTeamCount(s) PROVE Goal
  <2>1. /\ UNCHANGED <<flag, conn, scene, syncPc>> /\ srv' = SwitchPhase(srv)
        /\ \A t \in Slots : ready'[t] => ready[t]
    BY <1>0, <1>11 DEF SetTeamCount, ClearReady, TypeOK
  <2>2. Authed' = Authed
    BY <2>1 DEF Authed
  <2> QED
    BY <1>0, <2>1, <2>2, SwitchStep, ReadyStay DEF LoadsOnlyWhenReady
<1>12. ASSUME NEW s \in Slots, Confirm(s) PROVE Goal
  <2> DEFINE w == ReEnterMaster(srv)
  <2>1. /\ UNCHANGED <<flag, conn, syncPc>> /\ srv' = SwitchPhase(w)
        /\ ready' = [ready EXCEPT ![s] = FALSE] /\ scene' = [scene EXCEPT ![s] = "room"]
    BY <1>12 DEF Confirm
  <2>2. Authed' = Authed
    BY <2>1 DEF Authed
  <2>3. w \in SrvType /\ w.game = srv.game /\ w.proc = srv.proc /\ w.phase = srv.phase
    <3> DEFINE claim == {t \in Authed : master[t]}
    <3>1. claim # {} => First(claim) \in Slots
      BY FirstIsSlot DEF Authed
    <3> QED
      BY <1>0, <3>1 DEF ReEnterMaster, SrvType, Phases
  <2> HIDE DEF w
  <2>4. Serving(w, syncPc, Authed # {})
    BY <1>0, <2>3, PointersDoNotServe
  <2>5. /\ Serving(SwitchPhase(w), syncPc, Authed # {})
        /\ SwitchPhase(w).proc = "ROOM" => w.proc = "ROOM"
        /\ SwitchPhase(w).game = "LOAD" => w.game = "LOAD"
    BY <1>0, <2>3, <2>4, SwitchServes
  <2>6. ReadyAreBack'
    BY <1>0, <2>1, <2>2, <2>3, <2>5, ReadyStay DEF TypeOK
  <2> QED
    BY <2>1, <2>2, <2>3, <2>5, <2>6 DEF LoadsOnlyWhenReady
<1>13. ASSUME NEW s \in Slots, NEW clamp \in BOOLEAN, Disconnect(s, clamp) PROVE Goal
  <2>1. /\ flag' = [flag EXCEPT ![s] = FALSE] /\ conn' = [conn EXCEPT ![s] = "EMPTY"]
        /\ scene' = [scene EXCEPT ![s] = "login"] /\ syncPc' = syncPc
        /\ srv' = srv \/ srv' = [srv EXCEPT !.ptr[srv.proc] = LeavePtr(s)]
        /\ ready' = ready \/ ready' = RoomLeaveReady(s, clamp)
    BY <1>13 DEF Disconnect, ClearSession
  <2>2. Authed' = Authed \ {s}
    BY <1>0, <2>1 DEF Authed, TypeOK
  <2>3. srv'.game = srv.game /\ srv'.proc = srv.proc /\ srv'.phase = srv.phase
    BY <1>0, <2>1 DEF SrvType
  <2>4. \A t \in Slots : ready'[t] => ready[t]
    <3>1. Heirs(s) # {} => First(Heirs(s)) \in Slots
      BY FirstIsSlot DEF Heirs, Authed
    <3>2. \A t \in Slots : RoomLeaveReady(s, clamp)[t] => ready[t]
      BY <1>0, <3>1 DEF RoomLeaveReady, ClearReady, TypeOK
    <3> QED
      BY <2>1, <3>2
  <2>5. ReadyAreBack'
    BY <1>0, <2>1, <2>2, <2>3, <2>4, ReadyStay DEF TypeOK
  <2> QED
    BY <2>1, <2>2, <2>3, <2>5, ServingStays DEF LoadsOnlyWhenReady
<1> HIDE DEF Goal
<1> QED
  BY <1>1, <1>2, <1>3, <1>4, <1>5, <1>6, <1>7, <1>8, <1>9, <1>10, <1>11, <1>12,
     <1>13 DEF Receiver

LEMMA PhaseOthers ==
    ASSUME PhaseInv, TypeOK', Sender \/ Synchronizer \/ Dialog
    PROVE  PhaseInv' /\ LoadsOnlyWhenReady
<1> DEFINE Goal == /\ Serving(srv, syncPc, Authed # {})' /\ ReadyAreBack'
                   /\ LoadsOnlyWhenReady
<1> SUFFICES Goal
  BY DEF PhaseInv
<1>0. /\ srv \in SrvType /\ (Authed # {}) \in BOOLEAN /\ (Authed' # {}) \in BOOLEAN
      /\ Serving(srv, syncPc, Authed # {}) /\ ReadyAreBack /\ TypeOK
      /\ srv.game \in Phases /\ srv.proc \in Phases /\ srv.phase \in [Phases -> Phases]
      /\ \A s \in Authed : s \in Slots
  BY DEF PhaseInv, TypeOK, SrvType, Authed
<1>1. ASSUME NEW s \in Slots, SendError(s) PROVE Goal
  <2>1. /\ UNCHANGED <<flag, srv, syncPc, ready, scene>>
        /\ conn' = [conn EXCEPT ![s] = "DESTROY"]
    BY <1>1 DEF SendError
  <2>2. Authed' \subseteq Authed
    BY <1>0, <2>1 DEF Authed, TypeOK
  <2> QED
    BY <2>1, <2>2, ServingStays, ReadyStay DEF LoadsOnlyWhenReady
<1>2. CASE SyncRead \/ SyncFrame
  <2>1. /\ UNCHANGED <<flag, conn, srv, ready, scene>>
        /\ syncPc' \in {"idle", "main"} \/ (syncPc' = "load" /\ srv.game # "MAIN")
        /\ syncPc \notin {"init", "switch"}
    BY <1>2 DEF SyncRead, SyncFrame, sessVars
  <2>2. Authed' = Authed
    BY <2>1 DEF Authed
  <2>3. Serving(srv, syncPc, Authed # {})'
    BY <1>0, <2>1, <2>2 DEF Serving
  <2> QED
    BY <2>1, <2>2, <2>3, ReadyStay DEF LoadsOnlyWhenReady
<1>3. CASE LoadDone
  <2>1. /\ UNCHANGED <<flag, conn, ready, scene>> /\ syncPc = "load" /\ syncPc' = "init"
        /\ srv' = [srv EXCEPT !.phase[srv.proc] = "MAIN"]
    BY <1>3 DEF LoadDone, sessVars
  <2>2. Authed' = Authed
    BY <2>1 DEF Authed
  <2>3. /\ srv'.game = srv.game /\ srv'.proc = srv.proc
        /\ srv'.phase = [srv.phase EXCEPT ![srv.proc] = "MAIN"]
    BY <1>0, <2>1 DEF SrvType
  <2>4. Serving(srv, syncPc, Authed # {})'
    BY <1>0, <2>1, <2>2, <2>3 DEF Serving, Phases
  <2> QED
    BY <2>1, <2>2, <2>3, <2>4, ReadyStay DEF LoadsOnlyWhenReady
<1>4. CASE MainInitFromLoad
  <2>1. /\ UNCHANGED <<flag, conn, ready, scene>> /\ syncPc = "init" /\ syncPc' = "switch"
        /\ srv' = MainInit(srv, "LOAD")
    BY <1>4 DEF MainInitFromLoad, sessVars
  <2>2. Authed' = Authed
    BY <2>1 DEF Authed
  <2>3. /\ srv'.game = srv.game /\ srv'.proc = srv.proc
        /\ srv'.phase = [srv.phase EXCEPT !["MAIN"] = "MAIN"]
    BY <1>0, <2>1 DEF MainInit, SrvType
  <2>4. Serving(srv, syncPc, Authed # {})'
    BY <1>0, <2>1, <2>2, <2>3 DEF Serving, Phases
  <2> QED
    BY <2>1, <2>2, <2>3, <2>4, ReadyStay DEF LoadsOnlyWhenReady
<1>5. CASE SwitchToMain
  <2>1. /\ UNCHANGED <<flag, conn, ready, scene>> /\ syncPc = "switch" /\ syncPc' = "main"
        /\ srv' = [srv EXCEPT !.proc = "MAIN", !.game = "MAIN"]
    BY <1>5 DEF SwitchToMain, sessVars
  <2>2. Authed' = Authed
    BY <2>1 DEF Authed
  <2>3. srv'.game = "MAIN" /\ srv'.proc = "MAIN" /\ srv'.phase = srv.phase
    BY <1>0, <2>1 DEF SrvType
  <2>4. Serving(srv, syncPc, Authed # {})'
    BY <1>0, <2>1, <2>3 DEF Serving, Phases
  <2> QED
    BY <2>1, <2>2, <2>3, <2>4, ReadyStay DEF LoadsOnlyWhenReady
<1>6. CASE GameEnd
  <2> DEFINE v == [srv EXCEPT !.phase[srv.proc] = "ROOM"]
  <2>1. /\ syncPc' = "idle" /\ \A s \in Slots : ~ready'[s]
        /\ srv' = [RoomInit(v, "MAIN") EXCEPT !.proc = "ROOM", !.game = "ROOM"]
    BY <1>6 DEF GameEnd
  <2>2. v \in SrvType
    BY <1>0 DEF SrvType, Phases
  <2> HIDE DEF v
  <2>3. /\ srv'.game = "ROOM" /\ srv'.proc = "ROOM"
        /\ srv'.phase = [v.phase EXCEPT !["ROOM"] = "ROOM"] /\ v.phase \in [Phases -> Phases]
    BY <2>1, <2>2 DEF RoomInit, SrvType
  <2>4. Serving(srv, syncPc, Authed # {})'
    BY <2>1, <2>3 DEF Serving, Phases
  <2>5. ReadyAreBack'
    BY <2>1 DEF ReadyAreBack, Authed
  <2> QED
    BY <2>3, <2>4, <2>5 DEF LoadsOnlyWhenReady
<1>7. ASSUME NEW old \in Slots, NEW new \in Slots, GiveMaster(old, new) PROVE Goal
  <2>1. /\ UNCHANGED <<flag, conn, scene, syncPc>>
        /\ ready' = [ready EXCEPT ![old] = FALSE, ![new] = FALSE]
        /\ srv' = [srv EXCEPT !.ptr = [p \in Phases |-> new]]
    BY <1>7 DEF GiveMaster
  <2>2. Authed' = Authed /\ \A t \in Slots : ready'[t] => ready[t]
    BY <1>0, <2>1 DEF Authed, TypeOK
  <2>3. srv'.game = srv.game /\ srv'.proc = srv.proc /\ srv'.phase = srv.phase
    BY <1>0, <2>1 DEF SrvType
  <2> QED
    BY <1>0, <2>1, <2>2, <2>3, ServingStays, ReadyStay DEF LoadsOnlyWhenReady
<1>8. ASSUME NEW t \in Slots, UiChoose(t) PROVE Goal
  <2>1. UNCHANGED <<flag, conn, scene, ready, syncPc, srv>>
    BY <1>8 DEF UiChoose, sessVars
  <2>2. Authed' = Authed
    BY <2>1 DEF Authed
  <2> QED
    BY <2>1, <2>2, ServingStays, ReadyStay DEF LoadsOnlyWhenReady
<1>9. CASE Restart
  <2>1. /\ \A s \in Slots : ~flag'[s]
        /\ srv' = InitSrv /\ syncPc' = "idle"
    BY <1>9 DEF Restart
  <2>2. Serving(srv, syncPc, Authed # {})'
    BY <2>1 DEF Serving, InitSrv, Phases
  <2>3. ReadyAreBack'
    BY <2>1 DEF ReadyAreBack, Authed
  <2> QED
    BY <2>1, <2>2, <2>3 DEF LoadsOnlyWhenReady, InitSrv
<1> HIDE DEF Goal
<1>10. ASSUME NEW t \in Slots, UiSetMaster(t) PROVE Goal
  <2>1. srv.ptr[srv.proc] \in Slots /\ GiveMaster(srv.ptr[srv.proc], t)
    BY <1>0, <1>10 DEF UiSetMaster, MayBecomeMaster, SrvType
  <2> QED
    BY <1>7, <2>1
<1>11. CASE UiApply
  <2>1. ui.old \in Slots /\ ui.new \in Slots /\ GiveMaster(ui.old, ui.new)
    BY <1>0, <1>11 DEF UiApply, TypeOK
  <2> QED
    BY <1>7, <2>1
<1> QED
  BY <1>1, <1>2, <1>3, <1>4, <1>5, <1>6, <1>8, <1>9, <1>10, <1>11
     DEF Sender, Synchronizer, Dialog

LEMMA PhaseInvStep == PhaseInv /\ [Next]_vars => PhaseInv' /\ (LoadsOnlyWhenReady \/ UNCHANGED vars)
<1> SUFFICES ASSUME PhaseInv, [Next]_vars
             PROVE  PhaseInv' /\ (LoadsOnlyWhenReady \/ UNCHANGED vars)
  OBVIOUS
<1>1. CASE UNCHANGED vars
  BY <1>1 DEF PhaseInv, TypeOK, Serving, ReadyAreBack, Authed, vars, sessVars
<1>2. CASE Receiver
  BY <1>2, ReceiverType, PhaseReceiver DEF PhaseInv
<1>3. CASE Sender \/ Synchronizer \/ Dialog
  <2>1. TypeOK'
    BY <1>3, SenderType, SynchronizerType, DialogType DEF PhaseInv
  <2> QED
    BY <1>3, <2>1, PhaseOthers
<1> QED
  BY <1>1, <1>2, <1>3 DEF Next, Halted

LEMMA PhaseInvStart == Init => PhaseInv
<1> SUFFICES ASSUME Init PROVE PhaseInv
  OBVIOUS
<1>1. \A s \in Slots : ~flag[s]
  BY DEF Init
<1>2. srv = InitSrv /\ syncPc = "idle"
  BY DEF Init
<1>3. Serving(srv, syncPc, Authed # {})
  BY <1>2 DEF Serving, InitSrv, Phases
<1> QED
  BY <1>1, <1>3, InitType DEF PhaseInv, ReadyAreBack, Authed

(* Through the change from LOAD to MAIN, which takes no lock, the end of a   *)
(* game, the reset of an empty room and a sender and a dialog at any moment, *)
(* whoever is in is served by the processor of the phase that runs, and the  *)
(* room never handles a packet a second time.                               *)
THEOREM PhasesAgree == Spec => []ProcessorsAgree
<1>1. PhaseInv => ProcessorsAgree
  <2> SUFFICES ASSUME PhaseInv PROVE PhaseAgreement /\ RoomHandlesOnce
    BY DEF ProcessorsAgree
  <2>1. srv.game \in Phases /\ srv.proc \in Phases
    BY DEF PhaseInv, TypeOK, SrvType
  <2> QED
    BY <2>1 DEF PhaseInv, Serving, PhaseAgreement, RoomHandlesOnce, PhaseChanged, Phases
<1> QED
  BY <1>1, PhaseInvStart, PhaseInvStep, PTL DEF Spec

(* No game starts over somebody who still looks at the result of the last    *)
(* one, or who has taken the ready flag back (CPacketProcRoom::SetGameReady, *)
(* CPacketProcLoad::Init).                                                  *)
THEOREM GamesStartReady == Spec => StartsWithEveryoneReady
<1>1. PhaseInv /\ [Next]_vars =>
        [srv.game = "ROOM" /\ srv'.game = "LOAD"
           => \A s \in Authed : ready'[s] /\ scene[s] = "room"]_vars
  BY PhaseInvStep DEF LoadsOnlyWhenReady
<1>2. PhaseInv /\ [Next]_vars => PhaseInv'
  BY PhaseInvStep
<1> QED
  BY <1>1, <1>2, PhaseInvStart, PTL DEF Spec, StartsWithEveryoneReady

=============================================================================
