------------------------------ MODULE Closing -------------------------------
(***************************************************************************)
(* How a connection is closed: DisconnectSession step by step, called by the *)
(* receiver thread when a connection breaks and by the operator's dialog     *)
(* when it kicks somebody, against the receiver's accepting of connections.  *)
(* (Lobby takes a departure as one step and looks at who inherits what.)     *)
(*                                                                         *)
(* The flag of a slot is tested without a lock, the receiver adds to         *)
(* g_nSessionCount without one, and both threads wait for more than locks:   *)
(* a message to the window (a line of the log, a name of the list) returns   *)
(* when the dialog's thread takes messages again, which it does not while a   *)
(* click waits for a lock.  The server is in the room, where no handler      *)
(* takes the Lua or Object lock, which the kick takes as well.               *)
(***************************************************************************)
EXTENDS Integers, FiniteSets

CONSTANTS
    MaxSession,  \* g_nMaxLoginNum: the slots of the session table
    MaxKicks     \* bound: kicks between two starts of the server

ASSUME ClosingAssumption == MaxSession \in Nat \ {0} /\ MaxKicks \in Nat

Seats   == 0 .. MaxSession - 1
Locks   == {"Session", "Packet", "Log"}
Threads == {"receiver", "dialog"}

VARIABLES
    used,         \* the slots whose flag is set
    list,         \* the users in the dialog's list box, by their slots
    userCount,    \* m_dwUserCount
    sessionCount, \* g_nSessionCount
    owner,        \* who has entered a lock, "nobody" if it is free
    receiver,     \* where the receiver thread is
    leaver,       \* the slot of the session it closes or lets in
    told,         \* what it is telling the window: "log" and "window" are the
                  \* two halves of AddMessageLog
    sum,          \* g_nSessionCount as it has read it
    dialog,       \* where the dialog's thread is; "idle": it takes messages
    choice,       \* nUserIndex
    listed,       \* nListCount
    rest,         \* g_nSessionCount as the dialog has read it
    kicks,        \* kicks so far
    raced         \* the windows the other thread came into (history)

tableVars   == <<used, list, userCount>>
receiverVars == <<receiver, leaver, told, sum>>
dialogVars  == <<dialog, choice, listed, rest, kicks, raced>>
closingVars == <<tableVars, sessionCount, owner, receiverVars, dialogVars>>

InitClosing ==
    /\ used = {} /\ list = {} /\ userCount = 0 /\ sessionCount = 0
    /\ owner = [l \in Locks |-> "nobody"]
    /\ receiver = "idle" /\ leaver = 0 /\ told = "nothing" /\ sum = 0
    /\ dialog = "idle" /\ choice = 0 /\ listed = 0 /\ rest = 0 /\ kicks = 0
    /\ raced = {}

\* Critical sections are recursive.
MayEnter(l, t) == owner[l] \in {"nobody", t}
Entered(S, t)  == owner' = [l \in Locks |-> IF l \in S THEN t ELSE owner[l]]
Left(S)        == owner' = [l \in Locks |-> IF l \in S THEN "nobody" ELSE owner[l]]

-----------------------------------------------------------------------------
(* What the receiver tells the window. *)

\* AddMessageLog enters the lock of the log.
EnterLog ==
    /\ told = "log" /\ MayEnter("Log", "receiver")
    /\ Entered({"Log"}, "receiver") /\ told' = "window"
    /\ UNCHANGED <<tableVars, sessionCount, receiver, leaver, sum, dialogVars>>

\* Mutant: names are not taken off the list.
ListAfterGrowing == IF told = "insert" THEN list \cup {leaver} ELSE list
\* InsertUserList, DeleteUserList
ListAfter ==
    CASE told = "insert" -> list \cup {leaver}
      [] told = "delete" -> list \ {leaver}
      [] OTHER -> list

\* Mutant: the line is written and the lock kept.
LeftAfterKept == {}
\* AddMessageLog leaves the lock of the log.
LeftAfter == IF told = "window" THEN {"Log"} ELSE {}

\* The dialog's thread answers.
Answered ==
    /\ told \in {"window", "insert", "delete"} /\ dialog = "idle"
    /\ told' = "nothing"
    /\ Left(LeftAfter)
    /\ list' = ListAfter
    /\ UNCHANGED <<used, userCount, sessionCount, receiver, leaver, sum, dialogVars>>

-----------------------------------------------------------------------------
(* The receiver accepts: NewUserSession, then g_nSessionCount += newUser.    *)

\* CreateSession takes the first free slot.
NewUserSession(s) ==
    /\ receiver = "idle" /\ MayEnter("Session", "receiver")
    /\ s \notin used /\ \A t \in Seats \ used : s <= t
    /\ Entered({"Session"}, "receiver")
    /\ used' = used \cup {s} /\ userCount' = userCount + 1
    /\ told' = "log" /\ receiver' = "created"
    /\ UNCHANGED <<list, sessionCount, leaver, sum, dialogVars>>

Created ==
    /\ receiver = "created" /\ told = "nothing"
    /\ Left({"Session"}) /\ receiver' = "load"
    /\ UNCHANGED <<tableVars, sessionCount, leaver, told, sum, dialogVars>>

\* The two halves of the addition, which no lock holds together.
LoadCount ==
    /\ receiver = "load"
    /\ sum' = sessionCount /\ receiver' = "add"
    /\ UNCHANGED <<tableVars, sessionCount, owner, leaver, told, dialogVars>>

AddCount ==
    /\ receiver = "add"
    /\ sessionCount' = sum + 1 /\ receiver' = "idle"
    /\ UNCHANGED <<tableVars, owner, leaver, told, sum, dialogVars>>

\* The packet that ends a login: CPacketProcRoom::AddNewUser, in PacketProc.
AddToList(s) ==
    /\ receiver = "idle" /\ MayEnter("Session", "receiver")
    /\ userCount # 0 /\ s \in used \ list
    /\ Entered({"Session"}, "receiver")
    /\ leaver' = s /\ told' = "insert" /\ receiver' = "listed"
    /\ UNCHANGED <<tableVars, sessionCount, sum, dialogVars>>

Listed ==
    /\ receiver = "listed" /\ told = "nothing"
    /\ Left({"Session"}) /\ receiver' = "idle"
    /\ UNCHANGED <<tableVars, sessionCount, leaver, told, sum, dialogVars>>

-----------------------------------------------------------------------------
(* The receiver closes a connection: DisconnectSession. *)

\* A connection has broken; GetSessionFirst finds nobody if the count is 0.
Broken(s) ==
    /\ receiver = "idle" /\ userCount # 0 /\ s \in used
    /\ leaver' = s /\ told' = "log" /\ receiver' = "test"
    /\ UNCHANGED <<tableVars, sessionCount, owner, sum, dialogVars>>

\* Mutant: the flag is not tested.
AfterTestBlind(s) == "enter"
\* if (!GetFlag(sess->sess_index)) return;
AfterTest(s) == IF s \in used THEN "enter" ELSE "idle"

TestFlag ==
    /\ receiver = "test" /\ told = "nothing"
    /\ receiver' = AfterTest(leaver)
    /\ UNCHANGED <<tableVars, sessionCount, owner, leaver, told, sum, dialogVars>>

\* The processors, then DeleteUserList.
EnterSession ==
    /\ receiver = "enter" /\ MayEnter("Session", "receiver")
    /\ Entered({"Session"}, "receiver")
    /\ told' = "delete" /\ receiver' = "clear"
    /\ UNCHANGED <<tableVars, sessionCount, leaver, sum, dialogVars>>

\* ClearSession up to its line in the log.
ClearSession ==
    /\ receiver = "clear" /\ told = "nothing"
    /\ userCount' = userCount - 1
    /\ told' = "log" /\ receiver' = "reset"
    /\ UNCHANGED <<used, list, sessionCount, owner, leaver, sum, dialogVars>>

ResetSession ==
    /\ receiver = "reset" /\ told = "nothing"
    /\ used' = used \ {leaver}
    /\ Left({"Session"}) /\ receiver' = "packet"
    /\ UNCHANGED <<list, userCount, sessionCount, leaver, told, sum, dialogVars>>

\* The packets of the departure are enqueued, and the count goes down.
Uncount ==
    /\ receiver = "packet" /\ MayEnter("Packet", "receiver")
    /\ Entered({"Packet"}, "receiver")
    /\ sessionCount' = sessionCount - 1
    /\ told' = "log" /\ receiver' = "uncounted"
    /\ UNCHANGED <<tableVars, leaver, sum, dialogVars>>

LeavePacket ==
    /\ receiver = "uncounted" /\ told = "nothing"
    /\ Left({"Packet"}) /\ receiver' = "judge"
    /\ UNCHANGED <<tableVars, sessionCount, leaver, told, sum, dialogVars>>

\* Mutant: the last one does not count.
NobodyLeftButOne == sessionCount <= 1
\* if (g_nSessionCount == 0)
NobodyLeft == sessionCount = 0

\* The restart is asked of the dialog's thread.
Judge ==
    /\ receiver = "judge"
    /\ receiver' = IF NobodyLeft THEN "restart" ELSE "idle"
    /\ UNCHANGED <<tableVars, sessionCount, owner, leaver, told, sum, dialogVars>>

-----------------------------------------------------------------------------
(* The dialog: OnUserKick and the DisconnectSession of KickUser. *)

\* The operator clicks on a name of the list.
SelectUser(s) ==
    /\ dialog = "idle" /\ kicks < MaxKicks /\ s \in list
    /\ choice' = s /\ dialog' = "index" /\ kicks' = kicks + 1
    /\ UNCHANGED <<tableVars, sessionCount, owner, receiverVars, listed, rest, raced>>

\* GetUserIndexFromUserName, which looks for the name under the Session lock.
UserIndex ==
    /\ dialog = "index" /\ MayEnter("Session", "dialog")
    /\ IF choice \in used \cap list
         THEN dialog' = "packet" /\ listed' = Cardinality(list)
         ELSE dialog' = "idle" /\ UNCHANGED listed
    /\ UNCHANGED <<tableVars, sessionCount, owner, receiverVars, choice, rest, kicks, raced>>

\* The locks of the kick, one after the other.
KickEnters(l, from, to) ==
    /\ dialog = from /\ MayEnter(l, "dialog")
    /\ Entered({l}, "dialog") /\ dialog' = to
    /\ UNCHANGED <<tableVars, sessionCount, receiverVars, choice, listed, rest, kicks, raced>>

KickTakesLocks ==
    \/ KickEnters("Packet", "packet", "log")
    \/ KickEnters("Log", "log", "session")
    \/ KickEnters("Session", "session", "test")

KickTests ==
    /\ dialog = "test"
    /\ dialog' = IF choice \in used THEN "clear" ELSE "leave"
    /\ UNCHANGED <<tableVars, sessionCount, owner, receiverVars, choice, listed, rest, kicks, raced>>

\* DeleteUserList and ClearSession; the receiver may have tested the flag.
KickClears ==
    /\ dialog = "clear"
    /\ list' = list \ {choice} /\ used' = used \ {choice} /\ userCount' = userCount - 1
    /\ raced' = IF receiver = "enter" /\ leaver = choice THEN raced \cup {"test"} ELSE raced
    /\ dialog' = "load"
    /\ UNCHANGED <<sessionCount, owner, receiverVars, choice, listed, rest, kicks>>

\* g_nSessionCount--; the receiver may be about to add a connection.
KickLoads ==
    /\ dialog = "load"
    /\ rest' = sessionCount
    /\ raced' = IF receiver \in {"load", "add"} THEN raced \cup {"accept"} ELSE raced
    /\ dialog' = "uncount"
    /\ UNCHANGED <<tableVars, sessionCount, owner, receiverVars, choice, listed, kicks>>

KickUncounts ==
    /\ dialog = "uncount"
    /\ sessionCount' = rest - 1 /\ dialog' = "judge"
    /\ UNCHANGED <<tableVars, owner, receiverVars, choice, listed, rest, kicks, raced>>

KickJudges ==
    /\ dialog = "judge"
    /\ dialog' = IF NobodyLeft THEN "restart" ELSE "leave"
    /\ UNCHANGED <<tableVars, sessionCount, owner, receiverVars, choice, listed, rest, kicks, raced>>

\* Mutant: two names are not enough.
LeavesLocksOfThree == listed > 2
\* if (nListCount>1)
LeavesLocks == listed > 1

KickLeaves ==
    /\ dialog = "leave"
    /\ IF LeavesLocks THEN Left(Locks) ELSE UNCHANGED owner
    /\ dialog' = "idle"
    /\ UNCHANGED <<tableVars, sessionCount, receiverVars, choice, listed, rest, kicks, raced>>

\* WM_NULL: StopServer ends the threads and deletes the table and the locks.
RestartServer ==
    /\ dialog = "restart" \/ (dialog = "idle" /\ receiver = "restart")
    /\ used' = {} /\ list' = {} /\ userCount' = 0 /\ sessionCount' = 0
    /\ owner' = [l \in Locks |-> "nobody"]
    /\ receiver' = "idle" /\ leaver' = 0 /\ told' = "nothing" /\ sum' = 0
    /\ dialog' = "idle" /\ choice' = 0 /\ listed' = 0 /\ rest' = 0 /\ kicks' = 0
    /\ raced' = {}

-----------------------------------------------------------------------------
ReceiverStep ==
    \/ EnterLog \/ Answered \/ Created \/ LoadCount \/ AddCount \/ Listed
    \/ TestFlag \/ EnterSession \/ ClearSession \/ ResetSession
    \/ Uncount \/ LeavePacket \/ Judge
    \/ \E s \in Seats : NewUserSession(s) \/ AddToList(s) \/ Broken(s)

DialogStep ==
    \/ UserIndex \/ KickTakesLocks \/ KickTests \/ KickClears \/ KickLoads
    \/ KickUncounts \/ KickJudges \/ KickLeaves
    \/ \E s \in Seats : SelectUser(s)

NextClosing == ReceiverStep \/ DialogStep \/ RestartServer

SpecClosing == InitClosing /\ [][NextClosing]_closingVars

-----------------------------------------------------------------------------
(* Properties. *)

TypeOKClosing ==
    /\ used \in SUBSET Seats /\ list \in SUBSET used
    /\ userCount \in Int /\ sessionCount \in Int /\ sum \in Int /\ rest \in Int
    /\ owner \in [Locks -> Threads \cup {"nobody"}]
    /\ receiver \in {"idle", "created", "load", "add", "listed", "test", "enter", "clear",
                     "reset", "packet", "uncounted", "judge", "restart"}
    /\ told \in {"nothing", "log", "window", "insert", "delete"}
    /\ dialog \in {"idle", "index", "packet", "log", "session", "test", "clear", "load",
                   "uncount", "judge", "leave", "restart"}
    /\ leaver \in Seats /\ choice \in Seats /\ listed \in Nat
    /\ kicks \in 0 .. MaxKicks /\ raced \in SUBSET {"test", "accept"}

\* Those who are counted and have no slot any more.
Due == (IF receiver = "packet" THEN 1 ELSE 0)
       + (IF dialog \in {"load", "uncount"} THEN 1 ELSE 0)
\* Those who have a slot and are not counted yet.
ToCome == IF receiver \in {"created", "load", "add"} THEN 1 ELSE 0

\* Both counts are exact, up to what the threads are about to add or take
\* off, unless a kick came between the test of a flag and its lock, or between
\* an accepted connection and its addition.
CountsAreExact ==
    /\ "test" \notin raced =>
          userCount = Cardinality(used) - (IF receiver = "reset" THEN 1 ELSE 0)
    /\ raced = {} => sessionCount = Cardinality(used) + Due - ToCome

\* The server is restarted when nobody is connected, but for those two races.
RestartIsOfNobody ==
    raced = {} /\ "restart" \in {receiver, dialog} => used = {}

\* A kick keeps its locks only when nobody is left in the list; but then it
\* does harm: somebody is connected who will not be served, or a departure
\* waits for ever.
KeptLocksHurt ==
    dialog = "idle" /\ owner["Packet"] = "dialog" =>
        /\ list = {}
        /\ raced = {} => used # {} \/ receiver = "packet"

\* The receiver and the dialog wait for each other.
Standstill ==
    /\ \/ told = "log" /\ owner["Log"] = "dialog"
       \/ told \in {"window", "insert", "delete"} /\ dialog # "idle"
       \/ told = "nothing" /\ receiver = "enter" /\ owner["Session"] = "dialog"
       \/ told = "nothing" /\ receiver = "packet" /\ owner["Packet"] = "dialog"
    /\ \/ dialog \in {"index", "session"} /\ owner["Session"] = "receiver"
       \/ dialog = "packet" /\ owner["Packet"] = "receiver"
       \/ dialog = "log" /\ owner["Log"] = "receiver"

\* They do so only over the log and the window: the receiver holds neither the
\* Session nor the Packet lock when it waits for the other of the two.
StandstillIsOverTheWindow == Standstill => told # "nothing"

\* Whatever two threads do to a slot between them, counts, restarts and locks
\* are right but for what is named in the four.
ClosingIsSound ==
    CountsAreExact /\ RestartIsOfNobody /\ KeptLocksHurt /\ StandstillIsOverTheWindow

\* Does not hold: the check of the flag keeps a session from being cleared twice.
ClearedOnce == receiver = "clear" => leaver \in used

\* Does not hold: the restart is that of a server with 0 connections.
RestartMeansNobody == "restart" \in {receiver, dialog} => used = {}

\* Does not hold: the dialog keeps no lock when it is done.
LocksComeFree == dialog = "idle" => \A l \in Locks : owner[l] # "dialog"

\* Does not hold: the threads never wait for each other.
NoStandstill == ~Standstill
=============================================================================
