----------------------------- MODULE SlotsProof -----------------------------
(***************************************************************************)
(* Proofs about the slots of the session table.  While the stage is loaded *)
(* (LoadGate), the gate passes no player who has not loaded and kicks nobody*)
(* it has not asked.  When a connection is closed (Closing), the counts are*)
(* exact but for two races, and the two threads that close connections wait*)
(* for each other only over the window.                                    *)
(***************************************************************************)
EXTENDS Slots, TLAPS, FiniteSetTheorems

-----------------------------------------------------------------------------
(* The gate of the phase LOAD.                                             *)

(* A player whose time runs was sent the question.  The slot may change    *)
(* hands while the gate waits at it: its new user is no player, because the*)
(* login zeroes the slot.                                                  *)
TimedWereAsked == gate.time > 0 /\ gate.index \in Players => gate.index \in asked

GateInv == TypeOK /\ PassedMeansLoaded /\ TimedWereAsked

-----------------------------------------------------------------------------
(* The users the first frame counts.                                       *)

LEMMA AuthedIsCounted ==
    /\ IsFiniteSet(Slots) /\ Cardinality(Slots) = MaxLogin
    /\ IsFiniteSet(Authed) /\ Cardinality(Authed) \in 0 .. MaxLogin
<1>1. IsFiniteSet(Slots) /\ Cardinality(Slots) = MaxLogin
  BY SizeAssumption, FS_Interval DEF Slots
<1>2. Authed \subseteq Slots
  BY DEF Authed
<1>3. /\ IsFiniteSet(Authed) /\ Cardinality(Authed) <= Cardinality(Slots)
      /\ Cardinality(Authed) \in Nat
  BY <1>1, <1>2, FS_Subset, FS_CardinalityType
<1> QED
  BY <1>1, <1>3, SizeAssumption

(* Counting moves neither the place of the gate nor its clock.             *)
LEMMA CountedIs ==
    ASSUME TypeOK
    PROVE  /\ Counted(gate) \in [index : 0 .. MaxLogin, wait : 0 .. WaitTime,
                                 time : 0 .. SynTimeout, users : 0 .. MaxLogin]
           /\ Counted(gate).index = gate.index /\ Counted(gate).time = gate.time
<1> DEFINE u == IF gate.wait = 0 THEN Cardinality(Authed) ELSE gate.users
           w == IF gate.wait < WaitTime THEN gate.wait + 1 ELSE gate.wait
<1>1. u \in 0 .. MaxLogin /\ w \in 0 .. WaitTime
  BY AuthedIsCounted, FrameAssumption DEF TypeOK
<1>2. Counted(gate) = [gate EXCEPT !.users = u, !.wait = w]
  BY DEF Counted, TypeOK
<1> HIDE DEF u, w
<1> QED
  BY <1>1, <1>2 DEF TypeOK

-----------------------------------------------------------------------------
(* The steps.                                                              *)

LEMMA GateStarts == Init => GateInv
<1> SUFFICES ASSUME Init PROVE GateInv
  OBVIOUS
<1>1. TypeOK
  <2>1. gate \in [index : 0 .. MaxLogin, wait : 0 .. WaitTime,
                  time : 0 .. SynTimeout, users : 0 .. MaxLogin]
    BY SizeAssumption, FrameAssumption DEF Init
  <2>2. /\ conn \in [Slots -> {"AUTHED", "DESTROY", "EMPTY"}]
        /\ obj \in [Slots -> {"LOADING", "LOADCOMPLETE", "ROOM", "EMPTY"}]
    BY DEF Init
  <2> QED
    BY <2>1, <2>2 DEF Init, TypeOK
<1>2. \A s \in Players : ~(s < gate.index)
  BY SizeAssumption DEF Init, Players, Authed, Slots
<1> QED
  BY <1>1, <1>2 DEF Init, GateInv, PassedMeansLoaded, TimedWereAsked

(* The clients' steps leave the gate where it is.                          *)
LEMMA ReceiverKeepsGate ==
    ASSUME GateInv, Receiver
    PROVE  GateInv'
<1> USE DEF GateInv
<1>1. PICK s \in Slots : SetLoadComplete(s) \/ Disconnect(s) \/ LateLogin(s) \/ SendError(s)
  BY DEF Receiver
<1>2. gate' = gate /\ next' = next
  BY <1>1 DEF SetLoadComplete, Disconnect, LateLogin, SendError
<1>3. CASE SetLoadComplete(s)
  <2>1. TypeOK' /\ Players' = Players /\ asked' = asked
    BY <1>2, <1>3 DEF SetLoadComplete, TypeOK, Players, Authed
  <2> QED
    BY <1>2, <1>3, <2>1 DEF SetLoadComplete, TypeOK, PassedMeansLoaded, TimedWereAsked,
       Players, Authed
<1>4. CASE Disconnect(s)
  <2>1. TypeOK' /\ Players' = Players \ {s} /\ asked' = asked \ {s}
    BY <1>2, <1>4 DEF Disconnect, Leave, TypeOK, Players, Authed
  <2> QED
    BY <1>2, <1>4, <2>1 DEF Disconnect, Leave, TypeOK, PassedMeansLoaded, TimedWereAsked,
       Players, Authed
<1>5. CASE LateLogin(s)
  <2>1. TypeOK' /\ Players' = Players /\ asked' = asked
    BY <1>2, <1>5 DEF LateLogin, CreateSession, TypeOK, Players, Authed
  <2> QED
    BY <1>2, <1>5, <2>1 DEF LateLogin, TypeOK, PassedMeansLoaded, TimedWereAsked,
       Players, Authed
<1>6. CASE SendError(s)
  <2>1. TypeOK' /\ Players' = Players \ {s} /\ asked' = asked
    BY <1>2, <1>6 DEF SendError, TypeOK, Players, Authed
  <2> QED
    BY <1>2, <1>6, <2>1 DEF SendError, TypeOK, PassedMeansLoaded, TimedWereAsked
<1> QED
  BY <1>1, <1>3, <1>4, <1>5, <1>6

(* A frame that does not leave its slot.                                   *)
LEMMA StayingKeepsGate ==
    ASSUME GateInv, FrameWait \/ FrameNext \/ FrameAsk \/ FrameIdle
    PROVE  GateInv'
<1> USE DEF GateInv
<1>1. UNCHANGED sessVars /\ Players' = Players /\ gate'.index = gate.index
  BY CountedIs DEF FrameWait, FrameNext, FrameAsk, FrameIdle, sessVars, Players, Authed,
     Tick
<1>2. PassedMeansLoaded'
  BY <1>1 DEF PassedMeansLoaded, sessVars
<1>3. CASE FrameWait \/ FrameNext
  BY <1>1, <1>2, <1>3, CountedIs
  DEF FrameWait, FrameNext, TypeOK, TimedWereAsked, sessVars
<1>4. CASE FrameAsk
  <2>1. gate' = Tick(Counted(gate)) /\ gate.time = 0 /\ asked' = asked \cup {gate.index}
    BY <1>4 DEF FrameAsk
  <2>2. gate.index \in Slots
    BY <1>4 DEF FrameAsk, Players, Authed
  <2>3. gate' \in [index : 0 .. MaxLogin, wait : 0 .. WaitTime,
                   time : 0 .. SynTimeout, users : 0 .. MaxLogin]
    BY <2>1, CountedIs, FrameAssumption DEF Tick
  <2> QED
    BY <1>1, <1>2, <1>4, <2>1, <2>2, <2>3 DEF FrameAsk, TypeOK, TimedWereAsked, sessVars
<1>5. CASE FrameIdle
  <2>1. gate' = Tick(Counted(gate)) /\ gate.time > 0 /\ gate.index \in Players /\ asked' = asked
    BY <1>5 DEF FrameIdle
  <2>2. gate.time + 1 <= SynTimeout
    BY <1>5, FrameAssumption DEF FrameIdle, TimesOut, Tick, TypeOK
  <2>3. gate' \in [index : 0 .. MaxLogin, wait : 0 .. WaitTime,
                   time : 0 .. SynTimeout, users : 0 .. MaxLogin]
    BY <2>1, <2>2, CountedIs, FrameAssumption DEF Tick
  <2> QED
    BY <1>1, <1>2, <1>5, <2>1, <2>3 DEF FrameIdle, TypeOK, TimedWereAsked, sessVars
<1> QED
  BY <1>3, <1>4, <1>5

(* A frame that goes on to the next slot leaves behind nobody, a player who*)
(* has loaded, or a slot it has just cleared.                              *)
LEMMA LeavingKeepsGate ==
    ASSUME GateInv, FrameSkip \/ FrameLoaded \/ FrameKick
    PROVE  GateInv'
<1> USE DEF GateInv
<1>1. /\ gate' = NextIndex(Counted(gate)) /\ gate.index < Counted(gate).users
      /\ next' = next
  BY DEF FrameSkip, FrameLoaded, FrameKick, AtSlot
<1>2. /\ gate' \in [index : 0 .. MaxLogin, wait : 0 .. WaitTime,
                    time : 0 .. SynTimeout, users : 0 .. MaxLogin]
      /\ gate'.index = gate.index + 1 /\ gate'.time = 0 /\ gate.index \in Nat
  <2> DEFINE g == Counted(gate)
  <2>1. /\ g \in [index : 0 .. MaxLogin, wait : 0 .. WaitTime,
                   time : 0 .. SynTimeout, users : 0 .. MaxLogin]
        /\ g.index = gate.index /\ g.index < g.users
        /\ gate' = [g EXCEPT !.index = @ + 1, !.time = 0]
    BY <1>1, CountedIs DEF NextIndex
  <2> HIDE DEF g
  <2>2. g.index + 1 \in 0 .. MaxLogin /\ 0 \in 0 .. SynTimeout /\ g.index \in Nat
    BY <2>1, SizeAssumption, FrameAssumption
  <2> QED
    BY <2>1, <2>2
<1>3. TimedWereAsked'
  BY <1>2 DEF TimedWereAsked
<1>4. \A s \in Slots : s < gate'.index => s < gate.index \/ s = gate.index
  BY <1>2, SizeAssumption DEF Slots
<1>5. CASE FrameSkip \/ FrameLoaded
  <2>1. UNCHANGED <<sessVars, asked>> /\ Players' = Players
    BY <1>5 DEF FrameSkip, FrameLoaded, sessVars, Players, Authed
  <2>2. TypeOK'
    BY <1>1, <1>2, <2>1 DEF TypeOK, sessVars
  <2>3. gate.index \in Players => obj[gate.index] = "LOADCOMPLETE"
    BY <1>5 DEF FrameSkip, FrameLoaded
  <2>4. PassedMeansLoaded'
    BY <1>4, <2>1, <2>3 DEF PassedMeansLoaded, sessVars, Players, Authed
  <2> QED
    BY <1>3, <2>2, <2>4
<1>6. CASE FrameKick
  <2>1. gate.index \in Slots /\ Leave(gate.index)
    BY <1>6 DEF FrameKick, Players, Authed
  <2>2. TypeOK'
    BY <1>1, <1>2, <2>1 DEF TypeOK, Leave
  <2>3. /\ Players' = Players \ {gate.index}
        /\ \A s \in Slots \ {gate.index} : obj'[s] = obj[s]
    BY <2>1 DEF TypeOK, Leave, Players, Authed
  <2>4. PassedMeansLoaded'
    BY <1>4, <2>3 DEF PassedMeansLoaded, Players, Authed
  <2> QED
    BY <1>3, <2>2, <2>4
<1> QED
  BY <1>5, <1>6

LEMMA GateStep == GateInv /\ [Next]_vars => GateInv'
<1> SUFFICES ASSUME GateInv, [Next]_vars PROVE GateInv'
  OBVIOUS
<1>1. CASE Frame
  BY <1>1, StayingKeepsGate, LeavingKeepsGate DEF Frame
<1>2. CASE Receiver
  BY <1>2, ReceiverKeepsGate
<1>3. CASE Over \/ UNCHANGED vars
  BY <1>3 DEF Over, vars, sessVars, GateInv, TypeOK, PassedMeansLoaded, TimedWereAsked,
     Players, Authed
<1> QED
  BY <1>1, <1>2, <1>3 DEF Next

LEMMA GateIsKept == Spec => []GateInv
BY GateStarts, GateStep, PTL DEF Spec

-----------------------------------------------------------------------------
(* The types of CSyncLoad's counters: the index stays inside the table and *)
(* the clock inside its limit.                                             *)
THEOREM GateIsTyped == Spec => []TypeOK
<1>1. GateInv => TypeOK
  BY DEF GateInv
<1> QED
  BY <1>1, GateIsKept, PTL

(* Every player in a slot the gate has left behind has loaded, however     *)
(* users come, go, fail and load while CSyncLoad::Frame walks the table.   *)
THEOREM PassedHaveLoaded == Spec => []PassedMeansLoaded
<1>1. GateInv => PassedMeansLoaded
  BY DEF GateInv
<1> QED
  BY <1>1, GateIsKept, PTL

(* CSyncLoad kicks only a player it has asked, however the slot changed    *)
(* hands while it waited.                                                  *)
THEOREM OnlyTheAskedAreKicked == Spec => AskedBeforeKicked
<1>1. ASSUME GateInv, [Next]_vars, NEW s \in Slots,
             gate'.index # gate.index, conn[s] # "EMPTY", conn'[s] = "EMPTY"
      PROVE  s \in asked
  <2>1. CASE Frame
    <3>1. CASE FrameKick
      <4>1. Leave(gate.index) /\ gate.index \in Players /\ gate.time > 0
        BY <3>1 DEF FrameKick
      <4>2. s = gate.index
        BY <1>1, <4>1 DEF Leave, GateInv, TypeOK
      <4> QED
        BY <1>1, <4>1, <4>2 DEF GateInv, TimedWereAsked
    <3>2. CASE ~FrameKick
      BY <1>1, <2>1, <3>2 DEF Frame, FrameWait, FrameNext, FrameSkip, FrameAsk, FrameLoaded,
         FrameIdle, sessVars
    <3> QED
      BY <3>1, <3>2
  <2>2. CASE Receiver
    BY <1>1, <2>2 DEF Receiver, SetLoadComplete, Disconnect, LateLogin, SendError
  <2>3. CASE Over \/ UNCHANGED vars
    BY <1>1, <2>3 DEF Over, vars
  <2> QED
    BY <1>1, <2>1, <2>2, <2>3 DEF Next
<1>2. GateInv /\ [Next]_vars
        => [\A s \in Slots : gate'.index # gate.index /\ conn[s] # "EMPTY" /\ conn'[s] = "EMPTY"
              => s \in asked]_vars
  BY <1>1
<1> QED
  BY <1>2, GateIsKept, PTL DEF Spec, AskedBeforeKicked

-----------------------------------------------------------------------------
(* How a connection is closed.                                             *)

\* Where the dialog has all the locks of the kick.
Inside == {"test", "clear", "load", "uncount", "judge", "leave", "restart"}

\* Who has entered which lock, by where he is.
Holds ==
    /\ owner["Session"] = "receiver" <=> receiver \in {"created", "listed", "clear", "reset"}
    /\ owner["Packet"] = "receiver" <=> receiver = "uncounted"
    /\ owner["Log"] = "receiver" <=> told = "window"
    /\ dialog \in Inside => owner["Session"] = "dialog"
    /\ dialog \in Inside \cup {"session"} => owner["Log"] = "dialog"
    /\ dialog \in Inside \cup {"session", "log"} => owner["Packet"] = "dialog"
    /\ dialog \in {"index", "packet"} => owner["Packet"] # "dialog"
    /\ dialog = "idle" /\ owner["Packet"] = "dialog" => owner["Session"] = "dialog"

\* What the receiver is waiting for an answer to, by where it is.
Tells ==
    /\ told = "insert" => receiver = "listed"
    /\ told = "delete" => receiver = "clear"
    /\ told \in {"log", "window"} => receiver \in {"created", "test", "reset", "uncounted"}

\* The slots in hand.
InHand ==
    /\ receiver = "listed" => leaver \in used
    /\ receiver \in {"enter", "clear", "reset"} /\ "test" \notin raced => leaver \in used
    /\ receiver = "reset" \/ (receiver = "clear" /\ told = "nothing") => leaver \notin list
    /\ dialog \in {"packet", "log", "session", "test", "clear"} =>
          choice \in list /\ listed = Cardinality(list)
    /\ dialog \in {"load", "uncount", "judge", "leave"} => listed > 1 \/ list = {}

\* What has been read of g_nSessionCount is still so.
ReadIsCurrent ==
    /\ dialog \in {"uncount", "judge"} /\ receiver \in {"load", "add"} => "accept" \in raced
    /\ receiver = "add" /\ raced = {} => sum = sessionCount
    /\ dialog = "uncount" /\ raced = {} => rest = sessionCount

\* The last one's kick restarts the server or finds that he was not the last.
NotTheLast ==
    dialog = "leave" /\ listed <= 1 /\ raced = {} => used # {} \/ receiver = "packet"

ClosingInv ==
    /\ TypeOKClosing /\ Holds /\ Tells /\ InHand /\ ReadIsCurrent /\ NotTheLast
    /\ CountsAreExact /\ RestartIsOfNobody /\ KeptLocksHurt

-----------------------------------------------------------------------------
(* The slots in use and the names in the list are finitely many.           *)
LEMMA SeatsAreCounted ==
    ASSUME TypeOKClosing
    PROVE  /\ IsFiniteSet(used) /\ IsFiniteSet(list)
           /\ Cardinality(used) \in Nat /\ Cardinality(list) \in Nat
           /\ Cardinality(used) = 0 <=> used = {}
           /\ \A s \in Seats \ used : Cardinality(used \cup {s}) = Cardinality(used) + 1
           /\ \A s \in used : Cardinality(used \ {s}) = Cardinality(used) - 1
<1>1. IsFiniteSet(Seats)
  BY ClosingAssumption, FS_Interval DEF Seats
<1>2. IsFiniteSet(used) /\ IsFiniteSet(list)
  BY <1>1, FS_Subset DEF TypeOKClosing
<1>3. /\ Cardinality(used) \in Nat /\ Cardinality(list) \in Nat
      /\ Cardinality(used) = 0 <=> used = {}
  BY <1>2, FS_CardinalityType, FS_EmptySet
<1>4. \A s \in Seats \ used : Cardinality(used \cup {s}) = Cardinality(used) + 1
  BY <1>2, FS_AddElement
<1>5. \A s \in used : Cardinality(used \ {s}) = Cardinality(used) - 1
  BY <1>2, FS_RemoveElement
<1> QED
  BY <1>2, <1>3, <1>4, <1>5

(* A list of one name is empty without it.                                 *)
LEMMA ListLoses ==
    ASSUME TypeOKClosing, NEW s \in list, Cardinality(list) <= 1
    PROVE  list \ {s} = {}
<1>1. IsFiniteSet(list)
  BY SeatsAreCounted
<1>2. IsFiniteSet(list \ {s}) /\ Cardinality(list \ {s}) = Cardinality(list) - 1
  BY <1>1, FS_RemoveElement
<1>3. Cardinality(list \ {s}) \in Nat /\ Cardinality(list) \in Nat
  BY <1>1, <1>2, FS_CardinalityType
<1>4. Cardinality(list \ {s}) = 0
  BY <1>2, <1>3
<1> QED
  BY <1>2, <1>4, FS_EmptySet

-----------------------------------------------------------------------------
(* The steps of the receiver, of the dialog, and the restart.              *)

LEMMA EnterLogKeeps ==
    ASSUME ClosingInv, EnterLog
    PROVE  ClosingInv'
<1> USE DEF ClosingInv, TypeOKClosing, EnterLog, tableVars, receiverVars,
            dialogVars, MayEnter, Entered, Left, Locks, Threads
<1>1. TypeOKClosing' /\ Holds' /\ Tells' /\ InHand' /\ ReadIsCurrent'
  BY DEF Holds, Inside, Tells, InHand, ReadIsCurrent
<1>2. NotTheLast' /\ CountsAreExact' /\ RestartIsOfNobody' /\ KeptLocksHurt'
  BY DEF NotTheLast, Due, ToCome, CountsAreExact, RestartIsOfNobody,
    KeptLocksHurt
<1> QED
  BY <1>1, <1>2

(* A name goes on the list while its slot is in hand, and the dialog is idle:*)
(* it has not kept the locks, the receiver has the Session lock.           *)
LEMMA AnsweredKeeps ==
    ASSUME ClosingInv, Answered
    PROVE  ClosingInv'
<1> USE DEF ClosingInv, TypeOKClosing, Answered, ListAfter, LeftAfter,
            tableVars, receiverVars, dialogVars, MayEnter, Entered, Left,
            Locks, Threads
<1>1. TypeOKClosing'
  BY DEF Tells, InHand
<1>2. InHand'
  BY DEF InHand, Tells
<1>3. KeptLocksHurt'
  BY DEF KeptLocksHurt, Holds, Tells
<1>4. Holds' /\ Tells' /\ ReadIsCurrent'
  BY DEF Holds, Inside, Tells, ReadIsCurrent
<1>5. NotTheLast' /\ CountsAreExact' /\ RestartIsOfNobody'
  BY DEF NotTheLast, Due, ToCome, CountsAreExact, RestartIsOfNobody
<1> QED
  BY <1>1, <1>2, <1>3, <1>4, <1>5

(* The new user has a slot and is not counted yet.  The receiver has the lock*)
(* of the sessions, so that no kick is under way.                          *)
LEMMA NewUserSessionKeeps ==
    ASSUME ClosingInv, NEW s \in Seats, NewUserSession(s)
    PROVE  ClosingInv'
<1> USE DEF ClosingInv, TypeOKClosing, NewUserSession, tableVars,
            receiverVars, dialogVars, MayEnter, Entered, Left, Locks,
            Threads
<1>1. Holds'
  BY DEF Holds, Tells
<1>2. CountsAreExact'
  BY SeatsAreCounted DEF CountsAreExact, Due, ToCome
<1>3. RestartIsOfNobody'
  BY DEF RestartIsOfNobody, Holds, Inside
<1>4. TypeOKClosing' /\ Tells' /\ InHand' /\ ReadIsCurrent'
  BY DEF Tells, InHand, ReadIsCurrent
<1>5. NotTheLast' /\ KeptLocksHurt'
  BY DEF NotTheLast, KeptLocksHurt
<1> QED
  BY <1>1, <1>2, <1>3, <1>4, <1>5

LEMMA CreatedKeeps ==
    ASSUME ClosingInv, Created
    PROVE  ClosingInv'
<1> USE DEF ClosingInv, TypeOKClosing, Created, tableVars, receiverVars,
            dialogVars, MayEnter, Entered, Left, Locks, Threads
<1>1. ReadIsCurrent'
  BY DEF ReadIsCurrent, Holds, Inside
<1>2. TypeOKClosing' /\ Holds' /\ Tells' /\ InHand'
  BY DEF Holds, Inside, Tells, InHand
<1>3. NotTheLast' /\ CountsAreExact' /\ RestartIsOfNobody' /\ KeptLocksHurt'
  BY DEF NotTheLast, Due, ToCome, CountsAreExact, RestartIsOfNobody,
    KeptLocksHurt
<1> QED
  BY <1>1, <1>2, <1>3

LEMMA LoadCountKeeps ==
    ASSUME ClosingInv, LoadCount
    PROVE  ClosingInv'
<1> USE DEF ClosingInv, TypeOKClosing, LoadCount, tableVars, receiverVars,
            dialogVars, MayEnter, Entered, Left, Locks, Threads
<1>1. TypeOKClosing' /\ Holds' /\ Tells' /\ InHand' /\ ReadIsCurrent'
  BY DEF Holds, Inside, Tells, InHand, ReadIsCurrent
<1>2. NotTheLast' /\ CountsAreExact' /\ RestartIsOfNobody' /\ KeptLocksHurt'
  BY DEF NotTheLast, Due, ToCome, CountsAreExact, RestartIsOfNobody,
    KeptLocksHurt
<1> QED
  BY <1>1, <1>2

(* What the receiver has read is still so, unless a kick came in between.  *)
LEMMA AddCountKeeps ==
    ASSUME ClosingInv, AddCount
    PROVE  ClosingInv'
<1> USE DEF ClosingInv, TypeOKClosing, AddCount, tableVars, receiverVars,
            dialogVars, MayEnter, Entered, Left, Locks, Threads
<1>1. CountsAreExact'
  BY SeatsAreCounted DEF CountsAreExact, Due, ToCome, ReadIsCurrent
<1>2. TypeOKClosing' /\ Holds' /\ Tells' /\ InHand' /\ ReadIsCurrent'
  BY DEF Holds, Inside, Tells, InHand, ReadIsCurrent
<1>3. NotTheLast' /\ RestartIsOfNobody' /\ KeptLocksHurt'
  BY DEF NotTheLast, RestartIsOfNobody, KeptLocksHurt
<1> QED
  BY <1>1, <1>2, <1>3

LEMMA AddToListKeeps ==
    ASSUME ClosingInv, NEW s \in Seats, AddToList(s)
    PROVE  ClosingInv'
<1> USE DEF ClosingInv, TypeOKClosing, AddToList, tableVars, receiverVars,
            dialogVars, MayEnter, Entered, Left, Locks, Threads
<1>1. Holds'
  BY DEF Holds, Tells
<1>2. TypeOKClosing' /\ Tells' /\ InHand' /\ ReadIsCurrent'
  BY DEF Tells, InHand, ReadIsCurrent
<1>3. NotTheLast' /\ CountsAreExact' /\ RestartIsOfNobody' /\ KeptLocksHurt'
  BY DEF NotTheLast, Due, ToCome, CountsAreExact, RestartIsOfNobody,
    KeptLocksHurt
<1> QED
  BY <1>1, <1>2, <1>3

LEMMA ListedKeeps ==
    ASSUME ClosingInv, Listed
    PROVE  ClosingInv'
<1> USE DEF ClosingInv, TypeOKClosing, Listed, tableVars, receiverVars,
            dialogVars, MayEnter, Entered, Left, Locks, Threads
<1>1. TypeOKClosing' /\ Holds' /\ Tells' /\ InHand' /\ ReadIsCurrent'
  BY DEF Holds, Inside, Tells, InHand, ReadIsCurrent
<1>2. NotTheLast' /\ CountsAreExact' /\ RestartIsOfNobody' /\ KeptLocksHurt'
  BY DEF NotTheLast, Due, ToCome, CountsAreExact, RestartIsOfNobody,
    KeptLocksHurt
<1> QED
  BY <1>1, <1>2

LEMMA BrokenKeeps ==
    ASSUME ClosingInv, NEW s \in Seats, Broken(s)
    PROVE  ClosingInv'
<1> USE DEF ClosingInv, TypeOKClosing, Broken, tableVars, receiverVars,
            dialogVars, MayEnter, Entered, Left, Locks, Threads
<1>1. Holds'
  BY DEF Holds, Tells
<1>2. TypeOKClosing' /\ Tells' /\ InHand' /\ ReadIsCurrent'
  BY DEF Tells, InHand, ReadIsCurrent
<1>3. NotTheLast' /\ CountsAreExact' /\ RestartIsOfNobody' /\ KeptLocksHurt'
  BY DEF NotTheLast, Due, ToCome, CountsAreExact, RestartIsOfNobody,
    KeptLocksHurt
<1> QED
  BY <1>1, <1>2, <1>3

LEMMA TestFlagKeeps ==
    ASSUME ClosingInv, TestFlag
    PROVE  ClosingInv'
<1> USE DEF ClosingInv, TypeOKClosing, TestFlag, AfterTest, tableVars,
            receiverVars, dialogVars, MayEnter, Entered, Left, Locks,
            Threads
<1>1. TypeOKClosing' /\ Holds' /\ Tells' /\ InHand' /\ ReadIsCurrent'
  BY DEF Holds, Inside, Tells, InHand, ReadIsCurrent
<1>2. NotTheLast' /\ CountsAreExact' /\ RestartIsOfNobody' /\ KeptLocksHurt'
  BY DEF NotTheLast, Due, ToCome, CountsAreExact, RestartIsOfNobody,
    KeptLocksHurt
<1> QED
  BY <1>1, <1>2

LEMMA EnterSessionKeeps ==
    ASSUME ClosingInv, EnterSession
    PROVE  ClosingInv'
<1> USE DEF ClosingInv, TypeOKClosing, EnterSession, tableVars,
            receiverVars, dialogVars, MayEnter, Entered, Left, Locks,
            Threads
<1>1. Holds'
  BY DEF Holds, Tells
<1>2. TypeOKClosing' /\ Tells' /\ InHand' /\ ReadIsCurrent'
  BY DEF Tells, InHand, ReadIsCurrent
<1>3. NotTheLast' /\ CountsAreExact' /\ RestartIsOfNobody' /\ KeptLocksHurt'
  BY DEF NotTheLast, Due, ToCome, CountsAreExact, RestartIsOfNobody,
    KeptLocksHurt
<1> QED
  BY <1>1, <1>2, <1>3

(* The count of the table goes down one step before the flag.              *)
LEMMA ClearSessionKeeps ==
    ASSUME ClosingInv, ClearSession
    PROVE  ClosingInv'
<1> USE DEF ClosingInv, TypeOKClosing, ClearSession, tableVars,
            receiverVars, dialogVars, MayEnter, Entered, Left, Locks,
            Threads
<1>1. CountsAreExact'
  BY SeatsAreCounted DEF CountsAreExact, Due, ToCome
<1>2. TypeOKClosing' /\ Holds' /\ Tells' /\ InHand' /\ ReadIsCurrent'
  BY DEF Holds, Inside, Tells, InHand, ReadIsCurrent
<1>3. NotTheLast' /\ RestartIsOfNobody' /\ KeptLocksHurt'
  BY DEF NotTheLast, RestartIsOfNobody, KeptLocksHurt
<1> QED
  BY <1>1, <1>2, <1>3

(* The slot is in use, unless a kick came first; its name is off the list. *)
LEMMA ResetSessionKeeps ==
    ASSUME ClosingInv, ResetSession
    PROVE  ClosingInv'
<1> USE DEF ClosingInv, TypeOKClosing, ResetSession, tableVars,
            receiverVars, dialogVars, MayEnter, Entered, Left, Locks,
            Threads
<1>1. TypeOKClosing'
  BY DEF InHand
<1>2. CountsAreExact'
  BY SeatsAreCounted DEF CountsAreExact, Due, ToCome, InHand
<1>3. Holds' /\ Tells' /\ InHand' /\ ReadIsCurrent'
  BY DEF Holds, Inside, Tells, InHand, ReadIsCurrent
<1>4. NotTheLast' /\ RestartIsOfNobody' /\ KeptLocksHurt'
  BY DEF NotTheLast, RestartIsOfNobody, KeptLocksHurt
<1> QED
  BY <1>1, <1>2, <1>3, <1>4

(* The receiver has the Packet lock now: no kick is beyond its first step. *)
LEMMA UncountKeeps ==
    ASSUME ClosingInv, Uncount
    PROVE  ClosingInv'
<1> USE DEF ClosingInv, TypeOKClosing, Uncount, tableVars, receiverVars,
            dialogVars, MayEnter, Entered, Left, Locks, Threads
<1>1. Holds'
  BY DEF Holds, Tells
<1>2. ReadIsCurrent'
  BY DEF ReadIsCurrent, Holds, Inside
<1>3. NotTheLast'
  BY DEF NotTheLast, Holds, Inside
<1>4. CountsAreExact'
  BY SeatsAreCounted DEF CountsAreExact, Due, ToCome
<1>5. TypeOKClosing' /\ Tells' /\ InHand'
  BY DEF Tells, InHand
<1>6. RestartIsOfNobody' /\ KeptLocksHurt'
  BY DEF RestartIsOfNobody, KeptLocksHurt
<1> QED
  BY <1>1, <1>2, <1>3, <1>4, <1>5, <1>6

LEMMA LeavePacketKeeps ==
    ASSUME ClosingInv, LeavePacket
    PROVE  ClosingInv'
<1> USE DEF ClosingInv, TypeOKClosing, LeavePacket, tableVars, receiverVars,
            dialogVars, MayEnter, Entered, Left, Locks, Threads
<1>1. TypeOKClosing' /\ Holds' /\ Tells' /\ InHand' /\ ReadIsCurrent'
  BY DEF Holds, Inside, Tells, InHand, ReadIsCurrent
<1>2. NotTheLast' /\ CountsAreExact' /\ RestartIsOfNobody' /\ KeptLocksHurt'
  BY DEF NotTheLast, Due, ToCome, CountsAreExact, RestartIsOfNobody,
    KeptLocksHurt
<1> QED
  BY <1>1, <1>2

(* With nobody to come, a count of 0 means an empty table.                 *)
LEMMA JudgeKeeps ==
    ASSUME ClosingInv, Judge
    PROVE  ClosingInv'
<1> USE DEF ClosingInv, TypeOKClosing, Judge, NobodyLeft, tableVars,
            receiverVars, dialogVars, MayEnter, Entered, Left, Locks,
            Threads
<1>1. RestartIsOfNobody'
  BY SeatsAreCounted DEF RestartIsOfNobody, CountsAreExact, Due, ToCome
<1>2. TypeOKClosing' /\ Holds' /\ Tells' /\ InHand' /\ ReadIsCurrent'
  BY DEF Holds, Inside, Tells, InHand, ReadIsCurrent
<1>3. NotTheLast' /\ CountsAreExact' /\ KeptLocksHurt'
  BY DEF NotTheLast, Due, ToCome, CountsAreExact, KeptLocksHurt
<1> QED
  BY <1>1, <1>2, <1>3

(* An operator who can choose somebody has not kept the locks of a kick.   *)
LEMMA SelectUserKeeps ==
    ASSUME ClosingInv, NEW s \in Seats, SelectUser(s)
    PROVE  ClosingInv'
<1> USE DEF ClosingInv, TypeOKClosing, SelectUser, tableVars, receiverVars,
            dialogVars, MayEnter, Entered, Left, Locks, Threads
<1>1. TypeOKClosing'
  BY ClosingAssumption
<1>2. Holds'
  BY DEF Holds, Inside, KeptLocksHurt
<1>3. Tells' /\ InHand' /\ ReadIsCurrent'
  BY DEF Tells, InHand, ReadIsCurrent
<1>4. NotTheLast' /\ CountsAreExact' /\ RestartIsOfNobody' /\ KeptLocksHurt'
  BY DEF NotTheLast, Due, ToCome, CountsAreExact, RestartIsOfNobody,
    KeptLocksHurt
<1> QED
  BY <1>1, <1>2, <1>3, <1>4

(* A kick that kept its locks left an empty list.                          *)
LEMMA UserIndexKeeps ==
    ASSUME ClosingInv, UserIndex
    PROVE  ClosingInv'
<1> USE DEF ClosingInv, TypeOKClosing, UserIndex, tableVars, receiverVars,
            dialogVars, MayEnter, Entered, Left, Locks, Threads
<1>1. TypeOKClosing'
  BY SeatsAreCounted
<1>2. KeptLocksHurt'
  BY DEF KeptLocksHurt, Holds
<1>3. Holds' /\ Tells' /\ InHand' /\ ReadIsCurrent'
  BY DEF Holds, Inside, Tells, InHand, ReadIsCurrent
<1>4. NotTheLast' /\ CountsAreExact' /\ RestartIsOfNobody'
  BY DEF NotTheLast, Due, ToCome, CountsAreExact, RestartIsOfNobody
<1> QED
  BY <1>1, <1>2, <1>3, <1>4

LEMMA KickTakesLocksKeeps ==
    ASSUME ClosingInv, KickTakesLocks
    PROVE  ClosingInv'
<1> USE DEF ClosingInv, TypeOKClosing, KickTakesLocks, KickEnters,
            tableVars, receiverVars, dialogVars, MayEnter, Entered, Left,
            Locks, Threads
<1>1. TypeOKClosing'
  BY SeatsAreCounted
<1>2. Holds' /\ Tells' /\ InHand' /\ ReadIsCurrent'
  BY DEF Holds, Inside, Tells, InHand, ReadIsCurrent
<1>3. NotTheLast' /\ CountsAreExact' /\ RestartIsOfNobody' /\ KeptLocksHurt'
  BY DEF NotTheLast, Due, ToCome, CountsAreExact, RestartIsOfNobody,
    KeptLocksHurt
<1> QED
  BY <1>1, <1>2, <1>3

(* A user in the list has a slot.                                          *)
LEMMA KickTestsKeeps ==
    ASSUME ClosingInv, KickTests
    PROVE  ClosingInv'
<1> USE DEF ClosingInv, TypeOKClosing, KickTests, tableVars, receiverVars,
            dialogVars, MayEnter, Entered, Left, Locks, Threads
<1>1. NotTheLast'
  BY DEF NotTheLast, InHand
<1>2. TypeOKClosing' /\ Holds' /\ Tells' /\ InHand' /\ ReadIsCurrent'
  BY DEF Holds, Inside, Tells, InHand, ReadIsCurrent
<1>3. CountsAreExact' /\ RestartIsOfNobody' /\ KeptLocksHurt'
  BY DEF Due, ToCome, CountsAreExact, RestartIsOfNobody, KeptLocksHurt
<1> QED
  BY <1>1, <1>2, <1>3

(* Whoever was alone in the list leaves it empty.                          *)
LEMMA KickClearsKeeps ==
    ASSUME ClosingInv, KickClears
    PROVE  ClosingInv'
<1> USE DEF ClosingInv, TypeOKClosing, KickClears, tableVars, receiverVars,
            dialogVars, MayEnter, Entered, Left, Locks, Threads
<1>1. InHand'
  BY ListLoses DEF InHand, Holds, Inside
<1>2. CountsAreExact'
  BY SeatsAreCounted DEF CountsAreExact, Due, ToCome, InHand
<1>3. TypeOKClosing' /\ Holds' /\ Tells' /\ ReadIsCurrent'
  BY DEF Holds, Inside, Tells, ReadIsCurrent
<1>4. NotTheLast' /\ RestartIsOfNobody' /\ KeptLocksHurt'
  BY DEF NotTheLast, RestartIsOfNobody, KeptLocksHurt
<1> QED
  BY <1>1, <1>2, <1>3, <1>4

LEMMA KickLoadsKeeps ==
    ASSUME ClosingInv, KickLoads
    PROVE  ClosingInv'
<1> USE DEF ClosingInv, TypeOKClosing, KickLoads, tableVars, receiverVars,
            dialogVars, MayEnter, Entered, Left, Locks, Threads
<1>1. TypeOKClosing' /\ Holds' /\ Tells' /\ InHand' /\ ReadIsCurrent'
  BY DEF Holds, Inside, Tells, InHand, ReadIsCurrent
<1>2. NotTheLast' /\ CountsAreExact' /\ RestartIsOfNobody' /\ KeptLocksHurt'
  BY DEF NotTheLast, Due, ToCome, CountsAreExact, RestartIsOfNobody,
    KeptLocksHurt
<1> QED
  BY <1>1, <1>2

(* What the dialog has read is still so, unless a connection came in between.*)
LEMMA KickUncountsKeeps ==
    ASSUME ClosingInv, KickUncounts
    PROVE  ClosingInv'
<1> USE DEF ClosingInv, TypeOKClosing, KickUncounts, tableVars,
            receiverVars, dialogVars, MayEnter, Entered, Left, Locks,
            Threads
<1>1. CountsAreExact'
  BY SeatsAreCounted DEF CountsAreExact, Due, ToCome, ReadIsCurrent
<1>2. TypeOKClosing' /\ Holds' /\ Tells' /\ InHand' /\ ReadIsCurrent'
  BY DEF Holds, Inside, Tells, InHand, ReadIsCurrent
<1>3. NotTheLast' /\ RestartIsOfNobody' /\ KeptLocksHurt'
  BY DEF NotTheLast, RestartIsOfNobody, KeptLocksHurt
<1> QED
  BY <1>1, <1>2, <1>3

(* A count that is not 0 means a slot in use or a departure on its way: the*)
(* kick was not that of the last one.                                      *)
LEMMA KickJudgesKeeps ==
    ASSUME ClosingInv, KickJudges
    PROVE  ClosingInv'
<1> USE DEF ClosingInv, TypeOKClosing, KickJudges, NobodyLeft, tableVars,
            receiverVars, dialogVars, MayEnter, Entered, Left, Locks,
            Threads
<1>1. NotTheLast'
  BY SeatsAreCounted DEF NotTheLast, Holds, Inside, CountsAreExact, Due,
    ToCome, ReadIsCurrent
<1>2. RestartIsOfNobody'
  BY SeatsAreCounted DEF RestartIsOfNobody, CountsAreExact, Due, ToCome,
    ReadIsCurrent, Holds, Inside
<1>3. TypeOKClosing' /\ Holds' /\ Tells' /\ InHand' /\ ReadIsCurrent'
  BY DEF Holds, Inside, Tells, InHand, ReadIsCurrent
<1>4. CountsAreExact' /\ KeptLocksHurt'
  BY DEF Due, ToCome, CountsAreExact, KeptLocksHurt
<1> QED
  BY <1>1, <1>2, <1>3, <1>4

(* A kick of the last name in the list keeps its locks; by then the count was*)
(* not 0.                                                                  *)
LEMMA KickLeavesKeeps ==
    ASSUME ClosingInv, KickLeaves
    PROVE  ClosingInv'
<1> USE DEF ClosingInv, TypeOKClosing, KickLeaves, LeavesLocks, tableVars,
            receiverVars, dialogVars, MayEnter, Entered, Left, Locks,
            Threads
<1>1. KeptLocksHurt'
  BY DEF KeptLocksHurt, NotTheLast, InHand
<1>2. TypeOKClosing' /\ Holds' /\ Tells' /\ InHand' /\ ReadIsCurrent'
  BY DEF Holds, Inside, Tells, InHand, ReadIsCurrent
<1>3. NotTheLast' /\ CountsAreExact' /\ RestartIsOfNobody'
  BY DEF NotTheLast, Due, ToCome, CountsAreExact, RestartIsOfNobody
<1> QED
  BY <1>1, <1>2, <1>3

LEMMA RestartServerKeeps ==
    ASSUME ClosingInv, RestartServer
    PROVE  ClosingInv'
<1> USE DEF ClosingInv, TypeOKClosing, RestartServer, tableVars,
            receiverVars, dialogVars, MayEnter, Entered, Left, Locks,
            Threads
<1>1. TypeOKClosing'
  BY ClosingAssumption DEF Seats
<1>2. CountsAreExact'
  BY FS_EmptySet DEF CountsAreExact, Due, ToCome
<1>3. Holds' /\ Tells' /\ InHand' /\ ReadIsCurrent'
  BY DEF Holds, Inside, Tells, InHand, ReadIsCurrent
<1>4. NotTheLast' /\ RestartIsOfNobody' /\ KeptLocksHurt'
  BY DEF NotTheLast, RestartIsOfNobody, KeptLocksHurt
<1> QED
  BY <1>1, <1>2, <1>3, <1>4
-----------------------------------------------------------------------------
LEMMA ClosingStarts == InitClosing => ClosingInv
<1> SUFFICES ASSUME InitClosing PROVE ClosingInv
  OBVIOUS
<1>1. TypeOKClosing
  BY ClosingAssumption DEF InitClosing, TypeOKClosing, Seats, Locks, Threads
<1>2. Holds /\ Tells /\ InHand /\ ReadIsCurrent /\ NotTheLast
  BY DEF InitClosing, Holds, Tells, InHand, ReadIsCurrent, NotTheLast, Inside, Locks
<1>3. CountsAreExact /\ RestartIsOfNobody /\ KeptLocksHurt
  BY <1>1, SeatsAreCounted DEF InitClosing, CountsAreExact, Due, ToCome, RestartIsOfNobody, KeptLocksHurt, Locks
<1> QED
  BY <1>1, <1>2, <1>3 DEF ClosingInv

LEMMA ClosingStands ==
    ASSUME ClosingInv, UNCHANGED closingVars
    PROVE  ClosingInv'
<1> USE DEF closingVars, tableVars, receiverVars, dialogVars, ClosingInv
<1>1. TypeOKClosing' /\ Holds' /\ Tells' /\ InHand' /\ ReadIsCurrent'
  BY DEF TypeOKClosing, Holds, Tells, InHand, ReadIsCurrent
<1>2. NotTheLast' /\ CountsAreExact' /\ RestartIsOfNobody' /\ KeptLocksHurt'
  BY DEF NotTheLast, CountsAreExact, Due, ToCome, RestartIsOfNobody, KeptLocksHurt
<1> QED
  BY <1>1, <1>2

LEMMA ClosingStep == ClosingInv /\ [NextClosing]_closingVars => ClosingInv'
<1> SUFFICES ASSUME ClosingInv, [NextClosing]_closingVars PROVE ClosingInv'
  OBVIOUS
<1>1. CASE ReceiverStep
  BY <1>1, EnterLogKeeps, AnsweredKeeps, CreatedKeeps, LoadCountKeeps, AddCountKeeps,
     ListedKeeps, TestFlagKeeps, EnterSessionKeeps, ClearSessionKeeps, ResetSessionKeeps,
     UncountKeeps, LeavePacketKeeps, JudgeKeeps, NewUserSessionKeeps, AddToListKeeps,
     BrokenKeeps
     DEF ReceiverStep
<1>2. CASE DialogStep
  BY <1>2, UserIndexKeeps, KickTakesLocksKeeps, KickTestsKeeps, KickClearsKeeps,
     KickLoadsKeeps, KickUncountsKeeps, KickJudgesKeeps, KickLeavesKeeps, SelectUserKeeps
     DEF DialogStep
<1>3. CASE RestartServer
  BY <1>3, RestartServerKeeps
<1>4. CASE UNCHANGED closingVars
  BY <1>4, ClosingStands
<1> QED
  BY <1>1, <1>2, <1>3, <1>4 DEF NextClosing

LEMMA ClosingIsKept == SpecClosing => []ClosingInv
  BY ClosingStarts, ClosingStep, PTL DEF SpecClosing

(* The state of a closing, and the list the dialog shows, are well formed: *)
(* DeleteUserList and ClearSession leave no name without its slot.         *)
THEOREM ClosingHasItsTypes == SpecClosing => []TypeOKClosing
<1>1. ClosingInv => TypeOKClosing
  BY DEF ClosingInv
<1> QED
  BY <1>1, ClosingIsKept, PTL

(* For any number of slots and kicks: m_dwUserCount and g_nSessionCount are*)
(* exact, and a restart finds nobody connected, unless a kick came between *)
(* the test of a flag in DisconnectSession and its lock, or between an     *)
(* accepted connection and its addition.  OnUserKick keeps its locks only  *)
(* when nobody is left in the list, and then they stop somebody.  Wherever *)
(* the receiver and the dialog wait for each other, the receiver waits for *)
(* the window: the order of the Session and Packet locks alone stops nobody.*)
THEOREM ConnectionsAreClosedSoundly == SpecClosing => []ClosingIsSound
<1>1. ClosingInv => CountsAreExact /\ RestartIsOfNobody /\ KeptLocksHurt
  BY DEF ClosingInv
<1>2. ClosingInv => StandstillIsOverTheWindow
  BY DEF ClosingInv, Holds, Inside, StandstillIsOverTheWindow, Standstill
<1>3. ClosingInv => ClosingIsSound
  BY <1>1, <1>2 DEF ClosingIsSound
<1> QED
  BY <1>3, ClosingIsKept, PTL

-----------------------------------------------------------------------------
(* Side by side: each part moves by its own steps or not at all.           *)

LEMMA SlotsAreComposed ==
    /\ InitSlots => Init /\ InitClosing
    /\ [NextSlots]_slotsVars => [Next]_vars /\ [NextClosing]_closingVars
<1>1. InitSlots => Init /\ InitClosing
  BY DEF InitSlots
<1>2. ASSUME NextSlots
      PROVE  [Next]_vars /\ [NextClosing]_closingVars
  BY <1>2 DEF NextSlots
<1>3. ASSUME UNCHANGED slotsVars
      PROVE  UNCHANGED vars /\ UNCHANGED closingVars
  BY <1>3 DEF slotsVars
<1> QED
  BY <1>1, <1>2, <1>3

(* Run side by side the gate and the closing of connections keep their types*)
(* and their promises.                                                     *)
THEOREM SlotsAreSound ==
    SpecSlots => [](TypeOKSlots /\ PassedMeansLoaded /\ ClosingIsSound) /\ AskedBeforeKicked
<1>1. SpecSlots => Spec
  BY SlotsAreComposed, PTL DEF SpecSlots, Spec
<1>2. SpecSlots => SpecClosing
  BY SlotsAreComposed, PTL DEF SpecSlots, SpecClosing
<1>3. TypeOK /\ TypeOKClosing => TypeOKSlots
  BY DEF TypeOKSlots
<1> QED
  BY <1>1, <1>2, <1>3, GateIsTyped, PassedHaveLoaded, OnlyTheAskedAreKicked,
     ClosingHasItsTypes, ConnectionsAreClosedSoundly, PTL
=============================================================================
