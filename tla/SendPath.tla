------------------------------ MODULE SendPath ------------------------------
(***************************************************************************)
(* How a packet gets from a handler to a socket: the handler puts it into    *)
(* its processor's queue; when the handler has returned, the receiver (or    *)
(* the synchronizer) moves that queue to the end of the one of the server    *)
(* and raises an event; the sender thread counts, sleeps on the event while  *)
(* there is nothing, lowers the event and sends as many as it has counted.   *)
(*                                                                         *)
(* The count and the event are read without the lock.  The queue of the      *)
(* server and its event are CPacketQueue, which is not part of the           *)
(* repository: Enqueue appends and raises, a raised event stays raised.      *)
(***************************************************************************)
EXTENDS Integers, Sequences

CONSTANTS
    Labels,    \* packets
    MaxQueued  \* bound: packets on their way at a time

ASSUME QueuedAssumption == MaxQueued \in Nat \ {0}

VARIABLES
    handlerQueue,  \* m_tQueue of the processor
    packetQueue,   \* g_pPacketQueue
    grown,         \* hEvent is raised
    queLen,        \* que_len
    sender         \* where the sender thread is

sendVars == <<handlerQueue, packetQueue, grown, queLen, sender>>

InitSend ==
    /\ handlerQueue = <<>> /\ packetQueue = <<>>
    /\ grown = FALSE /\ queLen = 0 /\ sender = "count"

\* Mutant: a processor's packets overtake those that wait already.
MovedInFront == handlerQueue \o packetQueue
\* The order of sending: those in the server's queue, then the processor's.
Moved == packetQueue \o handlerQueue

OnTheWay == packetQueue \o handlerQueue
In(p, q) == \E i \in 1 .. Len(q) : q[i] = p

-----------------------------------------------------------------------------
(* The threads that handle packets. *)

\* AddPacket
AddPacket(p) ==
    /\ Len(OnTheWay) < MaxQueued /\ ~In(p, OnTheWay)
    /\ handlerQueue' = Append(handlerQueue, p)
    /\ UNCHANGED <<packetQueue, grown, queLen, sender>>

\* PacketEnqueue, under the Packet lock: the sender is not between its lock and
\* its unlock.
PacketEnqueue ==
    /\ handlerQueue # <<>> /\ sender # "send"
    /\ packetQueue' = Moved
    /\ handlerQueue' = <<>>
    /\ grown' = TRUE
    /\ UNCHANGED <<queLen, sender>>

-----------------------------------------------------------------------------
(* Thread_PacketSender. *)

\* Mutant: sleep before each count.
AfterCountAsleep(n) == "asleep"
\* que_len = GetCount(): sleep only when it is 0.
AfterCount(n) == IF n = 0 THEN "asleep" ELSE "reset"

Count ==
    /\ sender = "count"
    /\ queLen' = Len(packetQueue)
    /\ sender' = AfterCount(queLen')
    /\ UNCHANGED <<handlerQueue, packetQueue, grown>>

\* WaitForSingleObject returns, and the packets are counted again.
WakeUp ==
    /\ sender = "asleep" /\ grown
    /\ queLen' = Len(packetQueue)
    /\ sender' = IF queLen' = 0 THEN "asleep" ELSE "reset"
    /\ UNCHANGED <<handlerQueue, packetQueue, grown>>

ResetGrowEvent ==
    /\ sender = "reset"
    /\ grown' = FALSE /\ sender' = "lock"
    /\ UNCHANGED <<handlerQueue, packetQueue, queLen>>

EnterPacket ==
    /\ sender = "lock"
    /\ sender' = "send"
    /\ UNCHANGED <<handlerQueue, packetQueue, grown, queLen>>

\* Mutant: the last is left for later.
BatchShort == queLen - 1
\* while (i < que_len)
Batch == queLen

\* The packets counted are sent; those that came since stay.
SendCounted ==
    /\ sender = "send"
    /\ packetQueue' = SubSeq(packetQueue, Batch + 1, Len(packetQueue))
    /\ sender' = "count"
    /\ UNCHANGED <<handlerQueue, grown, queLen>>

Sender == Count \/ WakeUp \/ ResetGrowEvent \/ EnterPacket \/ SendCounted
NextSend == (\E p \in Labels : AddPacket(p)) \/ PacketEnqueue \/ Sender

\* The sender thread runs; a handler's packets are enqueued when it returns.
FairSend == WF_sendVars(Sender) /\ SF_sendVars(PacketEnqueue)

SpecSend == InitSend /\ [][NextSend]_sendVars

-----------------------------------------------------------------------------
(* Properties. *)

TypeOKSend ==
    /\ handlerQueue \in Seq(Labels) /\ packetQueue \in Seq(Labels)
    /\ grown \in BOOLEAN /\ queLen \in 0 .. MaxQueued
    /\ sender \in {"count", "asleep", "reset", "lock", "send"}

\* The sender never counts more than there is: it alone takes packets out.
\* (Part of the inductive invariant of NoLostWakeup.)
CountIsThere == sender \in {"reset", "lock", "send"} => queLen <= Len(packetQueue)

\* While the sender sleeps, the event is up exactly when something is queued,
\* although it is lowered after the count and outside the lock: no wakeup is
\* lost, and the sender does not spin on an event left up.
NoLostWakeup == sender = "asleep" => (grown <=> packetQueue # <<>>)

\* Every packet a handler made is sent in the end.
PacketLeaves == \A p \in Labels : In(p, OnTheWay) ~> ~In(p, OnTheWay)

\* To the handlers the two queues, the event and the two threads are one box
\* from which packets are taken in the order they were put in, and never twice.
Box == INSTANCE Mailbox WITH mail <- OnTheWay

IsMailbox == Box!MailSpec
=============================================================================
