------------------------------ MODULE Framing -------------------------------
(***************************************************************************)
(* How the receiver thread cuts packets out of what its sockets deliver.    *)
(*                                                                         *)
(* A packet begins with its size and ends with a mark.  A read returns any  *)
(* stretch of a connection's stream: a packet, several, or a part of one.   *)
(* An incomplete packet is kept (arMsgto, nRecvStockSize) until the next     *)
(* read brings more; there is one such stock for all connections.            *)
(*                                                                         *)
(* The unit here is a cell, the first of a packet holds its size and the     *)
(* last its mark; a read never divides a cell.                              *)
(***************************************************************************)
EXTENDS Integers, Sequences, SequencesExt

CONSTANTS
    Conns,   \* connections
    Stream,  \* the sizes of the packets each connection sends
    Spans    \* TRUE: a read may go on past the end of a packet that was in stock

ASSUME StreamAssumption == Stream \in [Conns -> Seq(Nat \ {0})]
ASSUME SpansAssumption == Spans \in BOOLEAN

\* Packet n of connection c, and all that c sends.
Packet(c, n) == [i \in 1 .. Stream[c][n] |-> [conn |-> c, packet |-> n, cell |-> i]]
Packets(c)   == [n \in 1 .. Len(Stream[c]) |-> Packet(c, n)]
Wire(c)      == FoldLeft(LAMBDA cells, p : cells \o p, <<>>, Packets(c))

VARIABLES
    read,    \* how much of each stream was read
    from,    \* the connection read last
    msg,     \* arMsg: the cells of the last read
    div,     \* nDivIndex, counted from 1
    base,    \* nRecvStockIndex
    stock,   \* nRecvStockSize
    slot,    \* arMsgto: the cells in stock
    size,    \* arSize: the size of the packet being put together
    handed,  \* the packets given to PacketProc for each connection
    cutter   \* "idle", "cutting", or "astray" when no size stands where it is read

frameVars == <<read, from, msg, div, base, stock, slot, size, handed, cutter>>

InitFraming ==
    /\ read = [c \in Conns |-> 0] /\ from \in Conns
    /\ msg = <<>> /\ div = 1 /\ base = 0 /\ stock = 0
    /\ slot = <<>> /\ size = 0
    /\ handed = [c \in Conns |-> <<>>]
    /\ cutter = "idle"

IsSize(cells, i) == i \in 1 .. Len(cells) /\ cells[i].cell = 1
SizeIn(cells, i) == Stream[cells[i].conn][cells[i].packet]
IsMark(cell)     == cell.cell = Stream[cell.conn][cell.packet]

\* The next k cells of c; they go on past a packet in stock only with Spans.
Stretch(c, k) == SubSeq(Wire(c), read[c] + 1, read[c] + k)
MayDeliver(c, k) == Spans \/ stock = 0 \/ stock + k <= size

\* recvall, and what is found out about the read before it is cut.
Receive(c, k) ==
    /\ cutter = "idle"
    /\ read[c] + k <= Len(Wire(c)) /\ MayDeliver(c, k)
    /\ read' = [read EXCEPT ![c] = @ + k]
    /\ from' = c /\ msg' = Stretch(c, k)
    /\ div' = 1 /\ stock' = k
    /\ base' = IF stock > 0 THEN stock ELSE 0
    /\ size' = IF stock <= 0 /\ IsSize(msg', 1) THEN SizeIn(msg', 1) ELSE size
    /\ cutter' = IF stock > 0 \/ IsSize(msg', 1) THEN "cutting" ELSE "astray"
    /\ UNCHANGED <<slot, handed>>

-----------------------------------------------------------------------------
(* The loop over the read; with nothing in stock base is 0, and a read of    *)
(* exactly one packet is the loop's shortest case.                          *)

\* Mutant: the rest is put over the stock.
PiecedOver(n) == SubSeq(msg, div, div + n - 1)
\* What is in stock, with the next n cells of the read after it.
Pieced(n) == SubSeq(slot, 1, base) \o SubSeq(msg, div, div + n - 1)

\* The read ends within a packet, which goes into stock.
Stock ==
    /\ cutter = "cutting" /\ stock > 0 /\ size - base > stock
    /\ slot' = Pieced(stock)
    /\ stock' = stock + base
    /\ cutter' = "idle"
    /\ UNCHANGED <<read, from, msg, div, base, size, handed>>

\* A packet is complete: div and stock move on by its whole size, although
\* the part in stock was not in this read.  Without its mark the rest of the
\* read is dropped, and a read of exactly the rest leaves the stock as it was.
Cut ==
    /\ cutter = "cutting" /\ stock > 0 /\ size - base <= stock
    /\ LET packet == Pieced(size - base)
           exact  == base + stock = size
           good   == IsMark(Last(packet))
       IN /\ handed' = IF good THEN [handed EXCEPT ![from] = Append(@, packet)] ELSE handed
          /\ stock' = IF good /\ ~exact THEN stock - size
                      ELSE IF good \/ ~exact THEN 0 ELSE base
          /\ div' = IF good THEN div + size ELSE div
          /\ base' = 0
          /\ size' = IF good /\ IsSize(msg, div') THEN SizeIn(msg, div') ELSE size
          /\ cutter' = IF ~good THEN "idle"
                       ELSE IF stock' > 0 /\ ~IsSize(msg, div') THEN "astray"
                       ELSE "cutting"
    /\ UNCHANGED <<read, from, msg, slot>>

\* Nothing is left of the read.
ReadIsCut ==
    /\ cutter = "cutting" /\ stock <= 0
    /\ cutter' = "idle"
    /\ UNCHANGED <<read, from, msg, div, base, stock, slot, size, handed>>

AllRead == \A c \in Conns : read[c] = Len(Wire(c))

\* The connections go on with the same packets once all were read.
SendAgain ==
    /\ cutter = "idle" /\ stock = 0 /\ AllRead
    /\ read' = [c \in Conns |-> 0]
    /\ handed' = [c \in Conns |-> <<>>]
    /\ UNCHANGED <<from, msg, div, base, stock, slot, size, cutter>>

NextFraming ==
    \/ \E c \in Conns : \E k \in 1 .. Len(Wire(c)) : Receive(c, k)
    \/ Stock \/ Cut \/ ReadIsCut \/ SendAgain

SpecFraming == InitFraming /\ [][NextFraming]_frameVars

-----------------------------------------------------------------------------
(* Properties. *)

TypeOKFraming ==
    /\ \A c \in Conns : read[c] \in 0 .. Len(Wire(c))
    /\ from \in Conns /\ cutter \in {"idle", "cutting", "astray"}
    /\ base \in Nat /\ stock \in Int /\ div \in Nat /\ size \in Nat
    /\ DOMAIN handed = Conns

\* PacketProc gets of every connection the packets it sent, whole and in
\* order, however the network cut them, and no size is read where none is.
HandedAsSent ==
    /\ cutter # "astray"
    /\ \A c \in Conns : IsPrefix(handed[c], Packets(c))

\* Nothing stays in stock or is dropped: once all is read all is handed over.
NothingKeptBack ==
    cutter = "idle" /\ AllRead => \A c \in Conns : handed[c] = Packets(c)

\* The receiver's stock changes nothing of what was sent, and keeps nothing back.
StreamIsCutRight == HandedAsSent /\ NothingKeptBack
=============================================================================
