------------------------------ MODULE Transport ------------------------------
(***************************************************************************)
(* The buffers between two nodes (net.cpp, net.h, ProcessMessages and      *)
(* ProcessGetData in main.cpp): vSendMsg, partial sends, the byte stream,  *)
(* reassembly in vRecvMsg, the limits of the buffers and the choice of the *)
(* socket thread between sending and receiving.  Both ends run this code.  *)
(*                                                                         *)
(* A node asks for blocks with a getdata message of one unit (its header); *)
(* the other answers with one block message per item, of BlockSize units.  *)
(* The kernel keeps at most WireSize units on their way in each direction. *)
(***************************************************************************)
EXTENDS Integers, FiniteSets, SequencesExt

CONSTANTS
    Nodes,               \* the two ends
    Askers,              \* the ends that ask for blocks
    MaxAsks,             \* bound: the getdata messages of an end
    Items,               \* how many blocks each asks for
    BlockSize,
    WireSize,
    SENDBUFFER, RECEIVEFLOOD,
    ReadMax              \* the size of pchBuf

TransportAssumption ==
    /\ Cardinality(Nodes) = 2 /\ Askers \subseteq Nodes
    /\ {MaxAsks, Items, BlockSize, WireSize, SENDBUFFER, RECEIVEFLOOD, ReadMax} \subseteq Nat \ {0}

VARIABLES
    vSendMsg, nSendSize, nSendOffset,
    wire,                \* node -> the units it has sent that the other has not read
    vRecvMsg,            \* node -> the messages it has received, as the units of each
    vRecvGetData,        \* node -> the blocks it still owes
    sel,                 \* node -> what select() is asked for: "send", "recv" or "none"
    asked                \* node -> how many getdata messages it has sent

vars == <<vSendMsg, nSendSize, nSendOffset, wire, vRecvMsg, vRecvGetData, sel, asked>>
sendVars == <<vSendMsg, nSendSize, nSendOffset>>

Other(p) == CHOOSE q \in Nodes : q # p
GetData(i) == <<"getdata", i, 0>>
Block(i, j) == <<"block", i, j>>
Messages == {GetData(i) : i \in 1..MaxAsks} \cup {Block(i, j) : i \in 1..MaxAsks, j \in 1..Items}
Size(m) == IF m[1] = "getdata" THEN 1 ELSE BlockSize
UnitsOf(m) == [k \in 1..Size(m) |-> <<m, k>>]
Concat(seqs) == LET upto[i \in 0..Len(seqs)] == IF i = 0 THEN <<>> ELSE upto[i - 1] \o seqs[i] IN upto[Len(seqs)]
Stream(msgs) == Concat([i \in DOMAIN msgs |-> UnitsOf(msgs[i])])
SumSize(msgs) == LET upto[i \in 0..Len(msgs)] == IF i = 0 THEN 0 ELSE upto[i - 1] + Size(msgs[i]) IN upto[Len(msgs)]
Least(a, b) == IF a < b THEN a ELSE b

Init ==
    /\ vSendMsg = [p \in Nodes |-> <<>>] /\ nSendSize = [p \in Nodes |-> 0] /\ nSendOffset = [p \in Nodes |-> 0]
    /\ wire = [p \in Nodes |-> <<>>] /\ vRecvMsg = [p \in Nodes |-> <<>>]
    /\ vRecvGetData = [p \in Nodes |-> <<>>] /\ sel = [p \in Nodes |-> "none"] /\ asked = [p \in Nodes |-> 0]
-----------------------------------------------------------------------------
(* Sending *)

\* How many units send() may take of those that are left.
Accepted(p, left) ==
    LET free == WireSize - Len(wire[p])
    IN IF free = 0 \/ left = 0 THEN {0} ELSE 1..Least(free, left)

\* Mutant of NextOffset: the offset is not reset when a message is sent.
NextOffset_Kept(upto, done) == IF done = 0 THEN upto ELSE 1

\* The offset into the first message that is left, when "done" units of those up to which
\* data was sent are whole messages.
NextOffset(upto, done) == upto - done

\* SocketSendData: n units of the queue go out; messages that are sent leave it.
SocketSendData(p, queue, size, n) ==
    LET upto == nSendOffset[p] + n
        sent == CHOOSE k \in 0..Len(queue) :
                   /\ SumSize(SubSeq(queue, 1, k)) <= upto
                   /\ k = Len(queue) \/ SumSize(SubSeq(queue, 1, k + 1)) > upto
        done == SumSize(SubSeq(queue, 1, sent))
    IN /\ wire' = [wire EXCEPT ![p] = @ \o SubSeq(Stream(queue), nSendOffset[p] + 1, upto)]
       /\ vSendMsg' = [vSendMsg EXCEPT ![p] = SubSeq(queue, sent + 1, Len(queue))]
       /\ nSendOffset' = [nSendOffset EXCEPT ![p] = NextOffset(upto, done)]
       /\ nSendSize' = [nSendSize EXCEPT ![p] = size - done]

\* PushMessage: the message is queued; "if write queue empty, attempt optimistic write".
PushMessage(p, m) ==
    LET queue == Append(vSendMsg[p], m)
        size == nSendSize[p] + Size(m)
    IN IF vSendMsg[p] = <<>>
       THEN \E n \in Accepted(p, Size(m)) : SocketSendData(p, queue, size, n)
       ELSE /\ vSendMsg' = [vSendMsg EXCEPT ![p] = queue] /\ nSendSize' = [nSendSize EXCEPT ![p] = size]
            /\ UNCHANGED <<nSendOffset, wire>>

\* SendMessages: a request, whatever the state of the buffers.
SendMessages(p) ==
    /\ p \in Askers /\ asked[p] < MaxAsks
    /\ PushMessage(p, GetData(asked[p] + 1))
    /\ asked' = [asked EXCEPT ![p] = @ + 1]
    /\ UNCHANGED <<vRecvMsg, vRecvGetData, sel>>
-----------------------------------------------------------------------------
(* ThreadSocketHandler *)

Complete(msg) == msg # <<>> /\ Len(msg) = Size(msg[1][1])

\* vRecv has its full size as soon as the header is there.
TotalRecvSize(p) == SumSize([i \in DOMAIN vRecvMsg[p] |-> vRecvMsg[p][i][1][1]])

\* Whether there is room to receive more.
MayReceive(p) ==
    vRecvMsg[p] # <<>> /\ Complete(Head(vRecvMsg[p])) => TotalRecvSize(p) <= RECEIVEFLOOD

\* "If there is data to send, select() for sending data"; otherwise for receiving it.
Choice(p) == IF vSendMsg[p] # <<>> THEN "send" ELSE IF MayReceive(p) THEN "recv" ELSE "none"

Select(p) ==
    /\ sel[p] = "none" /\ Choice(p) # "none"
    /\ sel' = [sel EXCEPT ![p] = Choice(p)]
    /\ UNCHANGED <<sendVars, wire, vRecvMsg, vRecvGetData, asked>>

\* The message thread has cs_vSend just then: the socket thread does not look at vSendMsg.
SelectBusy(p) ==
    /\ sel[p] = "none" /\ vSendMsg[p] # <<>> /\ MayReceive(p)
    /\ sel' = [sel EXCEPT ![p] = "recv"]
    /\ UNCHANGED <<sendVars, wire, vRecvMsg, vRecvGetData, asked>>

Readable(p) == sel[p] = "recv" /\ wire[Other(p)] # <<>>
Writable(p) == sel[p] = "send" /\ Len(wire[p]) < WireSize

\* select() returns after 50 ms without an event.
SelectTimeout(p) ==
    /\ sel[p] # "none" /\ ~Readable(p) /\ ~Writable(p)
    /\ sel' = [sel EXCEPT ![p] = "none"]
    /\ UNCHANGED <<sendVars, wire, vRecvMsg, vRecvGetData, asked>>

\* Mutant of ReceiveMsgBytes: a new message is begun for every read.
ReceiveMsgBytes_Fresh(msgs, units) == Append(msgs, units)

\* Mutant of ReceiveMsgBytes: what follows the end of a message is dropped.
ReceiveMsgBytes_One(msgs, units) ==
    LET open == msgs # <<>> /\ ~Complete(Last(msgs))
        msg == IF open THEN Last(msgs) \o units ELSE units
        kept == SubSeq(msg, 1, Least(Len(msg), Size(msg[1][1])))
    IN IF open THEN [msgs EXCEPT ![Len(msgs)] = kept] ELSE Append(msgs, kept)

\* ReceiveMsgBytes: units go to the last message until it is complete, then to a new one.
ReceiveMsgBytes(msgs, units) ==
    LET Absorb(acc, u) == IF acc = <<>> \/ Complete(Last(acc)) THEN Append(acc, <<u>>)
                          ELSE [acc EXCEPT ![Len(acc)] = Append(@, u)]
        after[i \in 0..Len(units)] == IF i = 0 THEN msgs ELSE Absorb(after[i - 1], units[i])
    IN after[Len(units)]

\* The socket is readable: recv() takes what there is, up to the size of pchBuf.
SocketReceive(p) ==
    LET q == Other(p)
        n == Least(Len(wire[q]), ReadMax)
    IN /\ Readable(p)
       /\ vRecvMsg' = [vRecvMsg EXCEPT ![p] = ReceiveMsgBytes(@, SubSeq(wire[q], 1, n))]
       /\ wire' = [wire EXCEPT ![q] = SubSeq(@, n + 1, Len(@))]
       /\ sel' = [sel EXCEPT ![p] = "none"]
       /\ UNCHANGED <<sendVars, vRecvGetData, asked>>

\* The socket is writable.
SocketSend(p) ==
    /\ Writable(p)
    /\ \E n \in Accepted(p, SumSize(vSendMsg[p]) - nSendOffset[p]) :
          SocketSendData(p, vSendMsg[p], nSendSize[p], n)
    /\ sel' = [sel EXCEPT ![p] = "none"]
    /\ UNCHANGED <<vRecvMsg, vRecvGetData, asked>>
-----------------------------------------------------------------------------
(* ThreadMessageHandler *)

\* "Don't bother if send buffer is too full to respond anyway".
Room(p) == nSendSize[p] < SENDBUFFER

\* ProcessGetData: one block per call, while there is room for answers.
ProcessGetData(p) ==
    /\ vRecvGetData[p] # <<>> /\ Room(p)
    /\ PushMessage(p, Head(vRecvGetData[p]))
    /\ vRecvGetData' = [vRecvGetData EXCEPT ![p] = Tail(@)]
    /\ UNCHANGED <<vRecvMsg, sel, asked>>

\* ProcessMessages: the first message, if it is complete.  The handler of getdata adds the
\* items and goes on with ProcessGetData.
ProcessMessage(p) ==
    /\ vRecvMsg[p] # <<>> /\ vRecvGetData[p] = <<>> /\ Room(p)
    /\ Complete(Head(vRecvMsg[p]))
    /\ vRecvMsg' = [vRecvMsg EXCEPT ![p] = Tail(@)]
    /\ LET m == Head(vRecvMsg[p])[1][1]
           items == [j \in 1..Items |-> Block(m[2], j)]
       IN IF m[1] = "getdata"
          THEN PushMessage(p, Head(items)) /\ vRecvGetData' = [vRecvGetData EXCEPT ![p] = Tail(items)]
          ELSE UNCHANGED <<sendVars, wire, vRecvGetData>>
    /\ UNCHANGED <<sel, asked>>
-----------------------------------------------------------------------------
SocketThread(p) == Select(p) \/ SelectBusy(p) \/ SelectTimeout(p) \/ SocketReceive(p) \/ SocketSend(p)
MessageThread(p) == ProcessGetData(p) \/ ProcessMessage(p)

Next == \E p \in Nodes : SocketThread(p) \/ MessageThread(p) \/ SendMessages(p)

Spec == Init /\ [][Next]_vars
-----------------------------------------------------------------------------
(* Properties *)

TypeOK ==
    /\ vSendMsg \in [Nodes -> Seq(Messages)] /\ vRecvGetData \in [Nodes -> Seq(Messages)]
    /\ nSendSize \in [Nodes -> Nat] /\ nSendOffset \in [Nodes -> Nat]
    /\ wire \in [Nodes -> Seq(Messages \X Nat)] /\ \A p \in Nodes : Len(wire[p]) <= WireSize
    /\ sel \in [Nodes -> {"none", "send", "recv"}] /\ asked \in [Nodes -> 0..MaxAsks]

\* The assertions of SocketSendData: nSendSize is the size of the queue, and the offset
\* lies inside its first message, or is 0 when there is none.
SendQueueExact ==
    \A p \in Nodes :
        /\ nSendSize[p] = SumSize(vSendMsg[p])
        /\ IF vSendMsg[p] = <<>> THEN nSendOffset[p] = 0 ELSE nSendOffset[p] < Size(Head(vSendMsg[p]))

\* Answers never fill the send buffer by more than one message beyond its limit, however
\* much the peer asks for: only the requests of the node itself come on top.
SendBounded == \A p \in Nodes : nSendSize[p] <= SENDBUFFER - 1 + BlockSize + asked[p]

\* What waits to be processed stays within the flood limit and one more read, the last
\* message of which counts in full; the decision to read may be older than the last message.
ReceiveBounded == \A p \in Nodes : TotalRecvSize(p) <= RECEIVEFLOOD + ReadMax + BlockSize - 1

\* The messages on their way from p: first units in order of their pushes.
Channel(p) ==
    LET all == Concat(vRecvMsg[Other(p)]) \o wire[p]
                 \o SubSeq(Stream(vSendMsg[p]), nSendOffset[p] + 1, SumSize(vSendMsg[p]))
        firsts == SelectSeq(all, LAMBDA u : u[2] = 1)
    IN [i \in DOMAIN firsts |-> firsts[i][1]]

\* The detailed buffers implement a FIFO channel in each direction.
Abstract == INSTANCE Fifo WITH channel <- [p \in Nodes |-> Channel(p)]

\* Partial sends, partial reads and the two threads neither lose, repeat, tear nor reorder
\* a message.
ImplementsFifo == Abstract!Spec

\* Every block asked for arrives, when the requests alone do not fill the wire.
EveryAskAnswered ==
    \A p \in Askers : \A i \in 1..MaxAsks :
        (asked[p] >= i) ~> (vRecvGetData[Other(p)] = <<>> /\ Channel(p) = <<>> /\ Channel(Other(p)) = <<>>)

\* One of the three things the comment in ThreadSocketHandler counts on.
CanSend(p) == vSendMsg[p] # <<>> /\ Len(wire[p]) < WireSize
CanReceive(p) == vSendMsg[p] = <<>> /\ MayReceive(p)
CanProcess(p) == Room(p) /\ (vRecvGetData[p] # <<>> \/ (vRecvMsg[p] # <<>> /\ Complete(Head(vRecvMsg[p]))))

\* "at least one of the following is always possible, so we don't deadlock": again and
\* again some node sends, waits for data or processes a message.
\* The code does not keep this (README, section 4).
NoDeadlock == []<>(\E p \in Nodes : CanSend(p) \/ CanReceive(p) \/ CanProcess(p))
=============================================================================
