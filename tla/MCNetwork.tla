------------------------------ MODULE MCNetwork ------------------------------
(***************************************************************************)
(* The life of connections and the buffers of one connection.  The two     *)
(* models share no state, so one of them takes steps at a time and the     *)
(* other stays in its initial state: part says which.  Two parts of the    *)
(* same model differ in its constants.                                     *)
(***************************************************************************)
EXTENDS Connections

VARIABLES
    part,
    vSendMsg, nSendSize, nSendOffset, wire, vRecvMsg, vRecvGetData, sel, asked

bufferVars == <<vSendMsg, nSendSize, nSendOffset, wire, vRecvMsg, vRecvGetData, sel, asked>>

\* Two threads that open connections to one host, beside inbound ones, of which none gets
\* as far as the version message; and one such thread and "addnode onetry".  Once a slot was
\* posted twice or lost, the run goes no further: it could happen again without end.
Racing ==
    /\ opener'["o3"] = Idle /\ EverySlotOnce
    /\ \A n \in Heap : node'[n] # NULL => ~node'[n].fSuccessfullyConnected
OneAndOneTry == opener'["o2"] = Idle

\* Both ends ask for blocks that are larger than the wire takes at once.
BothWays == INSTANCE Transport WITH
    Nodes <- {"A", "B"}, Askers <- {"A", "B"}, MaxAsks <- 2, Items <- 2, BlockSize <- 2,
    WireSize <- 2, SENDBUFFER <- 2, RECEIVEFLOOD <- 2, ReadMax <- 2

\* One end asks, and the wire takes all of its requests.
OneWay == INSTANCE Transport WITH
    Nodes <- {"A", "B"}, Askers <- {"A"}, MaxAsks <- 2, Items <- 2, BlockSize <- 2,
    WireSize <- 2, SENDBUFFER <- 2, RECEIVEFLOOD <- 2, ReadMax <- 2

ASSUME NetworkAssumption ==
    /\ ConnectionsAssumption
    /\ BothWays!TransportAssumption /\ OneWay!TransportAssumption

MCInit ==
    /\ part \in {"racing", "onetry", "bothways", "oneway"}
    /\ Init /\ BothWays!Init

MCNext ==
    /\ UNCHANGED part
    /\ \/ part = "racing" /\ Next /\ Racing /\ UNCHANGED bufferVars
       \/ part = "onetry" /\ Next /\ OneAndOneTry /\ UNCHANGED bufferVars
       \/ part = "bothways" /\ BothWays!Next /\ UNCHANGED vars
       \/ part = "oneway" /\ OneWay!Next /\ UNCHANGED vars

\* Every thread goes on; whether a connection is opened and whether a node asks is open.
\* The message thread gets cs_vNodes when the socket thread leaves it free again and again.
\* The message thread has cs_vSend at some looks of the socket thread, never at all.
Fairness ==
    /\ WF_vars(part = "onetry" /\ ~Dangling /\ SocketThread)
    /\ SF_vars(part = "onetry" /\ ~Dangling /\ MessageThread)
    /\ \A o \in {"o1", "o3"} : WF_vars(part = "onetry" /\ ~Dangling /\ Opening(o))
    /\ \A p \in {"A", "B"} :
          /\ WF_bufferVars(part = "oneway" /\ OneWay!SocketThread(p))
          /\ SF_bufferVars(part = "oneway" /\ OneWay!Select(p))
          /\ WF_bufferVars(part = "oneway" /\ OneWay!MessageThread(p))

MCSpec == MCInit /\ [][MCNext]_<<part, vars, bufferVars>> /\ Fairness
-----------------------------------------------------------------------------
\* A node to be disconnected is deleted in the end, whoever opened it and whoever uses it
\* (ThreadSocketHandler).
NodesFreed == part = "onetry" => DisconnectedFreed

\* However much a peer asks for, and however it sends, the buffers keep to their limits, and
\* the assertions of SocketSendData on the queue, its size and its offset hold.
BuffersBounded ==
    BothWays!TypeOK /\ BothWays!SendQueueExact /\ BothWays!SendBounded /\ BothWays!ReceiveBounded

\* Partial sends and reads of two threads neither lose, repeat, tear nor reorder a message:
\* the buffers implement a FIFO channel in each direction (SocketSendData, ReceiveMsgBytes).
ImplementsFifo == BothWays!ImplementsFifo

\* Every request is answered, when the requests alone do not fill the wire (ProcessGetData).
EveryAskAnswered == part = "oneway" => OneWay!EveryAskAnswered
=============================================================================
