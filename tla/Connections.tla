----------------------------- MODULE Connections -----------------------------
(***************************************************************************)
(* The life of a CNode (net.cpp): the threads that open connections, the   *)
(* socket thread that accepts, services, disconnects and deletes nodes,    *)
(* the message thread that serves them and chooses the node to sync from,  *)
(* their reference counts and the slots for outbound connections.          *)
(*                                                                         *)
(* A node is known by the place of its CNode on the heap, which a later    *)
(* CNode may get again; pnodeSync is such a place.  An address stands for  *)
(* a host with the default port; an inbound node has the host and another  *)
(* port.  Buffers, messages and bans are choices: a node may fail, be told *)
(* to disconnect or time out whenever a thread looks at it.                *)
(***************************************************************************)
EXTENDS Integers, FiniteSets, FiniteSetsExt

CONSTANTS
    Heap,                \* places for CNodes
    Addrs,
    Openers,             \* ThreadOpenConnections, ThreadOpenAddedConnections
    OneTry,              \* threads of the RPC server that run "addnode onetry"
    MAX_OUTBOUND_CONNECTIONS,
    MaxInbound,          \* nMaxConnections - MAX_OUTBOUND_CONNECTIONS
    NULL

\* The fields of a CNode; "asked" is that SendMessages has sent it getblocks, "odd" the
\* history of a reference that is never released.
NodeType ==
    [addr : Addrs, fInbound : BOOLEAN, fNetworkNode : BOOLEAN, nRefCount : Int, fDisconnect : BOOLEAN,
     hSocket : BOOLEAN, grantOutbound : BOOLEAN, fSuccessfullyConnected : BOOLEAN, fStartSync : BOOLEAN,
     asked : BOOLEAN, odd : BOOLEAN]

ConnectionsAssumption ==
    /\ IsFiniteSet(Heap) /\ IsFiniteSet(Openers \cup OneTry) /\ Openers \cap OneTry = {}
    /\ NULL \notin Heap /\ NULL \notin Addrs /\ NULL \notin NodeType
    /\ MAX_OUTBOUND_CONNECTIONS \in Nat /\ MaxInbound \in Nat

VARIABLES
    node,                \* place -> the CNode there, or NULL
    vNodes, vNodesDisconnected,
    semOutbound, pnodeSync,
    opener,              \* thread -> its step, its address, its node, the count it has read, its grant
    sock,                \* the socket thread: its step, its vNodesCopy, the nodes it removes and
                         \* those of them whose grant it releases
    handler,             \* the message thread: its step, its vNodesCopy and its pnodeNewSync
    unlocked,            \* history: the places where a reference was taken without a lock
    raced                \* history: two threads were at the grant of a node at once

vars == <<node, vNodes, vNodesDisconnected, semOutbound, pnodeSync, opener, sock, handler, unlocked, raced>>
history == <<unlocked, raced>>
listVars == <<vNodes, vNodesDisconnected>>

Threads == Openers \cup OneTry
Allocated == {n \in Heap : node[n] # NULL}

\* The constructor.
NewNode(a, inbound) ==
    [addr |-> a, fInbound |-> inbound, fNetworkNode |-> FALSE, nRefCount |-> 1, fDisconnect |-> FALSE,
     hSocket |-> TRUE, grantOutbound |-> FALSE, fSuccessfullyConnected |-> FALSE, fStartSync |-> FALSE,
     asked |-> FALSE, odd |-> FALSE]

Idle == [pc |-> "idle", addr |-> NULL, pnode |-> NULL, read |-> 0, grant |-> FALSE]

Init ==
    /\ node = [n \in Heap |-> NULL] /\ vNodes = {} /\ vNodesDisconnected = {}
    /\ semOutbound = MAX_OUTBOUND_CONNECTIONS /\ pnodeSync = NULL
    /\ opener = [o \in Threads |-> Idle]
    /\ sock = [pc |-> "disconnect", copy |-> {}, gone |-> {}, slots |-> {}]
    /\ handler = [pc |-> "copy", copy |-> {}, new |-> NULL]
    /\ unlocked = {} /\ raced = FALSE

\* AddRef and Release for every node of a set, under cs_vNodes.
AddRefs(f, S) == [n \in Heap |-> IF n \in S THEN [f[n] EXCEPT !.nRefCount = @ + 1] ELSE f[n]]
Releases(f, S) == [n \in Heap |-> IF n \in S /\ f[n] # NULL THEN [f[n] EXCEPT !.nRefCount = @ - 1] ELSE f[n]]

\* CloseSocketDisconnect for every node of a set.
CloseSocketDisconnect(f, S) ==
    [n \in Heap |-> IF n \in S THEN [f[n] EXCEPT !.fDisconnect = TRUE, !.hSocket = FALSE] ELSE f[n]]
NeedNewSync(S) == IF pnodeSync \in S THEN NULL ELSE pnodeSync

\* The socket thread holds cs_vNodes while it removes nodes; the other threads' holds of it
\* are single steps.
cs_vNodesFree == sock.pc \notin {"post", "clear"}

\* CSemaphoreGrant::Release looks at fHaveGrant, posts the semaphore and clears fHaveGrant:
\* the nodes of which a thread has looked at the grant, and has not cleared it.
Releasing == {o \in Threads : opener[o].pc \in {"post", "clear"}}
AtGrant == sock.slots \cup {opener[o].pnode : o \in Releasing}
-----------------------------------------------------------------------------
(* Opening a connection *)

\* The end of OpenNetworkConnection; the destructor of the grant.
Return(o) ==
    /\ opener' = [opener EXCEPT ![o] = Idle]
    /\ semOutbound' = semOutbound + (IF opener[o].grant THEN 1 ELSE 0)

\* A slot for an outbound connection, and an address of which there is no connection.
ChooseAddress(o, a) ==
    /\ o \in Openers /\ opener[o].pc = "idle" /\ semOutbound > 0 /\ cs_vNodesFree
    /\ ~\E n \in vNodes : ~node[n].fInbound /\ node[n].addr = a
    /\ semOutbound' = semOutbound - 1
    /\ opener' = [opener EXCEPT ![o] = [Idle EXCEPT !.pc = "open", !.addr = a, !.grant = TRUE]]
    /\ UNCHANGED <<node, listVars, pnodeSync, sock, handler, history>>

\* "addnode onetry" calls ConnectNode by name: without a slot and without a look at vNodes.
AddNodeOneTry(o, a) ==
    /\ o \in OneTry /\ opener[o].pc = "idle"
    /\ opener' = [opener EXCEPT ![o] = [Idle EXCEPT !.pc = "connect", !.addr = a]]
    /\ UNCHANGED <<node, listVars, semOutbound, pnodeSync, sock, handler, history>>

\* OpenNetworkConnection: FindNode by host.
OpenNetworkConnection(o) ==
    /\ opener[o].pc = "open" /\ cs_vNodesFree
    /\ IF \E n \in vNodes : node[n].addr = opener[o].addr
       THEN Return(o)
       ELSE opener' = [opener EXCEPT ![o].pc = "find"] /\ UNCHANGED semOutbound
    /\ UNCHANGED <<node, listVars, pnodeSync, sock, handler, history>>

\* ConnectNode: FindNode by host and port.  The lock is released with it.
FindNode(o) ==
    /\ opener[o].pc = "find" /\ cs_vNodesFree
    /\ LET same == {n \in vNodes : node[n].addr = opener[o].addr /\ ~node[n].fInbound}
       IN \/ same = {} /\ opener' = [opener EXCEPT ![o].pc = "connect"]
          \/ \E n \in same : opener' = [opener EXCEPT ![o].pc = "addref", ![o].pnode = n]
    /\ UNCHANGED <<node, listVars, semOutbound, pnodeSync, sock, handler, history>>

\* AddRef of the node found, without a lock: read and write.
AddRefRead(o) ==
    /\ opener[o].pc = "addref"
    /\ opener' = [opener EXCEPT ![o].pc = "addrefwrite", ![o].read = node[opener[o].pnode].nRefCount]
    /\ UNCHANGED <<node, listVars, semOutbound, pnodeSync, sock, handler, history>>

AddRefWrite(o) ==
    /\ opener[o].pc = "addrefwrite"
    /\ node' = [node EXCEPT ![opener[o].pnode].nRefCount = opener[o].read + 1, ![opener[o].pnode].odd = TRUE]
    /\ opener' = [opener EXCEPT ![o].pc = "move", ![o].read = 0]
    /\ unlocked' = unlocked \cup {opener[o].pnode}
    /\ UNCHANGED <<listVars, semOutbound, pnodeSync, sock, handler, raced>>

\* ConnectSocket fails, or there is a new CNode with a reference of its own.
ConnectSocket(o) ==
    /\ opener[o].pc = "connect"
    /\ \/ Return(o) /\ UNCHANGED node
       \/ \E n \in Heap \ Allocated :
             /\ node' = [node EXCEPT ![n] = NewNode(opener[o].addr, FALSE)]
             /\ opener' = [opener EXCEPT ![o].pc = "push", ![o].pnode = n]
             /\ UNCHANGED semOutbound
    /\ UNCHANGED <<listVars, pnodeSync, sock, handler, history>>

\* ConnectNode adds it to vNodes.
PushNode(o) ==
    /\ opener[o].pc = "push" /\ cs_vNodesFree
    /\ vNodes' = vNodes \cup {opener[o].pnode}
    /\ opener' = [opener EXCEPT ![o] = IF o \in OneTry THEN Idle ELSE [@ EXCEPT !.pc = "move"]]
    /\ UNCHANGED <<node, vNodesDisconnected, semOutbound, pnodeSync, sock, handler, history>>

\* MoveTo, without a lock: Release of the grant of the node in three steps.
MoveLooks(o) ==
    /\ opener[o].pc = "move"
    /\ LET held == node[opener[o].pnode].grantOutbound
       IN /\ opener' = [opener EXCEPT ![o].pc = IF held THEN "post" ELSE "set"]
          /\ raced' = (raced \/ (held /\ opener[o].pnode \in AtGrant))
    /\ UNCHANGED <<node, listVars, semOutbound, pnodeSync, sock, handler, unlocked>>

MovePosts(o) ==
    /\ opener[o].pc = "post"
    /\ semOutbound' = semOutbound + 1
    /\ opener' = [opener EXCEPT ![o].pc = "clear"]
    /\ UNCHANGED <<node, listVars, pnodeSync, sock, handler, history>>

MoveClears(o) ==
    /\ opener[o].pc = "clear"
    /\ node' = [node EXCEPT ![opener[o].pnode].grantOutbound = FALSE]
    /\ opener' = [opener EXCEPT ![o].pc = "set"]
    /\ UNCHANGED <<listVars, semOutbound, pnodeSync, sock, handler, history>>

\* The rest of MoveTo: the node has the grant of the thread now.
MoveSets(o) ==
    /\ opener[o].pc = "set"
    /\ node' = [node EXCEPT ![opener[o].pnode].grantOutbound = opener[o].grant]
    /\ opener' = [opener EXCEPT ![o].pc = "network", ![o].grant = FALSE]
    /\ raced' = (raced \/ node[opener[o].pnode].grantOutbound)
    /\ UNCHANGED <<listVars, semOutbound, pnodeSync, sock, handler, unlocked>>

\* fNetworkNode, the last line of OpenNetworkConnection.
SetNetworkNode(o) ==
    /\ opener[o].pc = "network"
    /\ node' = [node EXCEPT ![opener[o].pnode].fNetworkNode = TRUE]
    /\ Return(o)
    /\ UNCHANGED <<listVars, pnodeSync, sock, handler, history>>
-----------------------------------------------------------------------------
(* ThreadSocketHandler *)

Unused(n) == node[n].fDisconnect \/ node[n].nRefCount <= 0

\* Mutant of OwnReference: inbound nodes are forgotten.
OwnReference_Outbound(n) == node[n].fNetworkNode

\* The nodes that lose their own reference when they are removed.
OwnReference(n) == node[n].fNetworkNode \/ node[n].fInbound

\* The nodes to remove, and those of them that have a grant.  They go together, where the
\* code takes one after the other.
FindUnused ==
    /\ sock.pc = "disconnect"
    /\ LET gone == {n \in vNodes : Unused(n)}
           slots == {n \in gone : node[n].grantOutbound}
       IN /\ sock' = [sock EXCEPT !.pc = "post", !.gone = gone, !.slots = slots]
          /\ raced' = (raced \/ slots \cap AtGrant # {})
    /\ UNCHANGED <<node, listVars, semOutbound, pnodeSync, opener, handler, unlocked>>

PostSlots ==
    /\ sock.pc = "post"
    /\ semOutbound' = semOutbound + Cardinality(sock.slots)
    /\ sock' = [sock EXCEPT !.pc = "clear"]
    /\ UNCHANGED <<node, listVars, pnodeSync, opener, handler, history>>

\* They leave vNodes without a grant, and give up their own reference.
DisconnectNodes ==
    /\ sock.pc = "clear"
    /\ LET gone == sock.gone
           freed == [n \in Heap |-> IF n \in gone
                        THEN [node[n] EXCEPT !.grantOutbound = @ /\ n \notin sock.slots,
                                             !.odd = @ \/ ~(node[n].fNetworkNode \/ node[n].fInbound)]
                        ELSE node[n]]
       IN /\ vNodes' = vNodes \ gone /\ vNodesDisconnected' = vNodesDisconnected \cup gone
          /\ node' = Releases(CloseSocketDisconnect(freed, gone), {n \in gone : OwnReference(n)})
          /\ pnodeSync' = NeedNewSync(gone)
    /\ sock' = [sock EXCEPT !.pc = "delete", !.gone = {}, !.slots = {}]
    /\ UNCHANGED <<semOutbound, opener, handler, history>>

\* Mutant of Deletable: the count has to be below zero.
Deletable_Negative(n) == node[n].nRefCount < 0

\* "wait until threads are done using it".
Deletable(n) == node[n].nRefCount <= 0

DeleteNodes ==
    /\ sock.pc = "delete"
    /\ LET dead == {n \in vNodesDisconnected : Deletable(n)}
       IN /\ node' = [n \in Heap |-> IF n \in dead THEN NULL ELSE node[n]]
          /\ vNodesDisconnected' = vNodesDisconnected \ dead
          /\ semOutbound' = semOutbound + Cardinality({n \in dead : node[n].grantOutbound})
          /\ raced' = (raced \/ dead \cap AtGrant # {})
    /\ sock' = [sock EXCEPT !.pc = "accept"]
    /\ UNCHANGED <<vNodes, pnodeSync, opener, handler, unlocked>>

\* A connection is accepted while there is room for it.
AcceptNodes ==
    /\ sock.pc = "accept"
    /\ \/ UNCHANGED <<node, vNodes>>
       \/ /\ Cardinality({n \in vNodes : node[n].fInbound}) < MaxInbound
          /\ \E n \in Heap \ Allocated, a \in Addrs :
                node' = [node EXCEPT ![n] = NewNode(a, TRUE)] /\ vNodes' = vNodes \cup {n}
    /\ sock' = [sock EXCEPT !.pc = "copy"]
    /\ UNCHANGED <<vNodesDisconnected, semOutbound, pnodeSync, opener, handler, history>>

SocketCopy ==
    /\ sock.pc = "copy"
    /\ node' = AddRefs(node, vNodes)
    /\ sock' = [sock EXCEPT !.pc = "service", !.copy = vNodes]
    /\ UNCHANGED <<listVars, semOutbound, pnodeSync, opener, handler, history>>

\* Every socket is serviced: some nodes are closed, some time out.
ServiceNodes ==
    /\ sock.pc = "service"
    /\ \E closed \in SUBSET {n \in sock.copy : node[n].hSocket} :
       \E late \in SUBSET {n \in sock.copy \ closed : node[n].hSocket} :
          /\ node' = [n \in Heap |-> IF n \in late THEN [node[n] EXCEPT !.fDisconnect = TRUE]
                                     ELSE CloseSocketDisconnect(node, closed)[n]]
          /\ pnodeSync' = NeedNewSync(closed)
    /\ sock' = [sock EXCEPT !.pc = "release"]
    /\ UNCHANGED <<listVars, semOutbound, opener, handler, history>>

SocketRelease ==
    /\ sock.pc = "release"
    /\ node' = Releases(node, sock.copy)
    /\ sock' = [sock EXCEPT !.pc = "disconnect", !.copy = {}]
    /\ UNCHANGED <<listVars, semOutbound, pnodeSync, opener, handler, history>>
-----------------------------------------------------------------------------
(* ThreadMessageHandler *)

HandlerCopy ==
    /\ handler.pc = "copy" /\ cs_vNodesFree
    /\ node' = AddRefs(node, vNodes)
    /\ handler' = [pc |-> IF pnodeSync \in vNodes THEN "process" ELSE "sync", copy |-> vNodes, new |-> NULL]
    /\ UNCHANGED <<listVars, semOutbound, pnodeSync, opener, sock, history>>

\* StartSync: the node it finds best, of those it may sync from.
SelectSync ==
    /\ handler.pc = "sync"
    /\ LET able == {n \in handler.copy : ~node[n].fDisconnect /\ node[n].fSuccessfullyConnected}
       IN \/ \E n \in able : handler' = [handler EXCEPT !.pc = "assign", !.new = n]
          \/ able = {} /\ handler' = [handler EXCEPT !.pc = "process"]
    /\ UNCHANGED <<node, listVars, semOutbound, pnodeSync, opener, sock, history>>

\* The end of StartSync.
AssignSync ==
    /\ handler.pc = "assign"
    /\ node' = [node EXCEPT ![handler.new].fStartSync = TRUE]
    /\ pnodeSync' = handler.new
    /\ handler' = [handler EXCEPT !.pc = "process", !.new = NULL]
    /\ UNCHANGED <<listVars, semOutbound, opener, sock, history>>

\* ProcessMessages on some message, then SendMessages.
Served(r, outcome) ==
    LET processed == CASE outcome = "none" -> r
                       [] outcome = "version" -> [r EXCEPT !.fSuccessfullyConnected = TRUE]
                       [] outcome = "disconnect" -> [r EXCEPT !.fDisconnect = TRUE]
                       [] outcome = "close" -> [r EXCEPT !.fDisconnect = TRUE, !.hSocket = FALSE]
    IN IF processed.fSuccessfullyConnected
       THEN [processed EXCEPT !.fStartSync = FALSE, !.asked = @ \/ processed.fStartSync]
       ELSE processed

ProcessNodes ==
    /\ handler.pc = "process"
    /\ LET active == {n \in handler.copy : ~node[n].fDisconnect}
       IN \E outcome \in [active -> {"none", "version", "disconnect", "close"}] :
             /\ node' = [n \in Heap |-> IF n \in active THEN Served(node[n], outcome[n]) ELSE node[n]]
             /\ pnodeSync' = NeedNewSync({n \in active : outcome[n] = "close"})
    /\ handler' = [handler EXCEPT !.pc = "release"]
    /\ UNCHANGED <<listVars, semOutbound, opener, sock, history>>

HandlerRelease ==
    /\ handler.pc = "release" /\ cs_vNodesFree
    /\ node' = Releases(node, handler.copy)
    /\ handler' = [pc |-> "copy", copy |-> {}, new |-> NULL]
    /\ UNCHANGED <<listVars, semOutbound, pnodeSync, opener, sock, history>>
-----------------------------------------------------------------------------
SocketThread ==
    \/ FindUnused \/ PostSlots \/ DisconnectNodes
    \/ DeleteNodes \/ AcceptNodes \/ SocketCopy \/ ServiceNodes \/ SocketRelease
MessageThread == HandlerCopy \/ SelectSync \/ AssignSync \/ ProcessNodes \/ HandlerRelease
Opening(o) ==
    \/ OpenNetworkConnection(o) \/ FindNode(o) \/ AddRefRead(o) \/ AddRefWrite(o)
    \/ ConnectSocket(o) \/ PushNode(o) \/ SetNetworkNode(o)
    \/ MoveLooks(o) \/ MovePosts(o) \/ MoveClears(o) \/ MoveSets(o)

\* A thread has a node that was deleted, and is about to use it: the rest is undefined.
Dangling ==
    ~(sock.copy \cup handler.copy \cup {opener[o].pnode : o \in Threads} \subseteq Allocated \cup {NULL})

Next ==
    /\ ~Dangling
    /\ \/ SocketThread \/ MessageThread
       \/ \E o \in Threads : Opening(o) \/ \E a \in Addrs : ChooseAddress(o, a) \/ AddNodeOneTry(o, a)

Spec == Init /\ [][Next]_vars
-----------------------------------------------------------------------------
(* Properties *)

TypeOK ==
    /\ node \in [Heap -> NodeType \cup {NULL}] /\ semOutbound \in Nat
    /\ vNodes \subseteq Allocated /\ vNodesDisconnected \subseteq Allocated
    /\ vNodes \cap vNodesDisconnected = {} /\ pnodeSync \in Heap \cup {NULL}
    /\ sock.copy \subseteq Heap /\ handler.copy \subseteq Heap /\ unlocked \subseteq Heap /\ raced \in BOOLEAN

Holders(n) ==
    (IF n \in sock.copy THEN 1 ELSE 0) + (IF n \in handler.copy THEN 1 ELSE 0)
    + (IF n \in vNodesDisconnected THEN 0 ELSE 1)

\* The count of a node is the number of threads that use it, and one more until it is
\* removed from vNodes: what DeleteNodes relies on.  The exceptions are the nodes whose
\* own reference is never given back.
RefsExact == \A n \in Allocated : ~node[n].odd => node[n].nRefCount = Holders(n)

\* A thread that goes through its copy of vNodes meets no node that was deleted, but one of
\* which a reference was taken without the lock.
CopiesAlive == sock.copy \cup handler.copy \subseteq Allocated \cup unlocked

\* The nodes whose grant was posted and is not cleared yet.
Posted ==
    (IF sock.pc = "clear" THEN sock.slots ELSE {}) \cup {opener[o].pnode : o \in {p \in Threads : opener[p].pc = "clear"}}

\* A slot for an outbound connection is free, with a thread or with a CNode that has not
\* posted it: "release outbound grant (if any)" gives it back, and only once.
\* The code does not keep this when two threads are at one grant (README, section 4).
EverySlotOnce ==
    semOutbound + Cardinality({o \in Threads : opener[o].grant})
      + Cardinality({n \in Allocated : node[n].grantOutbound /\ n \notin Posted}) = MAX_OUTBOUND_CONNECTIONS

\* No slot is lost or given away twice, although a grant moves without a lock: the thread
\* that opens a connection and the socket thread may both have a node's, and a second
\* thread that finds the node replaces it.  The exception: two threads at it at once.
SlotsExact == ~raced => EverySlotOnce

\* A CNode has one reference for each thread that uses it and one of its own until it
\* leaves vNodes, so that no thread meets a deleted one in its copy of vNodes, but one of
\* which a reference was taken without the lock; and no slot for an outbound connection is lost or
\* given away twice, unless two threads were at the grant of one node at once
\* (CNode::AddRef, Release, CSemaphoreGrant).
ConnectionsExact == TypeOK /\ RefsExact /\ CopiesAlive /\ SlotsExact

\* A node that is to be disconnected is deleted in the end; only a node with a reference
\* nobody gives back stays.
DisconnectedFreed ==
    \A n \in Heap : (node[n] # NULL /\ node[n].fDisconnect) ~> (node[n] = NULL \/ node[n].odd \/ Dangling)

\* The pool is to "hold in disconnected pool until all refs are released": a reference of
\* a node there is one of a thread.
\* The code does not keep this (README, section 4).
PoolHasHolders ==
    \A n \in vNodesDisconnected : node[n].nRefCount > 0 =>
        n \in sock.copy \cup handler.copy \/ \E o \in Threads : opener[o].pnode = n

\* A node is deleted when "threads are done using it".
\* The code does not keep this (README, section 4).
NoUseAfterDelete == ~Dangling

\* The sync node was asked for blocks, or will be: "if this was the sync node, we'll need
\* a new one".
\* The code does not keep this (README, section 4).
SyncNodeAsked == pnodeSync \in vNodes => node[pnodeSync].fStartSync \/ node[pnodeSync].asked
=============================================================================
