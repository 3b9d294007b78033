--------------------------- MODULE ConnectionsProofs ---------------------------
(***************************************************************************)
(* Proofs about Connections, for any number of nodes, threads and slots.   *)
(*                                                                         *)
(* A node's reference count is the number of its holders because it moves  *)
(* from vNodes to vNodesDisconnected once, and gives up its own reference  *)
(* then; a thread's copy of vNodes is taken and given back whole.  The     *)
(* count is never below the number of holders, but that of a node of which *)
(* a reference was taken without the lock, and so no thread's copy         *)
(* contains another node that was deleted.                                 *)
(*                                                                         *)
(* No slot is lost or given away twice, as long as no two threads are at   *)
(* the grant of one node at once: the nodes whose grant a thread has       *)
(* looked at and not cleared have it and are different ones (Apart), so    *)
(* each step that moves a slot takes it from exactly one of the semaphore, *)
(* a thread and a node that has not posted it (SlotsInv).                  *)
(***************************************************************************)
EXTENDS Connections, FiniteSetTheorems, TLAPS

OpenerType ==
    [pc : {"idle", "open", "find", "addref", "addrefwrite", "connect", "push",
           "move", "post", "clear", "set", "network"},
     addr : Addrs \cup {NULL}, pnode : Heap \cup {NULL}, read : Int, grant : BOOLEAN]

SockType ==
    [pc : {"disconnect", "post", "clear", "delete", "accept", "copy", "service", "release"},
     copy : SUBSET Heap, gone : SUBSET Heap, slots : SUBSET Heap]
HandlerType ==
    [pc : {"copy", "sync", "assign", "process", "release"}, copy : SUBSET Heap, new : Heap \cup {NULL}]
USE DEF SockType, HandlerType

Typed ==
    /\ node \in [Heap -> NodeType \cup {NULL}] /\ semOutbound \in Int /\ pnodeSync \in Heap \cup {NULL}
    /\ vNodes \subseteq Allocated /\ vNodesDisconnected \subseteq Allocated
    /\ vNodes \cap vNodesDisconnected = {}
    /\ opener \in [Threads -> OpenerType]
    /\ sock \in SockType
    /\ handler \in HandlerType
    /\ unlocked \subseteq Heap

\* What the threads have in hand.
InHand ==
    /\ sock.pc \notin {"service", "release"} => sock.copy = {}
    /\ handler.pc = "copy" => handler.copy = {}
    /\ handler.pc = "assign" => handler.new \in handler.copy
    /\ \A o \in Threads : opener[o].pc \in {"addref", "addrefwrite", "push", "move", "post", "clear", "set", "network"} => opener[o].pnode \in Heap
    /\ \A o \in Threads : opener[o].pc \in {"open", "find", "connect"} => opener[o].addr \in Addrs

\* A new node is in no list before its thread puts it there.
Pushing ==
    \A o \in Threads : opener[o].pc = "push" =>
        /\ opener[o].pnode \in Allocated \ (vNodes \cup vNodesDisconnected)
        /\ \A p \in Threads : p # o /\ opener[p].pc = "push" => opener[p].pnode # opener[o].pnode

\* What the socket thread removes is in vNodes while it has the lock.
Removing ==
    /\ sock.gone \subseteq vNodes /\ sock.slots \subseteq sock.gone
    /\ sock.pc \notin {"post", "clear"} => sock.gone = {}

\* The counts are those of the holders, and never less but after a reference was taken without the lock.
RefsInv == RefsExact /\ \A n \in Allocated \ unlocked : node[n].nRefCount >= Holders(n)

IInv == Typed /\ InHand /\ Pushing /\ Removing /\ RefsInv /\ CopiesAlive

\* The nodes a thread is about to use are there.
Alive ==
    /\ sock.copy \subseteq Allocated /\ handler.copy \subseteq Allocated
    /\ \A o \in Threads : opener[o].pnode \in Heap => opener[o].pnode \in Allocated

LEMMA AliveNow ==
  ASSUME ConnectionsAssumption, IInv, ~Dangling
  PROVE  Alive
  BY DEF Alive, Dangling, IInv, Typed, ConnectionsAssumption, OpenerType

\* A CNode is not NULL.
LEMMA NodeFacts ==
  ASSUME ConnectionsAssumption, Typed
  PROVE  /\ \A n \in Heap : n \in Allocated <=> node[n] \in NodeType
         /\ NULL \notin NodeType /\ NULL \notin Heap /\ NULL \notin Addrs
         /\ \A r \in NodeType : r.nRefCount \in Int /\ r.odd \in BOOLEAN
         /\ \A a \in Addrs, b \in BOOLEAN : NewNode(a, b) \in NodeType
  BY DEF ConnectionsAssumption, Typed, Allocated, NodeType, NewNode

\* Steps that change neither a count nor a list nor a copy.
LEMMA CountsStay ==
  ASSUME ConnectionsAssumption, IInv, node' \in [Heap -> NodeType \cup {NULL}],
         \A n \in Heap : /\ node'[n] = NULL <=> node[n] = NULL
                         /\ node[n] # NULL => /\ node'[n].nRefCount = node[n].nRefCount
                                              /\ node[n].odd => node'[n].odd,
         UNCHANGED <<vNodes, vNodesDisconnected, unlocked>>, sock'.copy = sock.copy, handler'.copy = handler.copy
  PROVE  /\ Allocated' = Allocated
         /\ RefsInv' /\ CopiesAlive'
<1>1. Allocated' = Allocated
  BY DEF Allocated
<1>2. \A n : Holders(n)' = Holders(n)
  BY DEF Holders
<1> QED
  BY <1>1, <1>2 DEF IInv, RefsInv, RefsExact, CopiesAlive, Allocated

-----------------------------------------------------------------------------
(* Opening a connection *)

\* A thread goes on; it has put down what it had, or has it still.
LEMMA OpenerGoesOn ==
  ASSUME ConnectionsAssumption, IInv, NEW o \in Threads, NEW r \in OpenerType,
         opener' = [opener EXCEPT ![o] = r], r.pc # "push",
         r.pc \in {"addref", "addrefwrite", "move", "post", "clear", "set", "network"} => r.pnode \in Heap,
         r.pc \in {"open", "find", "connect"} => r.addr \in Addrs,
         UNCHANGED <<node, vNodes, vNodesDisconnected, pnodeSync, sock, handler, unlocked>>, semOutbound' \in Int
  PROVE  IInv'
<1>1. \A p \in Threads : opener'[p] = (IF p = o THEN r ELSE opener[p])
  BY DEF IInv, Typed
<1>2. Typed'
  BY DEF IInv, Typed, Allocated
<1>3. InHand' /\ Removing'
  BY <1>1 DEF IInv, InHand, Removing
<1>4. Pushing'
  BY <1>1 DEF IInv, Pushing, Allocated
<1>5. RefsInv' /\ CopiesAlive'
  BY CountsStay DEF IInv, Typed
<1> QED
  BY <1>2, <1>3, <1>4, <1>5 DEF IInv

\* The same, with a change to the node it has.
LEMMA OpenerWrites ==
  ASSUME ConnectionsAssumption, IInv, Alive, NEW o \in Threads, NEW r \in OpenerType,
         opener' = [opener EXCEPT ![o] = r], r.pc # "push",
         opener[o].pnode \in Heap, r.pc \in {"addref", "addrefwrite", "move", "post", "clear", "set", "network"} => r.pnode \in Heap,
         r.pc \notin {"open", "find", "connect"},
         NEW s \in NodeType, node' = [node EXCEPT ![opener[o].pnode] = s],
         s.nRefCount = node[opener[o].pnode].nRefCount, s.odd = node[opener[o].pnode].odd,
         UNCHANGED <<vNodes, vNodesDisconnected, pnodeSync, sock, handler, unlocked>>, semOutbound' \in Int
  PROVE  IInv'
<1>0. Typed /\ opener[o].pnode \in Allocated /\ node[opener[o].pnode] \in NodeType
  BY NodeFacts DEF Alive, IInv
<1>1. \A p \in Threads : opener'[p] = (IF p = o THEN r ELSE opener[p])
  BY <1>0 DEF Typed
<1>2. node' \in [Heap -> NodeType \cup {NULL}]
  BY <1>0 DEF Typed
<1>3. Allocated' = Allocated /\ RefsInv' /\ CopiesAlive'
  BY <1>0, <1>2, CountsStay, NodeFacts DEF Typed
<1>4. Typed'
  BY <1>0, <1>2, <1>3 DEF Typed
<1>5. InHand' /\ Removing'
  BY <1>1 DEF IInv, InHand, Removing
<1>6. Pushing'
  BY <1>1, <1>3 DEF IInv, Pushing
<1> QED
  BY <1>3, <1>4, <1>5, <1>6 DEF IInv

\* The record of a thread that is done.
LEMMA ReturnStep ==
  ASSUME ConnectionsAssumption, IInv, NEW o \in Threads, Return(o)
  PROVE  Idle \in OpenerType /\ Idle.pc = "idle" /\ opener' = [opener EXCEPT ![o] = Idle] /\ semOutbound' \in Int
  BY DEF Return, Idle, OpenerType, IInv, Typed

LEMMA ChooseStep ==
  ASSUME ConnectionsAssumption, IInv, NEW o \in Threads, NEW a \in Addrs, ChooseAddress(o, a) \/ AddNodeOneTry(o, a)
  PROVE  IInv'
<1>1. CASE ChooseAddress(o, a)
  <2> DEFINE r == [Idle EXCEPT !.pc = "open", !.addr = a, !.grant = TRUE]
  <2>1. Idle \in OpenerType
    BY DEF Idle, OpenerType
  <2>2. r \in OpenerType /\ r.pc = "open" /\ r.addr = a
    BY <2>1 DEF OpenerType
  <2>3. opener' = [opener EXCEPT ![o] = r] /\ semOutbound' \in Int
        /\ UNCHANGED <<node, vNodes, vNodesDisconnected, pnodeSync, sock, handler, unlocked>>
    BY <1>1 DEF ChooseAddress, IInv, Typed, listVars, history
  <2> HIDE DEF r
  <2> QED
    BY <2>2, <2>3, OpenerGoesOn
<1>2. CASE AddNodeOneTry(o, a)
  <2> DEFINE r == [Idle EXCEPT !.pc = "connect", !.addr = a]
  <2>1. Idle \in OpenerType
    BY DEF Idle, OpenerType
  <2>2. r \in OpenerType /\ r.pc = "connect" /\ r.addr = a
    BY <2>1 DEF OpenerType
  <2>3. opener' = [opener EXCEPT ![o] = r] /\ semOutbound' \in Int
        /\ UNCHANGED <<node, vNodes, vNodesDisconnected, pnodeSync, sock, handler, unlocked>>
    BY <1>2 DEF AddNodeOneTry, IInv, Typed, listVars, history
  <2> HIDE DEF r
  <2> QED
    BY <2>2, <2>3, OpenerGoesOn
<1> QED
  BY <1>1, <1>2

LEMMA FindStep ==
  ASSUME ConnectionsAssumption, IInv, NEW o \in Threads, OpenNetworkConnection(o) \/ FindNode(o)
  PROVE  IInv'
<1>0. opener[o] \in OpenerType /\ semOutbound \in Int /\ vNodes \subseteq Heap /\ NULL \notin Heap
  BY DEF IInv, Typed, Allocated, ConnectionsAssumption
<1>1. CASE OpenNetworkConnection(o) /\ Return(o)
  BY <1>1, ReturnStep, OpenerGoesOn DEF OpenNetworkConnection, listVars, history
<1>2. CASE OpenNetworkConnection(o) /\ opener' = [opener EXCEPT ![o].pc = "find"] /\ UNCHANGED semOutbound
  <2> DEFINE r == [opener[o] EXCEPT !.pc = "find"]
  <2>1. r \in OpenerType /\ r.pc = "find" /\ r.addr \in Addrs
    BY <1>0, <1>2 DEF OpenNetworkConnection, OpenerType, IInv, InHand
  <2> HIDE DEF r
  <2> QED
    BY <1>0, <1>2, <2>1, OpenerGoesOn DEF OpenNetworkConnection, listVars, history, r
<1>3. CASE FindNode(o) /\ opener' = [opener EXCEPT ![o].pc = "connect"]
  <2> DEFINE r == [opener[o] EXCEPT !.pc = "connect"]
  <2>1. r \in OpenerType /\ r.pc = "connect" /\ r.addr \in Addrs
    BY <1>0, <1>3 DEF FindNode, OpenerType, IInv, InHand
  <2> HIDE DEF r
  <2> QED
    BY <1>0, <1>3, <2>1, OpenerGoesOn DEF FindNode, listVars, history, r
<1>4. ASSUME NEW n \in vNodes, FindNode(o), opener' = [opener EXCEPT ![o].pc = "addref", ![o].pnode = n]
      PROVE  IInv'
  <2> DEFINE r == [opener[o] EXCEPT !.pc = "addref", !.pnode = n]
  <2>1. r \in OpenerType /\ r.pc = "addref" /\ r.pnode \in Heap
    BY <1>0, <1>4 DEF OpenerType
  <2>2. opener' = [opener EXCEPT ![o] = r]
    BY <1>4 DEF IInv, Typed
  <2> HIDE DEF r
  <2> QED
    BY <1>0, <1>4, <2>1, <2>2, OpenerGoesOn DEF FindNode, listVars, history
<1> QED
  BY <1>1, <1>2, <1>3, <1>4 DEF OpenNetworkConnection, FindNode

\* What the writes to a CNode leave.
LEMMA NodeWrites ==
  ASSUME NEW r \in NodeType
  PROVE  /\ \A k \in Int : /\ [r EXCEPT !.nRefCount = k] \in NodeType
                           /\ [r EXCEPT !.nRefCount = k].nRefCount = k /\ [r EXCEPT !.nRefCount = k].odd = r.odd
         /\ \A k \in Int : /\ [r EXCEPT !.nRefCount = k, !.odd = TRUE] \in NodeType
                           /\ [r EXCEPT !.nRefCount = k, !.odd = TRUE].odd
         /\ \A g \in BOOLEAN : /\ [r EXCEPT !.grantOutbound = g] \in NodeType
                               /\ [r EXCEPT !.grantOutbound = g].nRefCount = r.nRefCount
                               /\ [r EXCEPT !.grantOutbound = g].odd = r.odd
         /\ [r EXCEPT !.fNetworkNode = TRUE] \in NodeType
         /\ [r EXCEPT !.fNetworkNode = TRUE].nRefCount = r.nRefCount /\ [r EXCEPT !.fNetworkNode = TRUE].odd = r.odd
         /\ [r EXCEPT !.fStartSync = TRUE] \in NodeType
         /\ [r EXCEPT !.fStartSync = TRUE].nRefCount = r.nRefCount /\ [r EXCEPT !.fStartSync = TRUE].odd = r.odd
         /\ [r EXCEPT !.fDisconnect = TRUE] \in NodeType
         /\ [r EXCEPT !.fDisconnect = TRUE].nRefCount = r.nRefCount /\ [r EXCEPT !.fDisconnect = TRUE].odd = r.odd
  BY DEF NodeType

\* A step of a thread that reads a number.
LEMMA OpenerReads ==
  ASSUME NEW q \in OpenerType
  PROVE  \A k \in Int : /\ [q EXCEPT !.pc = "move", !.read = k] \in OpenerType
                         /\ [q EXCEPT !.pc = "move", !.read = k].pc = "move"
                         /\ [q EXCEPT !.pc = "move", !.read = k].pnode = q.pnode
  BY DEF OpenerType

LEMMA AddRefStep ==
  ASSUME ConnectionsAssumption, IInv, Alive, NEW o \in Threads, AddRefRead(o) \/ AddRefWrite(o)
  PROVE  IInv'
<1>0. opener[o] \in OpenerType /\ opener[o].pnode \in Allocated /\ opener[o].pnode \in Heap
      /\ node[opener[o].pnode] \in NodeType /\ semOutbound \in Int
  BY NodeFacts DEF IInv, Typed, InHand, Alive, AddRefRead, AddRefWrite
<1>1. CASE AddRefRead(o)
  <2> DEFINE r == [opener[o] EXCEPT !.pc = "addrefwrite", !.read = node[opener[o].pnode].nRefCount]
  <2>1. node[opener[o].pnode].nRefCount \in Int
    BY <1>0, NodeFacts DEF IInv
  <2>2. r \in OpenerType /\ r.pc = "addrefwrite" /\ r.pnode \in Heap
    BY <1>0, <2>1 DEF OpenerType
  <2>3. opener' = [opener EXCEPT ![o] = r]
    BY <1>1 DEF AddRefRead, IInv, Typed
  <2> HIDE DEF r
  <2> QED
    BY <1>0, <1>1, <2>2, <2>3, OpenerGoesOn DEF AddRefRead, listVars, history
<1>2. CASE AddRefWrite(o)
  <2> DEFINE r == [opener[o] EXCEPT !.pc = "move", !.read = 0]
             n == opener[o].pnode
             s == [node[n] EXCEPT !.nRefCount = opener[o].read + 1, !.odd = TRUE]
  <2>0. opener[o].read + 1 \in Int
    BY <1>0 DEF OpenerType
  <2>1. r \in OpenerType /\ r.pc = "move" /\ r.pnode \in Heap
    <3>1. 0 \in Int
      OBVIOUS
    <3> QED
      BY <1>0, <3>1, OpenerReads, Zenon
  <2>2. s \in NodeType /\ s.odd
    BY <1>0, <2>0, NodeWrites
  <2>x. opener' = [opener EXCEPT ![o] = r]
    BY <1>2 DEF AddRefWrite, IInv, Typed
  <2>y. node' = [node EXCEPT ![n] = s]
    BY <1>0, <1>2 DEF AddRefWrite, IInv, Typed
  <2>z. UNCHANGED <<vNodes, vNodesDisconnected, semOutbound, pnodeSync, sock, handler>> /\ unlocked' = unlocked \cup {n}
    BY <1>2 DEF AddRefWrite, listVars, history
  <2>3. opener' = [opener EXCEPT ![o] = r] /\ node' = [node EXCEPT ![n] = s]
        /\ UNCHANGED <<vNodes, vNodesDisconnected, semOutbound, pnodeSync, sock, handler>> /\ unlocked' = unlocked \cup {n}
    BY <2>x, <2>y, <2>z
  <2> HIDE DEF r, s
  <2>4. node' \in [Heap -> NodeType \cup {NULL}] /\ node'[n] = s /\ \A m \in Heap : m # n => node'[m] = node[m]
    BY <1>0, <2>2, <2>3 DEF IInv, Typed
  <2>5. Allocated' = Allocated
    BY <1>0, <2>2, <2>4, NodeFacts DEF Allocated, IInv
  <2>6. \A p \in Threads : opener'[p] = (IF p = o THEN r ELSE opener[p])
    BY <2>3 DEF IInv, Typed
  <2>7. Typed'
    BY <1>0, <2>1, <2>3, <2>4, <2>5, <2>6 DEF IInv, Typed
  <2>8. InHand' /\ Pushing' /\ Removing'
    BY <2>1, <2>3, <2>5, <2>6 DEF IInv, InHand, Pushing, Removing
  <2>9. RefsExact'
    <3> SUFFICES ASSUME NEW m \in Allocated, ~node'[m].odd PROVE node'[m].nRefCount = Holders(m)'
      BY <2>5 DEF RefsExact
    <3>1. m # n /\ node'[m] = node[m] /\ Holders(m)' = Holders(m)
      BY <2>2, <2>3, <2>4 DEF Holders, Allocated
    <3> QED
      BY <3>1 DEF IInv, RefsInv, RefsExact
  <2>10. \A m \in Allocated' \ unlocked' : node'[m].nRefCount >= Holders(m)'
    <3> SUFFICES ASSUME NEW m \in Allocated \ unlocked, m # n PROVE node'[m].nRefCount >= Holders(m)'
      BY <2>3, <2>5
    <3>1. node'[m] = node[m] /\ Holders(m)' = Holders(m)
      BY <2>3, <2>4 DEF Holders, Allocated
    <3> QED
      BY <3>1 DEF IInv, RefsInv
  <2>11. CopiesAlive'
    BY <2>3, <2>5 DEF IInv, CopiesAlive
  <2> QED
    BY <2>7, <2>8, <2>9, <2>10, <2>11 DEF IInv, RefsInv
<1> QED
  BY <1>1, <1>2

LEMMA ConnectStep ==
  ASSUME ConnectionsAssumption, IInv, Alive, NEW o \in Threads, ConnectSocket(o)
  PROVE  IInv'
<1>1. CASE Return(o) /\ UNCHANGED node
  BY <1>1, ReturnStep, OpenerGoesOn DEF ConnectSocket, listVars, history
<1>2. ASSUME NEW n \in Heap \ Allocated, node' = [node EXCEPT ![n] = NewNode(opener[o].addr, FALSE)],
             opener' = [opener EXCEPT ![o].pc = "push", ![o].pnode = n], UNCHANGED semOutbound
      PROVE  IInv'
  <2> DEFINE r == [opener[o] EXCEPT !.pc = "push", !.pnode = n]
             s == NewNode(opener[o].addr, FALSE)
  <2>0. opener[o] \in OpenerType /\ opener[o].addr \in Addrs /\ n \in Heap
    BY DEF ConnectSocket, IInv, Typed, InHand
  <2>1. r \in OpenerType /\ r.pc = "push" /\ r.pnode = n
    BY <2>0 DEF OpenerType
  <2>2. s \in NodeType /\ ~s.odd /\ s.nRefCount = 1
    <3>1. s \in NodeType
      BY <2>0, NodeFacts DEF IInv
    <3> QED
      BY <3>1 DEF NewNode
  <2>3. opener' = [opener EXCEPT ![o] = r] /\ node' = [node EXCEPT ![n] = s]
        /\ UNCHANGED <<vNodes, vNodesDisconnected, semOutbound, pnodeSync, sock, handler, unlocked>>
    BY <1>2 DEF ConnectSocket, IInv, Typed, listVars, history
  <2> HIDE DEF r, s
  <2>4. node' \in [Heap -> NodeType \cup {NULL}] /\ node'[n] = s /\ \A m \in Heap : m # n => node'[m] = node[m]
    BY <2>2, <2>3 DEF IInv, Typed
  <2>5. Allocated' = Allocated \cup {n}
    BY <2>2, <2>4, NodeFacts DEF Allocated, IInv
  <2>6. \A p \in Threads : opener'[p] = (IF p = o THEN r ELSE opener[p])
    BY <2>3 DEF IInv, Typed
  <2>7. Typed'
    BY <2>1, <2>3, <2>4, <2>5, <2>6 DEF IInv, Typed
  <2>8. InHand' /\ Removing'
    BY <2>1, <2>3, <2>6 DEF IInv, InHand, Removing
  <2>9. Pushing'
    BY <1>2, <2>1, <2>3, <2>5, <2>6 DEF IInv, Typed, Pushing
  <2>10. ASSUME NEW m \in Allocated PROVE m # n /\ node'[m] = node[m] /\ Holders(m)' = Holders(m)
    BY <2>3, <2>4 DEF Holders, Allocated
  <2>11. Holders(n)' = 1
    BY <1>2, <2>3 DEF Holders, Alive, IInv, Typed
  <2>12. RefsInv'
    BY <2>2, <2>3, <2>4, <2>5, <2>10, <2>11 DEF IInv, RefsInv, RefsExact
  <2>13. CopiesAlive'
    BY <2>3, <2>5 DEF IInv, CopiesAlive
  <2> QED
    BY <2>7, <2>8, <2>9, <2>12, <2>13 DEF IInv
<1> QED
  BY <1>1, <1>2 DEF ConnectSocket

LEMMA PushStep ==
  ASSUME ConnectionsAssumption, IInv, NEW o \in Threads, PushNode(o)
  PROVE  IInv'
<1> DEFINE r == IF o \in OneTry THEN Idle ELSE [opener[o] EXCEPT !.pc = "move"]
<1>0. opener[o] \in OpenerType /\ opener[o].pnode \in Heap /\ opener[o].pnode \in Allocated \ (vNodes \cup vNodesDisconnected)
  BY DEF PushNode, IInv, Typed, InHand, Pushing
<1>1. Idle \in OpenerType /\ Idle.pc = "idle"
  BY DEF Idle, OpenerType
<1>2. r \in OpenerType /\ r.pc \in {"idle", "move"} /\ (r.pc = "move" => r.pnode = opener[o].pnode)
  BY <1>0, <1>1 DEF OpenerType
<1>3. opener' = [opener EXCEPT ![o] = r] /\ vNodes' = vNodes \cup {opener[o].pnode}
      /\ UNCHANGED <<node, vNodesDisconnected, semOutbound, pnodeSync, sock, handler, unlocked>>
  BY DEF PushNode, IInv, Typed, listVars, history
<1> HIDE DEF r
<1>4. \A p \in Threads : opener'[p] = (IF p = o THEN r ELSE opener[p])
  BY <1>3 DEF IInv, Typed
<1>5. Allocated' = Allocated /\ \A m : Holders(m)' = Holders(m)
  BY <1>3 DEF Allocated, Holders
<1>6. Typed'
  BY <1>0, <1>2, <1>3, <1>4, <1>5 DEF IInv, Typed
<1>7. InHand' /\ Removing'
  BY <1>0, <1>2, <1>3, <1>4 DEF IInv, InHand, Removing
<1>8. Pushing'
  <2> SUFFICES ASSUME NEW p \in Threads, opener'[p].pc = "push"
               PROVE  /\ opener'[p].pnode \in Allocated' \ (vNodes' \cup vNodesDisconnected')
                      /\ \A q \in Threads : q # p /\ opener'[q].pc = "push" => opener'[q].pnode # opener'[p].pnode
    BY DEF Pushing
  <2>1. p # o /\ opener'[p] = opener[p] /\ opener[o].pc = "push"
    BY <1>2, <1>4 DEF PushNode
  <2>2. \A q \in Threads : opener'[q].pc = "push" => q # o /\ opener'[q] = opener[q]
    BY <1>2, <1>4
  <2> QED
    BY <1>3, <1>5, <2>1, <2>2 DEF IInv, Pushing
<1>9. RefsInv' /\ CopiesAlive'
  BY <1>3, <1>5 DEF IInv, RefsInv, RefsExact, CopiesAlive
<1> QED
  BY <1>6, <1>7, <1>8, <1>9 DEF IInv

\* The steps of a thread that has a node in hand.
LEMMA OpenerMoves ==
  ASSUME NEW q \in OpenerType
  PROVE  /\ \A x \in {"post", "clear", "set"} :
               /\ [q EXCEPT !.pc = x] \in OpenerType /\ [q EXCEPT !.pc = x].pc = x
               /\ [q EXCEPT !.pc = x].pnode = q.pnode /\ [q EXCEPT !.pc = x].grant = q.grant
         /\ \A g \in BOOLEAN : /\ [q EXCEPT !.pc = "network", !.grant = g] \in OpenerType
                               /\ [q EXCEPT !.pc = "network", !.grant = g].pc = "network"
                               /\ [q EXCEPT !.pc = "network", !.grant = g].pnode = q.pnode
                               /\ [q EXCEPT !.pc = "network", !.grant = g].grant = g
  BY DEF OpenerType

LEMMA GrantStep ==
  ASSUME ConnectionsAssumption, IInv, Alive, NEW o \in Threads,
         MoveLooks(o) \/ MovePosts(o) \/ MoveClears(o) \/ MoveSets(o) \/ SetNetworkNode(o)
  PROVE  IInv'
<1> DEFINE n == opener[o].pnode
<1>0. opener[o] \in OpenerType /\ n \in Heap /\ node[n] \in NodeType /\ semOutbound \in Int /\ opener \in [Threads -> OpenerType]
  BY NodeFacts DEF IInv, Typed, InHand, Alive, MoveLooks, MovePosts, MoveClears, MoveSets, SetNetworkNode
<1>1. ASSUME NEW x \in {"post", "clear", "set"}, opener' = [opener EXCEPT ![o].pc = x], semOutbound' \in Int,
             UNCHANGED <<node, vNodes, vNodesDisconnected, pnodeSync, sock, handler, unlocked>>
      PROVE  IInv'
  <2> DEFINE r == [opener[o] EXCEPT !.pc = x]
  <2>1. r \in OpenerType /\ r.pc = x /\ r.pnode = n
    BY <1>0 DEF OpenerType
  <2>2. opener' = [opener EXCEPT ![o] = r]
    BY <1>0, <1>1
  <2> HIDE DEF r
  <2> QED
    BY <1>0, <1>1, <2>1, <2>2, OpenerGoesOn
<1>2. CASE MoveLooks(o)
  BY <1>0, <1>1, <1>2 DEF MoveLooks, listVars
<1>3. CASE MovePosts(o)
  BY <1>0, <1>1, <1>3 DEF MovePosts, listVars, history
<1>4. ASSUME NEW g \in BOOLEAN, node' = [node EXCEPT ![n].grantOutbound = g], NEW r \in OpenerType,
             opener' = [opener EXCEPT ![o] = r], r.pc \in {"set", "network"}, r.pnode = n,
             UNCHANGED <<vNodes, vNodesDisconnected, semOutbound, pnodeSync, sock, handler, unlocked>>
      PROVE  IInv'
  <2> DEFINE s == [node[n] EXCEPT !.grantOutbound = g]
  <2>1. s \in NodeType /\ s.nRefCount = node[n].nRefCount /\ s.odd = node[n].odd
    <3> HIDE DEF n
    <3> QED
      BY <1>0, NodeWrites, Zenon
  <2>2. node' = [node EXCEPT ![n] = s]
    BY <1>0, <1>4 DEF IInv, Typed
  <2> HIDE DEF s
  <2> QED
    BY <1>0, <1>4, <2>1, <2>2, OpenerWrites
<1>5. CASE MoveClears(o)
  <2> DEFINE r == [opener[o] EXCEPT !.pc = "set"]
  <2>1. r \in OpenerType /\ r.pc = "set" /\ r.pnode = n
    BY <1>0, OpenerMoves, Zenon
  <2>2. opener' = [opener EXCEPT ![o] = r]
    BY <1>0, <1>5 DEF MoveClears
  <2> HIDE DEF r
  <2> QED
    BY <1>4, <1>5, <2>1, <2>2 DEF MoveClears, listVars, history
<1>6. CASE MoveSets(o)
  <2> DEFINE r == [opener[o] EXCEPT !.pc = "network", !.grant = FALSE]
  <2>1. r \in OpenerType /\ r.pc = "network" /\ r.pnode = n
    <3>1. FALSE \in BOOLEAN
      OBVIOUS
    <3> QED
      BY <1>0, <3>1, OpenerMoves, Zenon
  <2>2. opener' = [opener EXCEPT ![o] = r] /\ opener[o].grant \in BOOLEAN
    BY <1>0, <1>6 DEF MoveSets, OpenerType
  <2> HIDE DEF r
  <2> QED
    BY <1>4, <1>6, <2>1, <2>2 DEF MoveSets, listVars
<1>7. CASE SetNetworkNode(o)
  <2> DEFINE s == [node[n] EXCEPT !.fNetworkNode = TRUE]
  <2>1. s \in NodeType /\ s.nRefCount = node[n].nRefCount /\ s.odd = node[n].odd
    BY <1>0, NodeWrites
  <2>2. node' = [node EXCEPT ![n] = s] /\ UNCHANGED <<vNodes, vNodesDisconnected, pnodeSync, sock, handler, unlocked>>
        /\ Return(o)
    BY <1>0, <1>7 DEF SetNetworkNode, listVars, history, IInv, Typed
  <2> HIDE DEF s
  <2> QED
    BY <1>0, <2>1, <2>2, ReturnStep, OpenerWrites
<1> QED
  BY <1>2, <1>3, <1>5, <1>6, <1>7

-----------------------------------------------------------------------------
(* Going through a copy of vNodes *)

\* Steps of the two threads that neither count nor list.
LEMMA ThreadGoesOn ==
  ASSUME ConnectionsAssumption, IInv, node' \in [Heap -> NodeType \cup {NULL}],
         \A n \in Heap : /\ node'[n] = NULL <=> node[n] = NULL
                         /\ node[n] # NULL => /\ node'[n].nRefCount = node[n].nRefCount
                                              /\ node[n].odd => node'[n].odd,
         UNCHANGED <<vNodes, vNodesDisconnected, semOutbound, opener, unlocked>>, pnodeSync' \in Heap \cup {NULL},
         sock' \in SockType,
         handler' \in HandlerType,
         sock'.copy = sock.copy, sock'.gone = sock.gone, sock'.slots = sock.slots, handler'.copy = handler.copy,
         sock'.pc = sock.pc \/ (sock.pc = "service" /\ sock'.pc = "release"),
         \/ handler'.pc = handler.pc /\ handler'.new = handler.new
         \/ handler'.pc \in {"sync", "process", "release"}
         \/ handler'.pc = "assign" /\ handler'.new \in handler.copy
  PROVE  IInv'
<1>1. Allocated' = Allocated /\ RefsInv' /\ CopiesAlive'
  BY CountsStay
<1>2. Typed'
  BY <1>1 DEF IInv, Typed
<1>3. InHand' /\ Removing'
  BY DEF IInv, InHand, Removing
<1>4. Pushing'
  BY <1>1 DEF IInv, Pushing
<1> QED
  BY <1>1, <1>2, <1>3, <1>4 DEF IInv

LEMMA NeedNewSyncType ==
  ASSUME Typed, NEW S
  PROVE  NeedNewSync(S) \in Heap \cup {NULL}
  BY DEF Typed, NeedNewSync

\* CloseSocketDisconnect of one node.
LEMMA CloseFacts ==
  ASSUME NEW r \in NodeType
  PROVE  /\ [r EXCEPT !.fDisconnect = TRUE, !.hSocket = FALSE] \in NodeType
         /\ [r EXCEPT !.fDisconnect = TRUE, !.hSocket = FALSE].nRefCount = r.nRefCount
         /\ [r EXCEPT !.fDisconnect = TRUE, !.hSocket = FALSE].odd = r.odd
<1>1. \A x, y \in BOOLEAN : /\ [r EXCEPT !.fDisconnect = x, !.hSocket = y] \in NodeType
                            /\ [r EXCEPT !.fDisconnect = x, !.hSocket = y].nRefCount = r.nRefCount
                            /\ [r EXCEPT !.fDisconnect = x, !.hSocket = y].odd = r.odd
  BY DEF NodeType
<1>2. TRUE \in BOOLEAN /\ FALSE \in BOOLEAN
  OBVIOUS
<1> QED
  BY <1>1, <1>2, Zenon

LEMMA ServiceStep ==
  ASSUME ConnectionsAssumption, IInv, Alive, ServiceNodes
  PROVE  IInv'
<1>1. PICK closed \in SUBSET sock.copy, late \in SUBSET sock.copy :
          /\ node' = [n \in Heap |-> IF n \in late THEN [node[n] EXCEPT !.fDisconnect = TRUE]
                                     ELSE CloseSocketDisconnect(node, closed)[n]]
          /\ pnodeSync' = NeedNewSync(closed)
  BY DEF ServiceNodes
<1>2. /\ sock' = [sock EXCEPT !.pc = "release"] /\ sock.pc = "service"
      /\ UNCHANGED <<vNodes, vNodesDisconnected, semOutbound, opener, handler, unlocked>>
  BY DEF ServiceNodes, listVars, history
<1>3. closed \subseteq Allocated /\ late \subseteq Allocated
  BY <1>1 DEF Alive
<1>4. ASSUME NEW n \in Heap
      PROVE  \/ node'[n] = node[n]
             \/ /\ node[n] \in NodeType /\ node'[n] \in NodeType
                /\ node'[n].nRefCount = node[n].nRefCount /\ node'[n].odd = node[n].odd
  <2>1. CASE n \in late
    <3>1. node[n] \in NodeType /\ node'[n] = [node[n] EXCEPT !.fDisconnect = TRUE]
      BY <1>1, <1>3, <2>1, NodeFacts DEF IInv
    <3> QED
      BY <3>1, NodeWrites
  <2>2. CASE n \notin late /\ n \in closed
    <3>1. node[n] \in NodeType /\ node'[n] = [node[n] EXCEPT !.fDisconnect = TRUE, !.hSocket = FALSE]
      BY <1>1, <1>3, <2>2, NodeFacts DEF IInv, CloseSocketDisconnect
    <3> QED
      BY <3>1, CloseFacts
  <2>3. CASE n \notin late /\ n \notin closed
    BY <1>1, <2>3 DEF CloseSocketDisconnect
  <2> QED
    BY <2>1, <2>2, <2>3
<1>5. node' \in [Heap -> NodeType \cup {NULL}]
  <2>1. \A n \in Heap : node'[n] \in NodeType \cup {NULL}
    BY <1>4 DEF IInv, Typed
  <2> QED
    BY <1>1, <2>1
<1>6. \A n \in Heap : /\ node'[n] = NULL <=> node[n] = NULL
                      /\ node[n] # NULL => /\ node'[n].nRefCount = node[n].nRefCount
                                           /\ node[n].odd => node'[n].odd
  BY <1>4, NodeFacts DEF IInv
<1>7. pnodeSync' \in Heap \cup {NULL}
  BY <1>1, NeedNewSyncType DEF IInv
<1>8. sock' \in SockType
      /\ sock'.copy = sock.copy /\ sock'.pc = "release"
      /\ sock'.gone = sock.gone /\ sock'.slots = sock.slots
  BY <1>2 DEF IInv, Typed
<1>9. handler' \in HandlerType
  BY <1>2 DEF IInv, Typed
<1> QED
  BY <1>2, <1>5, <1>6, <1>7, <1>8, <1>9, ThreadGoesOn

LEMMA SyncStep ==
  ASSUME ConnectionsAssumption, IInv, Alive, SelectSync \/ AssignSync
  PROVE  IInv'
<1>0. sock \in SockType
      /\ handler \in HandlerType
      /\ node \in [Heap -> NodeType \cup {NULL}] /\ pnodeSync \in Heap \cup {NULL} /\ handler.copy \subseteq Heap
  BY DEF IInv, Typed
<1>1. CASE SelectSync
  <2>1. UNCHANGED <<node, vNodes, vNodesDisconnected, semOutbound, pnodeSync, opener, sock, unlocked>>
    BY <1>1 DEF SelectSync, listVars, history
  <2>2. \/ \E n \in handler.copy :
              handler' = [handler EXCEPT !.pc = "assign", !.new = n]
        \/ handler' = [handler EXCEPT !.pc = "process"]
    BY <1>1 DEF SelectSync
  <2>3. /\ handler' \in HandlerType
        /\ handler'.copy = handler.copy
        /\ \/ handler'.pc = "process"
           \/ handler'.pc = "assign" /\ handler'.new \in handler.copy
    BY <1>0, <2>2
  <2> QED
    BY <1>0, <2>1, <2>3, ThreadGoesOn
<1>2. CASE AssignSync
  <2> DEFINE n == handler.new
             s == [node[n] EXCEPT !.fStartSync = TRUE]
  <2>1. n \in Heap /\ n \in Allocated /\ node[n] \in NodeType
    BY <1>0, <1>2, NodeFacts DEF AssignSync, IInv, InHand, Alive
  <2>2. /\ node' = [node EXCEPT ![n] = s] /\ pnodeSync' = n /\ handler' = [handler EXCEPT !.pc = "process", !.new = NULL]
        /\ UNCHANGED <<vNodes, vNodesDisconnected, semOutbound, opener, sock, unlocked>>
    BY <1>0, <1>2, <2>1 DEF AssignSync, listVars, history
  <2>3. s \in NodeType /\ s.nRefCount = node[n].nRefCount /\ s.odd = node[n].odd
    BY <2>1, NodeWrites
  <2>4. /\ handler' \in HandlerType
        /\ handler'.copy = handler.copy /\ handler'.pc = "process"
    BY <1>0, <2>2
  <2> HIDE DEF s
  <2>5. /\ node' \in [Heap -> NodeType \cup {NULL}]
        /\ \A m \in Heap : /\ node'[m] = NULL <=> node[m] = NULL
                           /\ node[m] # NULL => /\ node'[m].nRefCount = node[m].nRefCount
                                                /\ node[m].odd => node'[m].odd
    BY <1>0, <2>1, <2>2, <2>3, NodeFacts DEF IInv
  <2> QED
    BY <1>0, <2>1, <2>2, <2>4, <2>5, ThreadGoesOn
<1> QED
  BY <1>1, <1>2

\* What a message and SendMessages do to a node.
LEMMA ServedFacts ==
  ASSUME NEW r \in NodeType, NEW outcome \in {"none", "version", "disconnect", "close"}
  PROVE  /\ Served(r, outcome) \in NodeType
         /\ Served(r, outcome).nRefCount = r.nRefCount /\ Served(r, outcome).odd = r.odd
<1> DEFINE p == CASE outcome = "none" -> r
                  [] outcome = "version" -> [r EXCEPT !.fSuccessfullyConnected = TRUE]
                  [] outcome = "disconnect" -> [r EXCEPT !.fDisconnect = TRUE]
                  [] outcome = "close" -> [r EXCEPT !.fDisconnect = TRUE, !.hSocket = FALSE]
<1>1. p \in NodeType /\ p.nRefCount = r.nRefCount /\ p.odd = r.odd
  <2>1. CASE outcome = "none"
    BY <2>1
  <2>2. CASE outcome = "version"
    <3>1. p = [r EXCEPT !.fSuccessfullyConnected = TRUE]
      BY <2>2
    <3> HIDE DEF p
    <3> QED
      BY <3>1 DEF NodeType
  <2>3. CASE outcome = "disconnect"
    <3>1. p = [r EXCEPT !.fDisconnect = TRUE]
      BY <2>3
    <3> HIDE DEF p
    <3> QED
      BY <3>1, NodeWrites
  <2>4. CASE outcome = "close"
    <3>1. p = [r EXCEPT !.fDisconnect = TRUE, !.hSocket = FALSE]
      BY <2>4
    <3> HIDE DEF p
    <3> QED
      BY <3>1, CloseFacts
  <2> QED
    BY <2>1, <2>2, <2>3, <2>4
<1> HIDE DEF p
<1>2. Served(r, outcome) = IF p.fSuccessfullyConnected THEN [p EXCEPT !.fStartSync = FALSE, !.asked = @ \/ p.fStartSync] ELSE p
  BY DEF Served, p
<1>3. \A x, y \in BOOLEAN : /\ [p EXCEPT !.fStartSync = x, !.asked = y] \in NodeType
                            /\ [p EXCEPT !.fStartSync = x, !.asked = y].nRefCount = p.nRefCount
                            /\ [p EXCEPT !.fStartSync = x, !.asked = y].odd = p.odd
  BY <1>1 DEF NodeType
<1>4. [p EXCEPT !.fStartSync = FALSE, !.asked = @ \/ p.fStartSync] = [p EXCEPT !.fStartSync = FALSE, !.asked = p.asked \/ p.fStartSync]
  BY <1>1 DEF NodeType
<1>5. FALSE \in BOOLEAN /\ (p.asked \/ p.fStartSync) \in BOOLEAN
  OBVIOUS
<1>6. LET q == [p EXCEPT !.fStartSync = FALSE, !.asked = p.asked \/ p.fStartSync]
      IN q \in NodeType /\ q.nRefCount = p.nRefCount /\ q.odd = p.odd
  BY <1>3, <1>5, Zenon
<1> QED
  BY <1>1, <1>2, <1>4, <1>6, Zenon

LEMMA ProcessStep ==
  ASSUME ConnectionsAssumption, IInv, Alive, ProcessNodes
  PROVE  IInv'
<1> DEFINE active == {n \in handler.copy : ~node[n].fDisconnect}
<1>1. PICK outcome \in [active -> {"none", "version", "disconnect", "close"}] :
          /\ node' = [n \in Heap |-> IF n \in active THEN Served(node[n], outcome[n]) ELSE node[n]]
          /\ pnodeSync' = NeedNewSync({n \in active : outcome[n] = "close"})
  BY DEF ProcessNodes
<1>2. /\ handler' = [handler EXCEPT !.pc = "release"]
      /\ UNCHANGED <<vNodes, vNodesDisconnected, semOutbound, opener, sock, unlocked>>
  BY DEF ProcessNodes, listVars, history
<1>3. active \subseteq Allocated
  BY DEF Alive
<1> HIDE DEF active
<1>4. ASSUME NEW n \in Heap
      PROVE  \/ node'[n] = node[n]
             \/ /\ node[n] \in NodeType /\ node'[n] \in NodeType
                /\ node'[n].nRefCount = node[n].nRefCount /\ node'[n].odd = node[n].odd
  <2>1. CASE n \in active
    <3>1. node[n] \in NodeType /\ node'[n] = Served(node[n], outcome[n])
          /\ outcome[n] \in {"none", "version", "disconnect", "close"}
      BY <1>1, <1>3, <2>1, NodeFacts DEF IInv
    <3> QED
      BY <3>1, ServedFacts
  <2>2. CASE n \notin active
    BY <1>1, <2>2
  <2> QED
    BY <2>1, <2>2
<1>5. node' \in [Heap -> NodeType \cup {NULL}]
  <2>1. \A n \in Heap : node'[n] \in NodeType \cup {NULL}
    BY <1>4 DEF IInv, Typed
  <2> QED
    BY <1>1, <2>1
<1>6. \A n \in Heap : /\ node'[n] = NULL <=> node[n] = NULL
                      /\ node[n] # NULL => /\ node'[n].nRefCount = node[n].nRefCount
                                           /\ node[n].odd => node'[n].odd
  BY <1>4, NodeFacts DEF IInv
<1>7. pnodeSync' \in Heap \cup {NULL}
  BY <1>1, NeedNewSyncType DEF IInv
<1>8. handler' \in HandlerType
      /\ handler'.copy = handler.copy /\ handler'.pc = "release"
  BY <1>2 DEF IInv, Typed
<1>9. sock' \in SockType
  BY <1>2 DEF IInv, Typed
<1> QED
  BY <1>2, <1>5, <1>6, <1>7, <1>8, <1>9, ThreadGoesOn

\* A count goes up or down with the number of holders.
LEMMA CountsMove ==
  ASSUME ConnectionsAssumption, IInv, NEW S, NEW k \in Int,
         node' \in [Heap -> NodeType \cup {NULL}],
         \A n \in Heap : node'[n] = NULL <=> node[n] = NULL,
         \A n \in Allocated : /\ node'[n].odd = node[n].odd
                              /\ node'[n].nRefCount = node[n].nRefCount + (IF n \in S THEN k ELSE 0)
                              /\ Holders(n)' = Holders(n) + (IF n \in S THEN k ELSE 0),
         UNCHANGED unlocked
  PROVE  Allocated' = Allocated /\ RefsInv'
<1>1. Allocated' = Allocated
  BY DEF Allocated
<1>2. \A n \in Allocated : Holders(n) \in Int /\ node[n].nRefCount \in Int
  BY NodeFacts DEF Holders, IInv, Allocated
<1> QED
  BY <1>1, <1>2 DEF IInv, RefsInv, RefsExact

LEMMA CountFacts ==
  ASSUME ConnectionsAssumption, Typed, NEW S \in SUBSET Allocated
  PROVE  /\ AddRefs(node, S) \in [Heap -> NodeType \cup {NULL}]
         /\ \A n \in Heap : AddRefs(node, S)[n] = NULL <=> node[n] = NULL
         /\ \A n \in Allocated :
               /\ AddRefs(node, S)[n].odd = node[n].odd
               /\ AddRefs(node, S)[n].nRefCount = node[n].nRefCount + (IF n \in S THEN 1 ELSE 0)
         /\ Releases(node, S) \in [Heap -> NodeType \cup {NULL}]
         /\ \A n \in Heap : Releases(node, S)[n] = NULL <=> node[n] = NULL
         /\ \A n \in Allocated :
               /\ Releases(node, S)[n].odd = node[n].odd
               /\ Releases(node, S)[n].nRefCount = node[n].nRefCount + (IF n \in S THEN -1 ELSE 0)
<1>1. ASSUME NEW n \in Heap
      PROVE  /\ \/ n \notin S /\ AddRefs(node, S)[n] = node[n] /\ Releases(node, S)[n] = node[n]
                \/ /\ n \in S /\ node[n] \in NodeType
                   /\ AddRefs(node, S)[n] \in NodeType /\ Releases(node, S)[n] \in NodeType
                   /\ AddRefs(node, S)[n].odd = node[n].odd /\ Releases(node, S)[n].odd = node[n].odd
                   /\ AddRefs(node, S)[n].nRefCount = node[n].nRefCount + 1
                   /\ Releases(node, S)[n].nRefCount = node[n].nRefCount - 1
  <2>1. CASE n \notin S
    BY <2>1 DEF AddRefs, Releases
  <2>2. CASE n \in S
    <3>1. node[n] \in NodeType /\ node[n] # NULL /\ node[n].nRefCount \in Int
      BY <2>2, NodeFacts
    <3>2. AddRefs(node, S)[n] = [node[n] EXCEPT !.nRefCount = node[n].nRefCount + 1]
      BY <2>2, <3>1 DEF AddRefs, NodeType
    <3>3. Releases(node, S)[n] = [node[n] EXCEPT !.nRefCount = node[n].nRefCount - 1]
      BY <2>2, <3>1 DEF Releases, NodeType
    <3>4. node[n].nRefCount + 1 \in Int /\ node[n].nRefCount - 1 \in Int
      BY <3>1
    <3>5. \A k \in Int : /\ [node[n] EXCEPT !.nRefCount = k] \in NodeType
                          /\ [node[n] EXCEPT !.nRefCount = k].nRefCount = k
                          /\ [node[n] EXCEPT !.nRefCount = k].odd = node[n].odd
      BY <3>1, NodeWrites
    <3>6. /\ AddRefs(node, S)[n] \in NodeType /\ AddRefs(node, S)[n].odd = node[n].odd
          /\ AddRefs(node, S)[n].nRefCount = node[n].nRefCount + 1
      BY <3>2, <3>4, <3>5, Zenon
    <3>7. /\ Releases(node, S)[n] \in NodeType /\ Releases(node, S)[n].odd = node[n].odd
          /\ Releases(node, S)[n].nRefCount = node[n].nRefCount - 1
      BY <3>3, <3>4, <3>5, Zenon
    <3> QED
      BY <2>2, <3>1, <3>6, <3>7, Zenon
  <2> QED
    BY <2>1, <2>2
<1>2. node \in [Heap -> NodeType \cup {NULL}]
  BY DEF Typed
<1>3. AddRefs(node, S) \in [Heap -> NodeType \cup {NULL}] /\ Releases(node, S) \in [Heap -> NodeType \cup {NULL}]
  <2>1. \A n \in Heap : AddRefs(node, S)[n] \in NodeType \cup {NULL} /\ Releases(node, S)[n] \in NodeType \cup {NULL}
    BY <1>1, <1>2
  <2> QED
    BY <2>1 DEF AddRefs, Releases
<1>4. \A n \in Allocated : n \in Heap /\ node[n].nRefCount \in Int
  BY NodeFacts DEF Allocated
<1> QED
  BY <1>1, <1>3, <1>4, NodeFacts

LEMMA CopyStep ==
  ASSUME ConnectionsAssumption, IInv, Alive, SocketCopy \/ HandlerCopy
  PROVE  IInv'
<1>0. /\ sock \in SockType
      /\ handler \in HandlerType
      /\ vNodes \subseteq Allocated /\ vNodes \subseteq Heap
  BY DEF IInv, Typed, Allocated
<1>1. /\ node' = AddRefs(node, vNodes)
      /\ UNCHANGED <<vNodes, vNodesDisconnected, semOutbound, pnodeSync, opener, unlocked>>
  BY DEF SocketCopy, HandlerCopy, listVars, history
<1>2. /\ node' \in [Heap -> NodeType \cup {NULL}]
      /\ \A n \in Heap : node'[n] = NULL <=> node[n] = NULL
      /\ \A n \in Allocated : /\ node'[n].odd = node[n].odd
                              /\ node'[n].nRefCount = node[n].nRefCount + (IF n \in vNodes THEN 1 ELSE 0)
  BY <1>0, <1>1, CountFacts DEF IInv
<1>3. \A n \in Allocated : Holders(n)' = Holders(n) + (IF n \in vNodes THEN 1 ELSE 0)
  <2>1. CASE SocketCopy
    <3>1. sock.copy = {} /\ sock'.copy = vNodes /\ UNCHANGED <<handler, vNodesDisconnected>>
      BY <2>1 DEF SocketCopy, IInv, InHand, listVars, history
    <3> QED
      BY <3>1 DEF Holders
  <2>2. CASE HandlerCopy
    <3>1. handler.copy = {} /\ handler'.copy = vNodes /\ UNCHANGED <<sock, vNodesDisconnected>>
      BY <2>2 DEF HandlerCopy, IInv, InHand, listVars, history
    <3> QED
      BY <3>1 DEF Holders
  <2> QED
    BY <2>1, <2>2
<1>4. Allocated' = Allocated /\ RefsInv'
  <2> DEFINE k == 1
  <2>1. /\ k \in Int
        /\ \A n \in Allocated : /\ node'[n].odd = node[n].odd
                                /\ node'[n].nRefCount = node[n].nRefCount + (IF n \in vNodes THEN k ELSE 0)
                                /\ Holders(n)' = Holders(n) + (IF n \in vNodes THEN k ELSE 0)
    BY <1>2, <1>3
  <2> HIDE DEF k
  <2> QED
    BY <1>1, <1>2, <2>1, CountsMove
<1>5. /\ sock' \in SockType
      /\ handler' \in HandlerType
      /\ sock' = sock \/ (sock'.pc = "service" /\ sock'.copy = vNodes /\ sock'.gone = {} /\ sock'.slots = {})
      /\ \/ handler' = handler
         \/ handler'.copy = vNodes /\ handler'.pc \in {"process", "sync"}
  <2>1. CASE SocketCopy
    BY <1>0, <2>1 DEF SocketCopy, IInv, Removing
  <2>2. CASE HandlerCopy
    <3>1. sock' = sock /\ handler'.copy = vNodes /\ handler'.pc \in {"process", "sync"}
      BY <2>2 DEF HandlerCopy
    <3>2. handler' \in HandlerType
      BY <1>0, <2>2 DEF HandlerCopy
    <3> QED
      BY <1>0, <3>1, <3>2
  <2> QED
    BY <2>1, <2>2
<1>6. Typed'
  <2>1. /\ node' \in [Heap -> NodeType \cup {NULL}] /\ semOutbound' \in Int /\ pnodeSync' \in Heap \cup {NULL}
        /\ vNodes' \subseteq Allocated' /\ vNodesDisconnected' \subseteq Allocated'
        /\ vNodes' \cap vNodesDisconnected' = {}
    BY <1>1, <1>2, <1>4 DEF IInv, Typed
  <2>2. opener' \in [Threads -> OpenerType] /\ unlocked' \subseteq Heap
    BY <1>1 DEF IInv, Typed
  <2> QED
    BY <1>5, <2>1, <2>2 DEF Typed
<1>7. InHand' /\ Removing'
  BY <1>1, <1>5 DEF IInv, InHand, Removing
<1>8. Pushing'
  BY <1>1, <1>4 DEF IInv, Pushing
<1>9. CopiesAlive'
  BY <1>0, <1>1, <1>4, <1>5 DEF IInv, CopiesAlive
<1> QED
  BY <1>4, <1>6, <1>7, <1>8, <1>9 DEF IInv

LEMMA ReleaseStep ==
  ASSUME ConnectionsAssumption, IInv, Alive, SocketRelease \/ HandlerRelease
  PROVE  IInv'
<1> DEFINE S == IF SocketRelease THEN sock.copy ELSE handler.copy
<1>0. /\ sock \in SockType
      /\ handler \in HandlerType
      /\ S \in SUBSET Allocated
  BY DEF IInv, Typed, Alive
<1>1. /\ node' = Releases(node, S)
      /\ UNCHANGED <<vNodes, vNodesDisconnected, semOutbound, pnodeSync, opener, unlocked>>
  BY DEF SocketRelease, HandlerRelease, listVars, history
<1>2. \A n \in Allocated : Holders(n)' = Holders(n) + (IF n \in S THEN -1 ELSE 0)
  <2>1. CASE SocketRelease
    <3>1. sock'.copy = {} /\ S = sock.copy /\ UNCHANGED <<handler, vNodesDisconnected>>
      BY <2>1 DEF SocketRelease, listVars, history
    <3> QED
      BY <3>1 DEF Holders
  <2>2. CASE ~SocketRelease
    <3>1. handler'.copy = {} /\ S = handler.copy /\ UNCHANGED <<sock, vNodesDisconnected>>
      BY <2>2 DEF HandlerRelease, listVars, history
    <3> QED
      BY <3>1 DEF Holders
  <2> QED
    BY <2>1, <2>2
<1>3. /\ sock' = sock \/ sock' = [pc |-> "disconnect", copy |-> {}, gone |-> {}, slots |-> {}]
      /\ handler' = handler \/ handler' = [pc |-> "copy", copy |-> {}, new |-> NULL]
  BY <1>0 DEF SocketRelease, HandlerRelease, IInv, Removing
<1>4. /\ sock' \in SockType
      /\ handler' \in HandlerType
  BY <1>0, <1>3
<1> HIDE DEF S
<1>5. /\ node' \in [Heap -> NodeType \cup {NULL}]
      /\ \A n \in Heap : node'[n] = NULL <=> node[n] = NULL
      /\ \A n \in Allocated : /\ node'[n].odd = node[n].odd
                              /\ node'[n].nRefCount = node[n].nRefCount + (IF n \in S THEN -1 ELSE 0)
  BY <1>0, <1>1, CountFacts DEF IInv
<1>6. Allocated' = Allocated /\ RefsInv'
  BY <1>1, <1>2, <1>5, CountsMove
<1>7. Typed'
  BY <1>1, <1>4, <1>5, <1>6 DEF IInv, Typed
<1>8. InHand' /\ Removing'
  BY <1>1, <1>3 DEF IInv, InHand, Removing
<1>9. Pushing'
  BY <1>1, <1>6 DEF IInv, Pushing
<1>10. CopiesAlive'
  BY <1>1, <1>3, <1>6 DEF IInv, CopiesAlive
<1> QED
  BY <1>6, <1>7, <1>8, <1>9, <1>10 DEF IInv

-----------------------------------------------------------------------------
(* Disconnecting, deleting, accepting *)

\* What becomes of a node that leaves vNodes; it may give up its own reference, and keep its
\* grant.
GoneNode(r, own, g) ==
    LET f == [r EXCEPT !.grantOutbound = @ /\ g, !.odd = @ \/ ~own]
        c == [f EXCEPT !.fDisconnect = TRUE, !.hSocket = FALSE]
    IN IF own THEN [c EXCEPT !.nRefCount = @ - 1] ELSE c

LEMMA GoneFacts ==
  ASSUME NEW r \in NodeType, NEW own \in BOOLEAN, NEW g \in BOOLEAN
  PROVE  /\ GoneNode(r, own, g) \in NodeType /\ (GoneNode(r, own, g).odd <=> r.odd \/ ~own)
         /\ GoneNode(r, own, g).nRefCount = r.nRefCount - (IF own THEN 1 ELSE 0)
<1> DEFINE f == [r EXCEPT !.grantOutbound = @ /\ g, !.odd = @ \/ ~own]
           c == [f EXCEPT !.fDisconnect = TRUE, !.hSocket = FALSE]
           s == IF own THEN [c EXCEPT !.nRefCount = @ - 1] ELSE c
<1>0. GoneNode(r, own, g) = s
  BY DEF GoneNode
<1>1. f = [r EXCEPT !.grantOutbound = r.grantOutbound /\ g, !.odd = r.odd \/ ~own]
  BY DEF NodeType
<1>2. \A x, y \in BOOLEAN : /\ [r EXCEPT !.grantOutbound = x, !.odd = y] \in NodeType
                            /\ [r EXCEPT !.grantOutbound = x, !.odd = y].nRefCount = r.nRefCount
                            /\ [r EXCEPT !.grantOutbound = x, !.odd = y].odd = y
  BY DEF NodeType
<1>3. (r.grantOutbound /\ g) \in BOOLEAN /\ (r.odd \/ ~own) \in BOOLEAN
  OBVIOUS
<1> HIDE DEF f
<1>4. f \in NodeType /\ f.nRefCount = r.nRefCount /\ f.odd = (r.odd \/ ~own)
  BY <1>1, <1>2, <1>3, Zenon
<1>5. c \in NodeType /\ c.nRefCount = f.nRefCount /\ c.odd = f.odd
  BY <1>4, CloseFacts
<1> HIDE DEF c
<1>6. r.nRefCount \in Int /\ c.nRefCount \in Int /\ c.nRefCount = r.nRefCount
  BY <1>4, <1>5 DEF NodeType
<1>7. [c EXCEPT !.nRefCount = @ - 1] = [c EXCEPT !.nRefCount = c.nRefCount - 1]
  BY <1>5 DEF NodeType
<1>8. \A k \in Int : /\ [c EXCEPT !.nRefCount = k] \in NodeType
                     /\ [c EXCEPT !.nRefCount = k].nRefCount = k /\ [c EXCEPT !.nRefCount = k].odd = c.odd
  BY <1>5, NodeWrites
<1>9. c.nRefCount - 1 \in Int
  BY <1>6
<1>10. LET t == [c EXCEPT !.nRefCount = @ - 1]
       IN t \in NodeType /\ t.nRefCount = c.nRefCount - 1 /\ t.odd = c.odd
  BY <1>7, <1>8, <1>9, Zenon
<1>11. s \in NodeType /\ s.odd = c.odd
  BY <1>5, <1>10, Zenon
<1>12. s.nRefCount = r.nRefCount - (IF own THEN 1 ELSE 0)
  <2>1. CASE own
    <3>1. s.nRefCount = c.nRefCount - 1
      BY <1>10, <2>1, Zenon
    <3> HIDE DEF s
    <3> QED
      BY <1>6, <2>1, <3>1
  <2>2. CASE ~own
    <3>1. s.nRefCount = c.nRefCount
      BY <2>2, Zenon
    <3> HIDE DEF s
    <3> QED
      BY <1>6, <2>2, <3>1
  <2> QED
    BY <2>1, <2>2
<1> HIDE DEF s
<1> QED
  BY <1>0, <1>4, <1>5, <1>11, <1>12, Zenon

LEMMA FindUnusedStep ==
  ASSUME ConnectionsAssumption, IInv, FindUnused \/ PostSlots
  PROVE  IInv'
<1>0. sock \in SockType /\ handler \in HandlerType /\ node \in [Heap -> NodeType \cup {NULL}] /\ semOutbound \in Int
      /\ vNodes \subseteq Heap /\ sock.slots \subseteq Heap
  BY DEF IInv, Typed, Allocated
<1>1. UNCHANGED <<node, vNodes, vNodesDisconnected, pnodeSync, opener, handler, unlocked>>
  BY DEF FindUnused, PostSlots, listVars, history
<1>2. sock' \in SockType /\ sock'.copy = sock.copy /\ sock'.pc \in {"post", "clear"} /\ sock.pc \in {"disconnect", "post"}
      /\ sock'.gone \subseteq vNodes /\ sock'.slots \subseteq sock'.gone
  <2>1. CASE FindUnused
    BY <1>0, <2>1 DEF FindUnused
  <2>2. CASE PostSlots
    BY <1>0, <2>2 DEF PostSlots, IInv, Removing
  <2> QED
    BY <2>1, <2>2
<1>3. semOutbound' \in Int
  <2>1. IsFiniteSet(sock.slots)
    BY <1>0, FS_Subset DEF ConnectionsAssumption
  <2>2. Cardinality(sock.slots) \in Nat
    BY <2>1, FS_CardinalityType
  <2> QED
    BY <1>0, <2>2 DEF FindUnused, PostSlots
<1>4. Allocated' = Allocated /\ RefsInv' /\ CopiesAlive'
  BY <1>0, <1>1, <1>2, CountsStay
<1>5. Typed'
  BY <1>1, <1>2, <1>3, <1>4 DEF IInv, Typed
<1>6. InHand' /\ Removing'
  BY <1>1, <1>2 DEF IInv, InHand, Removing
<1>7. Pushing'
  BY <1>1, <1>4 DEF IInv, Pushing
<1> QED
  BY <1>4, <1>5, <1>6, <1>7 DEF IInv

LEMMA DisconnectStep ==
  ASSUME ConnectionsAssumption, IInv, Alive, DisconnectNodes
  PROVE  IInv'
<1> DEFINE gone == sock.gone
           own(n) == node[n].fNetworkNode \/ node[n].fInbound
           freed == [n \in Heap |-> IF n \in gone
                        THEN [node[n] EXCEPT !.grantOutbound = @ /\ n \notin sock.slots,
                                             !.odd = @ \/ ~(node[n].fNetworkNode \/ node[n].fInbound)]
                        ELSE node[n]]
<1>1. /\ vNodes' = vNodes \ gone /\ vNodesDisconnected' = vNodesDisconnected \cup gone
      /\ semOutbound' = semOutbound
      /\ node' = Releases(CloseSocketDisconnect(freed, gone), {n \in gone : OwnReference(n)})
      /\ pnodeSync' = NeedNewSync(gone)
      /\ sock.pc = "clear" /\ sock' = [sock EXCEPT !.pc = "delete", !.gone = {}, !.slots = {}]
      /\ UNCHANGED <<opener, handler, unlocked>>
  BY DEF DisconnectNodes, history
<1>2. gone \subseteq vNodes /\ gone \subseteq Allocated /\ gone \subseteq Heap /\ gone \cap vNodesDisconnected = {}
  BY DEF IInv, Typed, Allocated, Removing
<1> HIDE DEF gone
<1>3. ASSUME NEW n \in gone
      PROVE  /\ node[n] \in NodeType /\ node'[n] \in NodeType
             /\ node'[n].odd <=> node[n].odd \/ ~own(n)
             /\ node'[n].nRefCount = node[n].nRefCount - (IF own(n) THEN 1 ELSE 0)
             /\ own(n) \in BOOLEAN
  <2>1. n \in Heap /\ node[n] \in NodeType /\ NULL \notin NodeType
    BY <1>2, NodeFacts DEF IInv
  <2> DEFINE o == own(n)
             g == n \notin sock.slots
             f == [node[n] EXCEPT !.grantOutbound = @ /\ g, !.odd = @ \/ ~o]
             c == [f EXCEPT !.fDisconnect = TRUE, !.hSocket = FALSE]
             s == IF o THEN [c EXCEPT !.nRefCount = @ - 1] ELSE c
  <2>2. o \in BOOLEAN /\ g \in BOOLEAN
    OBVIOUS
  <2>3. s \in NodeType /\ (s.odd <=> node[n].odd \/ ~o) /\ s.nRefCount = node[n].nRefCount - (IF o THEN 1 ELSE 0)
    <3>1. s = GoneNode(node[n], o, g)
      BY DEF GoneNode
    <3> HIDE DEF o, g, s
    <3> QED
      BY <2>1, <2>2, <3>1, GoneFacts
  <2>4. c \in NodeType
    <3>1. f = [node[n] EXCEPT !.grantOutbound = node[n].grantOutbound /\ g, !.odd = node[n].odd \/ ~o]
      BY <2>1 DEF NodeType
    <3>2. \A x, y \in BOOLEAN : [node[n] EXCEPT !.grantOutbound = x, !.odd = y] \in NodeType
      BY <2>1 DEF NodeType
    <3>3. (node[n].grantOutbound /\ g) \in BOOLEAN /\ (node[n].odd \/ ~o) \in BOOLEAN
      OBVIOUS
    <3> HIDE DEF o, g
    <3>4. f \in NodeType
      BY <3>1, <3>2, <3>3, Zenon
    <3> QED
      BY <3>4, CloseFacts
  <2>5. CloseSocketDisconnect(freed, gone)[n] = c
    BY <2>1, <1>3 DEF CloseSocketDisconnect
  <2>6. node'[n] = s
    <3> HIDE DEF c, freed
    <3> QED
      BY <1>1, <1>3, <2>1, <2>4, <2>5 DEF Releases, OwnReference
  <2> HIDE DEF s
  <2> QED
    BY <2>1, <2>2, <2>3, <2>6
<1>4. ASSUME NEW n \in Heap, n \notin gone PROVE node'[n] = node[n]
  BY <1>1, <1>4 DEF Releases, CloseSocketDisconnect
<1>5. node' \in [Heap -> NodeType \cup {NULL}]
  <2>1. \A n \in Heap : node'[n] \in NodeType \cup {NULL}
    BY <1>3, <1>4 DEF IInv, Typed
  <2> QED
    BY <1>1, <2>1 DEF Releases
<1>6. Allocated' = Allocated
  BY <1>2, <1>3, <1>4, NodeFacts DEF Allocated, IInv
<1>7. semOutbound' \in Int
  BY <1>1 DEF IInv, Typed
<1>8. pnodeSync' \in Heap \cup {NULL}
  BY <1>1, NeedNewSyncType DEF IInv
<1>9. Typed'
  <2>1. /\ sock' \in SockType
        /\ handler' \in HandlerType
        /\ opener' \in [Threads -> OpenerType] /\ unlocked' \subseteq Heap
    BY <1>1 DEF IInv, Typed
  <2>2. vNodes' \subseteq Allocated' /\ vNodesDisconnected' \subseteq Allocated' /\ vNodes' \cap vNodesDisconnected' = {}
    BY <1>1, <1>2, <1>6 DEF IInv, Typed
  <2> QED
    BY <1>5, <1>7, <1>8, <2>1, <2>2 DEF Typed
<1>10. InHand' /\ Removing'
  BY <1>1 DEF IInv, InHand, Typed, Removing
<1>11. Pushing'
  BY <1>1, <1>2, <1>6 DEF IInv, Pushing
<1>12. sock'.copy = sock.copy /\ handler'.copy = handler.copy
  BY <1>1 DEF IInv, Typed
<1>13. RefsInv'
  <2> SUFFICES ASSUME NEW n \in Allocated
               PROVE  /\ ~node'[n].odd => node'[n].nRefCount = Holders(n)'
                      /\ n \notin unlocked => node'[n].nRefCount >= Holders(n)'
    BY <1>1, <1>6 DEF RefsInv, RefsExact
  <2>0. n \in Heap /\ Holders(n) \in Int /\ node[n].nRefCount \in Int
    BY NodeFacts DEF Holders, IInv, Allocated
  <2>1. /\ ~node[n].odd => node[n].nRefCount = Holders(n)
        /\ n \notin unlocked => node[n].nRefCount >= Holders(n)
    BY DEF IInv, RefsInv, RefsExact
  <2>2. CASE n \in gone
    <3>1. Holders(n)' = Holders(n) - 1
      <4>1. n \notin vNodesDisconnected /\ n \in vNodesDisconnected'
        BY <1>1, <1>2, <2>2
      <4> QED
        BY <1>12, <4>1 DEF Holders
    <3> QED
      BY <1>3, <2>0, <2>1, <2>2, <3>1
  <2>3. CASE n \notin gone
    <3>1. Holders(n)' = Holders(n) /\ node'[n] = node[n]
      BY <1>1, <1>4, <1>12, <2>0, <2>3 DEF Holders
    <3> QED
      BY <2>1, <3>1
  <2> QED
    BY <2>2, <2>3
<1>14. CopiesAlive'
  BY <1>1, <1>6, <1>12 DEF IInv, CopiesAlive
<1> QED
  BY <1>9, <1>10, <1>11, <1>13, <1>14 DEF IInv

LEMMA DeleteStep ==
  ASSUME ConnectionsAssumption, IInv, Alive, DeleteNodes
  PROVE  IInv'
<1> DEFINE dead == {n \in vNodesDisconnected : Deletable(n)}
<1>1. /\ node' = [n \in Heap |-> IF n \in dead THEN NULL ELSE node[n]]
      /\ vNodesDisconnected' = vNodesDisconnected \ dead
      /\ semOutbound' = semOutbound + Cardinality({n \in dead : node[n].grantOutbound})
      /\ sock.pc = "delete" /\ sock' = [sock EXCEPT !.pc = "accept"]
      /\ UNCHANGED <<vNodes, pnodeSync, opener, handler, unlocked>>
  BY DEF DeleteNodes
<1>2. dead \subseteq vNodesDisconnected /\ dead \subseteq Heap /\ dead \cap vNodes = {}
  BY DEF IInv, Typed, Allocated
<1>3. \A n \in dead : n \in Allocated /\ node[n].nRefCount <= 0
  BY DEF Deletable, IInv, Typed
<1> HIDE DEF dead
<1>4. node' \in [Heap -> NodeType \cup {NULL}] /\ Allocated' = Allocated \ dead
      /\ \A n \in Allocated' : node'[n] = node[n]
  BY <1>1, <1>2 DEF IInv, Typed, Allocated
<1>5. semOutbound' \in Int
  <2>1. IsFiniteSet({n \in dead : node[n].grantOutbound})
    BY <1>2, FS_Subset DEF ConnectionsAssumption
  <2> DEFINE k == Cardinality({n \in dead : node[n].grantOutbound})
  <2>2. k \in Nat
    BY <2>1, FS_CardinalityType
  <2>3. semOutbound' = semOutbound + k
    BY <1>1
  <2>4. semOutbound \in Int
    BY DEF IInv, Typed
  <2> HIDE DEF k
  <2> QED
    BY <2>2, <2>3, <2>4
<1>6. Typed'
  <2>1. /\ sock' \in SockType
        /\ handler' \in HandlerType
        /\ opener' \in [Threads -> OpenerType] /\ unlocked' \subseteq Heap /\ pnodeSync' \in Heap \cup {NULL}
    BY <1>1 DEF IInv, Typed
  <2>2. vNodes' \subseteq Allocated' /\ vNodesDisconnected' \subseteq Allocated' /\ vNodes' \cap vNodesDisconnected' = {}
    BY <1>1, <1>2, <1>4 DEF IInv, Typed
  <2> QED
    BY <1>4, <1>5, <2>1, <2>2 DEF Typed
<1>7. InHand' /\ Removing'
  BY <1>1 DEF IInv, InHand, Typed, Removing
<1>8. Pushing'
  BY <1>1, <1>2, <1>4 DEF IInv, Pushing
<1>9. sock'.copy = sock.copy /\ handler'.copy = handler.copy
  BY <1>1 DEF IInv, Typed
<1>10. RefsInv'
  <2>1. \A n \in Allocated' : Holders(n)' = Holders(n)
    BY <1>1, <1>4, <1>9 DEF Holders
  <2> QED
    BY <1>1, <1>4, <2>1 DEF IInv, RefsInv, RefsExact
\* What is deleted has no holder: the count would be larger.
<1>11. CopiesAlive'
  <2> SUFFICES ASSUME NEW n \in dead \ unlocked PROVE n \notin sock.copy \cup handler.copy
    BY <1>1, <1>4, <1>9 DEF CopiesAlive, IInv
  <2>1. node[n].nRefCount >= Holders(n) /\ node[n].nRefCount <= 0 /\ node[n].nRefCount \in Int
    BY <1>3, NodeFacts DEF IInv, RefsInv, Allocated
  <2>2. n \in vNodesDisconnected
    BY <1>2
  <2> QED
    BY <2>1, <2>2 DEF Holders
<1> QED
  BY <1>6, <1>7, <1>8, <1>10, <1>11 DEF IInv

LEMMA AcceptStep ==
  ASSUME ConnectionsAssumption, IInv, Alive, AcceptNodes
  PROVE  IInv'
<1>1. /\ sock.pc = "accept" /\ sock' = [sock EXCEPT !.pc = "copy"]
      /\ UNCHANGED <<vNodesDisconnected, semOutbound, pnodeSync, opener, handler, unlocked>>
  BY DEF AcceptNodes, history
<1>2. /\ sock' \in SockType
      /\ handler' \in HandlerType
      /\ opener' \in [Threads -> OpenerType] /\ unlocked' \subseteq Heap /\ pnodeSync' \in Heap \cup {NULL}
      /\ semOutbound' \in Int /\ sock'.copy = sock.copy /\ handler'.copy = handler.copy
      /\ sock.copy = {} /\ sock'.pc = "copy"
  BY <1>1 DEF IInv, Typed, InHand
<1>3. InHand'
  BY <1>1, <1>2 DEF IInv, InHand
<1>6. Removing'
  BY <1>1, <1>2 DEF AcceptNodes, IInv, Removing, Typed
<1>4. CASE UNCHANGED <<node, vNodes>>
  <2>1. Allocated' = Allocated /\ RefsInv' /\ CopiesAlive'
    BY <1>1, <1>2, <1>4, CountsStay DEF IInv, Typed
  <2>2. Typed'
    BY <1>1, <1>2, <1>4, <2>1 DEF IInv, Typed
  <2>3. Pushing'
    BY <1>1, <1>4, <2>1 DEF IInv, Pushing
  <2> QED
    BY <1>3, <1>6, <2>1, <2>2, <2>3 DEF IInv
<1>5. ASSUME NEW n \in Heap \ Allocated, NEW a \in Addrs, node' = [node EXCEPT ![n] = NewNode(a, TRUE)],
             vNodes' = vNodes \cup {n}
      PROVE  IInv'
  <2> DEFINE s == NewNode(a, TRUE)
  <2>1. s \in NodeType /\ ~s.odd /\ s.nRefCount = 1
    <3>1. s \in NodeType
      BY NodeFacts DEF IInv
    <3> QED
      BY <3>1 DEF NewNode
  <2> HIDE DEF s
  <2>2. node' \in [Heap -> NodeType \cup {NULL}] /\ node'[n] = s /\ \A m \in Heap : m # n => node'[m] = node[m]
    BY <1>5, <2>1 DEF IInv, Typed, s
  <2>3. Allocated' = Allocated \cup {n}
    BY <1>5, <2>1, <2>2, NodeFacts DEF Allocated, IInv
  <2>4. Typed'
    <3>1. vNodes \subseteq Allocated /\ vNodesDisconnected \subseteq Allocated /\ vNodes \cap vNodesDisconnected = {}
      BY DEF IInv, Typed
    <3>2. vNodes' \subseteq Allocated' /\ vNodesDisconnected' \subseteq Allocated' /\ vNodes' \cap vNodesDisconnected' = {}
      BY <1>1, <1>5, <2>3, <3>1
    <3> QED
      BY <1>2, <2>2, <3>2 DEF Typed
  <2>5. Pushing'
    BY <1>1, <1>5, <2>3 DEF IInv, Pushing
  <2>6. ASSUME NEW m \in Allocated PROVE m # n /\ node'[m] = node[m] /\ Holders(m)' = Holders(m)
    BY <1>1, <1>2, <1>5, <2>2 DEF Holders, Allocated
  <2>7. Holders(n)' = 1
    <3>1. n \notin handler.copy /\ n \notin vNodesDisconnected
      BY <1>5 DEF Alive, IInv, Typed
    <3>2. n \notin sock'.copy /\ n \notin handler'.copy /\ n \notin vNodesDisconnected'
      BY <1>1, <1>2, <3>1
    <3> QED
      BY <3>2 DEF Holders
  <2>8. RefsInv'
    BY <1>1, <2>1, <2>2, <2>3, <2>6, <2>7 DEF IInv, RefsInv, RefsExact
  <2>9. CopiesAlive'
    BY <1>1, <1>2, <2>3 DEF IInv, CopiesAlive
  <2> QED
    BY <1>3, <1>6, <2>4, <2>5, <2>8, <2>9 DEF IInv
<1> QED
  BY <1>4, <1>5 DEF AcceptNodes

-----------------------------------------------------------------------------
LEMMA InitConnections ==
  ASSUME ConnectionsAssumption, Init
  PROVE  IInv
<1>1. Idle \in OpenerType /\ Idle.pc = "idle"
  BY DEF Idle, OpenerType
<1>2. Allocated = {}
  BY DEF Init, Allocated
<1>3. Typed
  <2>1. sock \in SockType
    BY DEF Init
  <2>2. handler \in HandlerType
    BY DEF Init
  <2>3. node \in [Heap -> NodeType \cup {NULL}] /\ pnodeSync \in Heap \cup {NULL} /\ unlocked \subseteq Heap
    BY DEF Init
  <2>4. vNodes = {} /\ vNodesDisconnected = {} /\ semOutbound \in Int
    BY DEF Init, ConnectionsAssumption
  <2>5. opener \in [Threads -> OpenerType]
    BY <1>1 DEF Init
  <2> QED
    BY <2>1, <2>2, <2>3, <2>4, <2>5 DEF Typed
<1>4. InHand /\ Pushing /\ Removing
  BY <1>1 DEF Init, InHand, Pushing, Removing
<1>5. RefsInv /\ CopiesAlive
  BY <1>2 DEF Init, RefsInv, RefsExact, CopiesAlive
<1> QED
  BY <1>3, <1>4, <1>5 DEF IInv

LEMMA ConnectionsStep ==
  ASSUME ConnectionsAssumption, IInv, [Next]_vars
  PROVE  IInv'
<1>1. CASE Next
  <2>1. Alive
    BY <1>1, AliveNow DEF Next
  <2>2. CASE SocketThread
    BY <2>1, <2>2, FindUnusedStep, DisconnectStep, DeleteStep, AcceptStep, CopyStep, ServiceStep, ReleaseStep DEF SocketThread
  <2>3. CASE MessageThread
    BY <2>1, <2>3, CopyStep, SyncStep, ProcessStep, ReleaseStep DEF MessageThread
  <2>4. ASSUME NEW o \in Threads, Opening(o) PROVE IInv'
    BY <2>1, <2>4, FindStep, AddRefStep, ConnectStep, PushStep, GrantStep DEF Opening
  <2>5. ASSUME NEW o \in Threads, NEW a \in Addrs, ChooseAddress(o, a) \/ AddNodeOneTry(o, a) PROVE IInv'
    BY <2>5, ChooseStep
  <2> QED
    BY <1>1, <2>2, <2>3, <2>4, <2>5 DEF Next
<1>2. CASE UNCHANGED vars
  <2>1. Allocated' = Allocated /\ \A n : Holders(n)' = Holders(n)
    BY <1>2 DEF vars, Allocated, Holders
  <2>2. Typed' /\ InHand' /\ Pushing' /\ Removing'
    BY <1>2, <2>1 DEF vars, IInv, Typed, InHand, Pushing, Removing
  <2>3. RefsInv' /\ CopiesAlive'
    BY <1>2, <2>1 DEF vars, IInv, RefsInv, RefsExact, CopiesAlive
  <2> QED
    BY <2>2, <2>3 DEF IInv
<1> QED
  BY <1>1, <1>2

\* For any number of nodes, threads and slots, a CNode has one reference for each thread
\* that uses it and one of its own until it leaves vNodes, except for a reference nobody
\* gives back (CNode::AddRef, CNode::Release and ThreadSocketHandler).
THEOREM RefsCorrect == ASSUME ConnectionsAssumption PROVE Spec => []RefsExact
<1>1. IInv => RefsExact
  BY DEF IInv, RefsInv
<1>2. Init => IInv
  BY InitConnections
<1>3. IInv /\ [Next]_vars => IInv'
  BY ConnectionsStep
<1> QED
  BY <1>1, <1>2, <1>3, PTL DEF Spec

\* A thread that goes through its copy of vNodes meets no deleted CNode, but one of which a
\* reference was taken without the lock (ThreadSocketHandler, ThreadMessageHandler).
THEOREM CopiesCorrect == ASSUME ConnectionsAssumption PROVE Spec => []CopiesAlive
<1>1. IInv => CopiesAlive
  BY DEF IInv
<1>2. Init => IInv
  BY InitConnections
<1>3. IInv /\ [Next]_vars => IInv'
  BY ConnectionsStep
<1> QED
  BY <1>1, <1>2, <1>3, PTL DEF Spec

-----------------------------------------------------------------------------
(* The slots for outbound connections *)

Granted == {o \in Threads : opener[o].grant}
Held == {n \in Allocated : node[n].grantOutbound}

Unposted == Held \ Posted

\* The threads are at different grants, and a grant is kept until it is cleared.
Apart ==
    /\ AtGrant \subseteq Held
    /\ \A o \in Releasing : /\ opener[o].pnode \notin sock.slots
                            /\ \A p \in Releasing : p # o => opener[p].pnode # opener[o].pnode

\* Only a thread that is opening a connection has a slot; until two threads are at one grant,
\* every slot is free, with a thread or with a CNode that has not posted it.
SlotsInv ==
    /\ semOutbound \in Nat /\ raced \in BOOLEAN
    /\ \A o \in Threads : opener[o].grant => o \in Openers /\ opener[o].pc # "idle"
    /\ ~raced => EverySlotOnce /\ Apart

\* EverySlotOnce in terms of Granted and Unposted, now and in the next state.
LEMMA SlotsCounted ==
  /\ EverySlotOnce <=> semOutbound + Cardinality(Granted) + Cardinality(Unposted) = MAX_OUTBOUND_CONNECTIONS
  /\ EverySlotOnce' <=> semOutbound' + Cardinality(Granted') + Cardinality(Unposted') = MAX_OUTBOUND_CONNECTIONS
<1>1. Unposted = {n \in Allocated : node[n].grantOutbound /\ n \notin Posted}
  BY DEF Unposted, Held
<1>2. Unposted' = {n \in Allocated : node[n].grantOutbound /\ n \notin Posted}'
  BY DEF Unposted, Held
<1> QED
  BY <1>1, <1>2 DEF EverySlotOnce, Granted

LEMMA SlotsFinite ==
  ASSUME ConnectionsAssumption
  PROVE  /\ IsFiniteSet(Granted) /\ Cardinality(Granted) \in Nat
         /\ IsFiniteSet(Unposted) /\ Cardinality(Unposted) \in Nat
<1>1. IsFiniteSet(Threads) /\ IsFiniteSet(Heap)
  BY DEF ConnectionsAssumption, Threads
<1>2. Granted \subseteq Threads /\ Unposted \subseteq Heap
  BY DEF Granted, Unposted, Held, Allocated
<1>3. IsFiniteSet(Granted) /\ IsFiniteSet(Unposted)
  BY <1>1, <1>2, FS_Subset
<1> QED
  BY <1>3, FS_CardinalityType

\* What is posted and not cleared is at a grant.
LEMMA PostedAtGrant ==
  ASSUME SlotsInv, ~raced
  PROVE  Posted \subseteq AtGrant /\ AtGrant \subseteq Held /\ Posted \subseteq Held
  BY DEF SlotsInv, Apart, Posted, AtGrant, Releasing

\* A CNode keeps its slot, or its having none, and there is no other with one.
LEMMA HeldStays ==
  ASSUME ConnectionsAssumption,
         \A n \in Heap : node[n] # NULL => node'[n] # NULL /\ node'[n].grantOutbound = node[n].grantOutbound,
         \A n \in Heap : node[n] = NULL /\ node'[n] # NULL => node'[n].grantOutbound = FALSE
  PROVE  Held' = Held
  BY DEF Held, Allocated

\* A step that leaves every slot where it is.
LEMMA SlotsStay ==
  ASSUME ConnectionsAssumption, SlotsInv, Held' = Held, semOutbound' = semOutbound, opener' = opener, raced' = raced,
         sock'.slots = sock.slots, sock'.pc = "clear" <=> sock.pc = "clear"
  PROVE  SlotsInv'
<1>1. Granted' = Granted /\ Releasing' = Releasing /\ AtGrant' = AtGrant /\ Posted' = Posted
  BY DEF Granted, Releasing, AtGrant, Posted
<1>2. Apart' <=> Apart
  BY <1>1 DEF Apart
<1> QED
  BY <1>1, <1>2, SlotsCounted DEF SlotsInv, Unposted

\* A thread that goes on, and is at no grant before or after.
LEMMA PlacesStay ==
  ASSUME ConnectionsAssumption, IInv, NEW o \in Threads, NEW r, opener' = [opener EXCEPT ![o] = r],
         opener[o].pc \notin {"post", "clear"}, r.pc \notin {"post", "clear"}, sock' = sock, Held' = Held
  PROVE  /\ \A p \in Threads : opener'[p] = (IF p = o THEN r ELSE opener[p])
         /\ Posted' = Posted /\ (Apart' <=> Apart)
<1>1. \A p \in Threads : opener'[p] = (IF p = o THEN r ELSE opener[p])
  BY DEF IInv, Typed
<1>2. Releasing' = Releasing /\ o \notin Releasing
  BY <1>1 DEF Releasing
<1>3. \A p \in Releasing : p \in Threads /\ opener'[p] = opener[p]
  BY <1>1, <1>2 DEF Releasing
<1>4. AtGrant' = AtGrant
  BY <1>2, <1>3 DEF AtGrant
<1>5. Posted' = Posted
  <2> DEFINE C == {p \in Threads : opener[p].pc = "clear"}
  <2>1. {p \in Threads : opener'[p].pc = "clear"} = C /\ \A p \in C : opener'[p].pnode = opener[p].pnode
    BY <1>1
  <2>2. {opener'[p].pnode : p \in C} = {opener[p].pnode : p \in C}
    BY <2>1
  <2> QED
    BY <2>1, <2>2 DEF Posted
<1>6. Apart' <=> Apart
  BY <1>2, <1>3, <1>4 DEF Apart
<1> QED
  BY <1>1, <1>5, <1>6

\* A thread goes on and keeps its slot.
LEMMA GrantStays ==
  ASSUME ConnectionsAssumption, IInv, SlotsInv, Held' = Held, semOutbound' = semOutbound, raced' = raced, sock' = sock,
         NEW o \in Threads, NEW r \in OpenerType, opener' = [opener EXCEPT ![o] = r],
         opener[o].pc \notin {"post", "clear"}, r.pc \notin {"post", "clear"},
         r.grant = opener[o].grant, r.grant => r.pc # "idle"
  PROVE  SlotsInv'
<1>1. /\ \A p \in Threads : opener'[p] = (IF p = o THEN r ELSE opener[p])
      /\ Posted' = Posted /\ (Apart' <=> Apart)
  BY PlacesStay
<1>2. Granted' = Granted
  BY <1>1 DEF Granted
<1>3. \A p \in Threads : opener'[p].grant => p \in Openers /\ opener'[p].pc # "idle"
  BY <1>1 DEF SlotsInv
<1> QED
  BY <1>1, <1>2, <1>3, SlotsCounted DEF SlotsInv, Unposted

\* A thread that is done gives back its slot.
LEMMA ReturnSlot ==
  ASSUME ConnectionsAssumption, IInv, SlotsInv, Held' = Held, raced' = raced, sock' = sock,
         NEW o \in Threads, opener[o].pc \notin {"post", "clear"}, Return(o)
  PROVE  SlotsInv'
<1>1. opener' = [opener EXCEPT ![o] = Idle] /\ Idle.grant = FALSE /\ Idle.pc = "idle"
  BY DEF Return, Idle
<1>2. /\ \A p \in Threads : opener'[p] = (IF p = o THEN Idle ELSE opener[p])
      /\ Posted' = Posted /\ (Apart' <=> Apart)
  BY <1>1, PlacesStay
<1>3. Granted' = Granted \ {o} /\ Unposted' = Unposted
  BY <1>1, <1>2 DEF Granted, Unposted
<1>4. IsFiniteSet(Granted) /\ Cardinality(Granted) \in Nat /\ Cardinality(Unposted) \in Nat
  BY SlotsFinite
<1>5. Cardinality(Granted') = IF o \in Granted THEN Cardinality(Granted) - 1 ELSE Cardinality(Granted)
  BY <1>3, <1>4, FS_RemoveElement
<1>6. semOutbound' = semOutbound + (IF o \in Granted THEN 1 ELSE 0)
  BY DEF Return, Granted
<1>7. \A p \in Threads : opener'[p].grant => p \in Openers /\ opener'[p].pc # "idle"
  BY <1>1, <1>2 DEF SlotsInv
<1>8. semOutbound' \in Nat
  BY <1>6 DEF SlotsInv
<1>9. ~raced => EverySlotOnce'
  BY <1>3, <1>4, <1>5, <1>6, SlotsCounted DEF SlotsInv
<1> QED
  BY <1>2, <1>7, <1>8, <1>9 DEF SlotsInv

LEMMA ChooseSlot ==
  ASSUME ConnectionsAssumption, IInv, SlotsInv, NEW o \in Threads, NEW a \in Addrs,
         ChooseAddress(o, a) \/ AddNodeOneTry(o, a)
  PROVE  SlotsInv'
<1>0. /\ Idle \in OpenerType /\ Idle.grant = FALSE /\ Held' = Held /\ o \notin Granted /\ opener[o].pc = "idle"
      /\ sock' = sock /\ raced' = raced
  BY DEF Idle, OpenerType, ChooseAddress, AddNodeOneTry, Held, Allocated, SlotsInv, Granted, history
<1>1. CASE ChooseAddress(o, a)
  <2> DEFINE r == [Idle EXCEPT !.pc = "open", !.addr = a, !.grant = TRUE]
  <2>1. r.grant = TRUE /\ r.pc = "open"
    BY <1>0 DEF OpenerType
  <2>2. opener' = [opener EXCEPT ![o] = r] /\ semOutbound' = semOutbound - 1 /\ semOutbound > 0 /\ o \in Openers
    BY <1>1 DEF ChooseAddress
  <2> HIDE DEF r
  <2>3. /\ \A p \in Threads : opener'[p] = (IF p = o THEN r ELSE opener[p])
        /\ Posted' = Posted /\ (Apart' <=> Apart)
    BY <1>0, <2>1, <2>2, PlacesStay
  <2>4. Granted' = Granted \cup {o} /\ Unposted' = Unposted
    BY <1>0, <2>1, <2>3 DEF Granted, Unposted
  <2>5. IsFiniteSet(Granted) /\ Cardinality(Granted) \in Nat /\ Cardinality(Unposted) \in Nat
    BY SlotsFinite
  <2>6. Cardinality(Granted') = Cardinality(Granted) + 1
    BY <1>0, <2>4, <2>5, FS_AddElement
  <2>7. semOutbound' \in Nat
    BY <2>2 DEF SlotsInv
  <2>8. ~raced => EverySlotOnce'
    BY <2>2, <2>4, <2>5, <2>6, SlotsCounted DEF SlotsInv
  <2>9. \A p \in Threads : opener'[p].grant => p \in Openers /\ opener'[p].pc # "idle"
    BY <2>1, <2>2, <2>3 DEF SlotsInv
  <2> QED
    BY <1>0, <2>3, <2>7, <2>8, <2>9 DEF SlotsInv
<1>2. CASE AddNodeOneTry(o, a)
  <2> DEFINE r == [Idle EXCEPT !.pc = "connect", !.addr = a]
  <2>1. r \in OpenerType /\ r.grant = FALSE /\ r.pc = "connect"
    BY <1>0 DEF OpenerType
  <2>2. opener' = [opener EXCEPT ![o] = r] /\ semOutbound' = semOutbound
    BY <1>2 DEF AddNodeOneTry
  <2>3. opener[o].grant = FALSE
    BY <1>0 DEF Granted, IInv, Typed, OpenerType
  <2> HIDE DEF r
  <2> QED
    BY <1>0, <2>1, <2>2, <2>3, GrantStays
<1> QED
  BY <1>1, <1>2

\* A step of a thread that neither returns nor moves a grant, and its write to a CNode.
LEMMA FindSlot ==
  ASSUME ConnectionsAssumption, IInv, Alive, SlotsInv, NEW o \in Threads,
         OpenNetworkConnection(o) \/ FindNode(o) \/ AddRefRead(o)
  PROVE  SlotsInv'
<1>0. /\ opener[o] \in OpenerType /\ Held' = Held /\ sock' = sock /\ raced' = raced
      /\ opener[o].pc \in {"open", "find", "addref"}
  BY DEF IInv, Typed, OpenNetworkConnection, FindNode, AddRefRead, Held, Allocated, history
<1>1. CASE OpenNetworkConnection(o) /\ Return(o)
  BY <1>0, <1>1, ReturnSlot
<1>2. ASSUME NEW r \in OpenerType, opener' = [opener EXCEPT ![o] = r], r.pc \notin {"idle", "post", "clear"},
             r.grant = opener[o].grant,
             semOutbound' = semOutbound
      PROVE  SlotsInv'
  BY <1>0, <1>2, GrantStays
<1>3. CASE OpenNetworkConnection(o) /\ opener' = [opener EXCEPT ![o].pc = "find"] /\ UNCHANGED semOutbound
  <2> DEFINE r == [opener[o] EXCEPT !.pc = "find"]
  <2>1. r \in OpenerType /\ r.pc \notin {"idle", "post", "clear"} /\ r.grant = opener[o].grant /\ opener' = [opener EXCEPT ![o] = r]
    BY <1>0, <1>3 DEF OpenerType
  <2> QED
    BY <1>2, <1>3, <2>1
<1>4. CASE FindNode(o) /\ opener' = [opener EXCEPT ![o].pc = "connect"]
  <2> DEFINE r == [opener[o] EXCEPT !.pc = "connect"]
  <2>1. r \in OpenerType /\ r.pc \notin {"idle", "post", "clear"} /\ r.grant = opener[o].grant /\ opener' = [opener EXCEPT ![o] = r]
    BY <1>0, <1>4 DEF OpenerType
  <2> QED
    BY <1>2, <1>4, <2>1 DEF FindNode
<1>5. ASSUME NEW n \in vNodes, FindNode(o), opener' = [opener EXCEPT ![o].pc = "addref", ![o].pnode = n]
      PROVE  SlotsInv'
  <2> DEFINE r == [opener[o] EXCEPT !.pc = "addref", !.pnode = n]
  <2>1. n \in Heap
    BY DEF IInv, Typed, Allocated
  <2>2. r \in OpenerType /\ r.pc \notin {"idle", "post", "clear"} /\ r.grant = opener[o].grant
    BY <1>0, <2>1 DEF OpenerType
  <2>3. opener' = [opener EXCEPT ![o] = r]
    BY <1>5 DEF IInv, Typed
  <2> HIDE DEF r
  <2> QED
    BY <1>2, <1>5, <2>2, <2>3 DEF FindNode
<1>6. CASE AddRefRead(o)
  <2> DEFINE k == node[opener[o].pnode].nRefCount
             r == [opener[o] EXCEPT !.pc = "addrefwrite", !.read = k]
  <2>1. k \in Int
    BY <1>6, NodeFacts DEF AddRefRead, IInv, InHand, Alive
  <2> HIDE DEF k
  <2>2. r \in OpenerType /\ r.pc = "addrefwrite" /\ r.grant = opener[o].grant
    BY <1>0, <2>1 DEF OpenerType
  <2>3. opener' = [opener EXCEPT ![o] = r] /\ semOutbound' = semOutbound
    BY <1>6 DEF AddRefRead, IInv, Typed, k
  <2> HIDE DEF r
  <2> QED
    BY <1>2, <2>2, <2>3
<1> QED
  BY <1>1, <1>3, <1>4, <1>5, <1>6 DEF OpenNetworkConnection, FindNode

\* What the writes to a CNode leave of its slot.
LEMMA SlotWrites ==
  ASSUME NEW r \in NodeType
  PROVE  /\ \A k \in Int : [r EXCEPT !.nRefCount = k, !.odd = TRUE].grantOutbound = r.grantOutbound
         /\ \A k \in Int : [r EXCEPT !.nRefCount = k].grantOutbound = r.grantOutbound
         /\ [r EXCEPT !.fNetworkNode = TRUE].grantOutbound = r.grantOutbound
         /\ [r EXCEPT !.fStartSync = TRUE].grantOutbound = r.grantOutbound
         /\ [r EXCEPT !.fDisconnect = TRUE].grantOutbound = r.grantOutbound
         /\ [r EXCEPT !.fDisconnect = TRUE, !.hSocket = FALSE].grantOutbound = r.grantOutbound
         /\ \A g \in BOOLEAN : [r EXCEPT !.grantOutbound = g].grantOutbound = g
  BY DEF NodeType

\* The same for the record of a thread.
LEMMA GrantWrites ==
  ASSUME NEW q \in OpenerType
  PROVE  /\ \A k \in Int : [q EXCEPT !.pc = "move", !.read = k].grant = q.grant
         /\ \A g \in BOOLEAN : [q EXCEPT !.pc = "network", !.grant = g].grant = g
  BY DEF OpenerType

LEMMA AddRefSlot ==
  ASSUME ConnectionsAssumption, IInv, Alive, SlotsInv, NEW o \in Threads, AddRefWrite(o)
  PROVE  SlotsInv'
<1> DEFINE n == opener[o].pnode
           s == [node[n] EXCEPT !.nRefCount = opener[o].read + 1, !.odd = TRUE]
           r == [opener[o] EXCEPT !.pc = "move", !.read = 0]
<1>1. opener[o] \in OpenerType /\ n \in Heap /\ node[n] \in NodeType /\ opener[o].read + 1 \in Int /\ NULL \notin NodeType
  BY NodeFacts DEF IInv, Typed, InHand, Alive, AddRefWrite, OpenerType
<1>2. node' = [node EXCEPT ![n] = s]
  BY <1>1 DEF AddRefWrite, IInv, Typed
<1>3. s \in NodeType /\ s.grantOutbound = node[n].grantOutbound
  <2>1. s \in NodeType
    BY <1>1, NodeWrites, Zenon
  <2>2. s.grantOutbound = node[n].grantOutbound
    BY <1>1, SlotWrites, Zenon
  <2> QED BY <2>1, <2>2
<1>4. /\ opener' = [opener EXCEPT ![o] = r] /\ semOutbound' = semOutbound /\ sock' = sock /\ raced' = raced
      /\ opener[o].pc = "addrefwrite"
  BY DEF AddRefWrite, IInv, Typed
<1>5. r \in OpenerType /\ r.pc = "move" /\ r.grant = opener[o].grant
  <2>1. 0 \in Int
    OBVIOUS
  <2>2. r \in OpenerType /\ r.pc = "move"
    BY <1>1, <2>1, OpenerReads, Zenon
  <2>3. r.grant = opener[o].grant
    BY <1>1, <2>1, GrantWrites, Zenon
  <2> HIDE DEF r
  <2> QED BY <2>2, <2>3
<1> HIDE DEF r, s
<1>6. \A m \in Heap : node'[m] = (IF m = n THEN s ELSE node[m])
  BY <1>1, <1>2 DEF IInv, Typed
<1>7. Held' = Held
  BY <1>1, <1>3, <1>6, HeldStays
<1> QED
  BY <1>4, <1>5, <1>7, GrantStays

LEMMA ConnectSlot ==
  ASSUME ConnectionsAssumption, IInv, SlotsInv, NEW o \in Threads, ConnectSocket(o)
  PROVE  SlotsInv'
<1>0. sock' = sock /\ raced' = raced /\ opener[o].pc = "connect"
  BY DEF ConnectSocket, history
<1>1. CASE Return(o) /\ UNCHANGED node
  BY <1>0, <1>1, ReturnSlot DEF Held, Allocated
<1>2. ASSUME NEW n \in Heap \ Allocated, node' = [node EXCEPT ![n] = NewNode(opener[o].addr, FALSE)],
             opener' = [opener EXCEPT ![o].pc = "push", ![o].pnode = n], UNCHANGED semOutbound
      PROVE  SlotsInv'
  <2> DEFINE r == [opener[o] EXCEPT !.pc = "push", !.pnode = n]
             s == NewNode(opener[o].addr, FALSE)
  <2>1. opener[o] \in OpenerType /\ opener[o].addr \in Addrs /\ n \in Heap /\ node[n] = NULL
    BY DEF ConnectSocket, IInv, Typed, InHand, Allocated
  <2>2. r \in OpenerType /\ r.pc = "push" /\ r.grant = opener[o].grant
    BY <2>1 DEF OpenerType
  <2>3. opener' = [opener EXCEPT ![o] = r]
    BY <1>2 DEF IInv, Typed
  <2>4. s.grantOutbound = FALSE
    BY DEF NewNode
  <2> HIDE DEF r, s
  <2>5. \A m \in Heap : node'[m] = (IF m = n THEN s ELSE node[m])
    BY <1>2, <2>1 DEF IInv, Typed, s
  <2>6. Held' = Held
    BY <2>1, <2>4, <2>5, HeldStays
  <2> QED
    BY <1>0, <1>2, <2>2, <2>3, <2>6, GrantStays
<1> QED
  BY <1>1, <1>2 DEF ConnectSocket

LEMMA PushSlot ==
  ASSUME ConnectionsAssumption, IInv, SlotsInv, NEW o \in Threads, PushNode(o)
  PROVE  SlotsInv'
<1> DEFINE r == IF o \in OneTry THEN Idle ELSE [opener[o] EXCEPT !.pc = "move"]
<1>1. opener[o] \in OpenerType /\ Idle \in OpenerType /\ Idle.grant = FALSE /\ Idle.pc = "idle" /\ Held' = Held
      /\ sock' = sock /\ raced' = raced /\ opener[o].pc = "push"
  BY DEF PushNode, IInv, Typed, Held, Allocated, Idle, OpenerType, history
<1>2. o \in OneTry => opener[o].grant = FALSE
  BY <1>1 DEF SlotsInv, ConnectionsAssumption, OpenerType
<1>3. r \in OpenerType /\ r.pc \in {"idle", "move"} /\ (r.grant => r.pc # "idle") /\ r.grant = opener[o].grant
  BY <1>1, <1>2 DEF OpenerType
<1>4. opener' = [opener EXCEPT ![o] = r] /\ semOutbound' = semOutbound
  BY <1>1 DEF PushNode, IInv, Typed
<1> HIDE DEF r
<1> QED
  BY <1>1, <1>3, <1>4, GrantStays

LEMMA NetworkSlot ==
  ASSUME ConnectionsAssumption, IInv, Alive, SlotsInv, NEW o \in Threads, SetNetworkNode(o)
  PROVE  SlotsInv'
<1> DEFINE n == opener[o].pnode
           s == [node[n] EXCEPT !.fNetworkNode = TRUE]
<1>1. n \in Heap /\ node[n] \in NodeType /\ NULL \notin NodeType
  BY NodeFacts DEF IInv, Typed, InHand, Alive, SetNetworkNode
<1>2. node' = [node EXCEPT ![n] = s] /\ Return(o) /\ sock' = sock /\ raced' = raced /\ opener[o].pc = "network"
  BY <1>1 DEF SetNetworkNode, IInv, Typed, history
<1>3. s \in NodeType /\ s.grantOutbound = node[n].grantOutbound
  BY <1>1, SlotWrites, NodeWrites
<1> HIDE DEF s
<1>4. \A m \in Heap : node'[m] = (IF m = n THEN s ELSE node[m])
  BY <1>1, <1>2 DEF IInv, Typed
<1>5. Held' = Held
  BY <1>1, <1>3, <1>4, HeldStays
<1> QED
  BY <1>2, <1>5, ReturnSlot

\* MoveTo looks at the grant of the node: it is at it from now on, if there is one.
LEMMA MoveLooksSlot ==
  ASSUME ConnectionsAssumption, IInv, Alive, SlotsInv, NEW o \in Threads, MoveLooks(o)
  PROVE  SlotsInv'
<1> DEFINE n == opener[o].pnode
           x == IF node[n].grantOutbound THEN "post" ELSE "set"
<1>1. opener[o] \in OpenerType /\ n \in Heap /\ n \in Allocated /\ opener[o].pc = "move"
  BY NodeFacts DEF IInv, Typed, InHand, Alive, MoveLooks
<1>2. /\ x \in {"post", "set"} /\ opener' = [opener EXCEPT ![o].pc = x] /\ (x = "post" => n \in Held)
      /\ semOutbound' = semOutbound /\ sock' = sock /\ node' = node /\ raced' = (raced \/ (x = "post" /\ n \in AtGrant))
  BY <1>1 DEF MoveLooks, Held
<1> HIDE DEF x
<1>3. \A p \in Threads : /\ opener'[p].pc = (IF p = o THEN x ELSE opener[p].pc)
                         /\ opener'[p].pnode = opener[p].pnode /\ opener'[p].grant = opener[p].grant
  BY <1>1, <1>2 DEF IInv, Typed, OpenerType
<1>4. Held' = Held /\ Granted' = Granted
  BY <1>2, <1>3 DEF Held, Allocated, Granted
<1>5. Posted' = Posted
  <2> DEFINE C == {p \in Threads : opener[p].pc = "clear"}
  <2>1. {p \in Threads : opener'[p].pc = "clear"} = C /\ \A p \in C : opener'[p].pnode = opener[p].pnode
    BY <1>1, <1>2, <1>3
  <2>2. {opener'[p].pnode : p \in C} = {opener[p].pnode : p \in C}
    BY <2>1
  <2> QED
    BY <1>2, <2>1, <2>2 DEF Posted
<1>6. \A p \in Threads : opener'[p].grant => p \in Openers /\ opener'[p].pc # "idle"
  BY <1>2, <1>3 DEF SlotsInv
<1>7. ASSUME ~raced' PROVE Apart'
  <2>1. ~raced /\ Apart /\ (x = "post" => n \notin AtGrant)
    BY <1>2, <1>7 DEF SlotsInv
  <2>2. Releasing' = IF x = "post" THEN Releasing \cup {o} ELSE Releasing
    BY <1>1, <1>2, <1>3 DEF Releasing
  <2>3. AtGrant' = IF x = "post" THEN AtGrant \cup {n} ELSE AtGrant
    BY <1>2, <1>3, <2>2 DEF AtGrant, Releasing
  <2>4. \A p \in Releasing : p \in Threads /\ opener[p].pnode \in AtGrant
    BY DEF Releasing, AtGrant
  <2>5. sock.slots \subseteq AtGrant
    BY DEF AtGrant
  <2> QED
    BY <1>2, <1>3, <1>4, <2>1, <2>2, <2>3, <2>4, <2>5 DEF Apart
<1>8. raced' \in BOOLEAN /\ (~raced' => ~raced)
  BY <1>2 DEF SlotsInv
<1> QED
  BY <1>2, <1>4, <1>5, <1>6, <1>7, <1>8, SlotsCounted DEF SlotsInv, Unposted

\* What a thread that posts or clears a grant leaves.
LEMMA ReleasingStep ==
  ASSUME ConnectionsAssumption, IInv, Alive, NEW o \in Threads, MovePosts(o) \/ MoveClears(o)
  PROVE  /\ o \in Releasing /\ opener[o].pnode \in AtGrant
         /\ \A p \in Threads : /\ opener'[p].pc = (IF p = o THEN (IF opener[o].pc = "post" THEN "clear" ELSE "set") ELSE opener[p].pc)
                               /\ opener'[p].pnode = opener[p].pnode /\ opener'[p].grant = opener[p].grant
         /\ Granted' = Granted /\ sock' = sock /\ raced' = raced
         /\ opener[o].pnode \in Heap /\ opener[o].pnode \in Allocated /\ node[opener[o].pnode] \in NodeType
<1>1. opener[o] \in OpenerType /\ opener[o].pc \in {"post", "clear"} /\ opener[o].pnode \in Heap /\ opener[o].pnode \in Allocated
      /\ node[opener[o].pnode] \in NodeType
  BY NodeFacts DEF IInv, Typed, InHand, Alive, MovePosts, MoveClears
<1>2. o \in Releasing /\ opener[o].pnode \in AtGrant
  BY <1>1 DEF Releasing, AtGrant
<1>3. \A p \in Threads : /\ opener'[p].pc = (IF p = o THEN (IF opener[o].pc = "post" THEN "clear" ELSE "set") ELSE opener[p].pc)
                         /\ opener'[p].pnode = opener[p].pnode /\ opener'[p].grant = opener[p].grant
  BY DEF MovePosts, MoveClears, IInv, Typed, OpenerType
<1>4. Granted' = Granted
  BY <1>3 DEF Granted
<1> QED
  BY <1>1, <1>2, <1>3, <1>4 DEF MovePosts, MoveClears, history

\* The slot of the node goes back.
LEMMA MovePostsSlot ==
  ASSUME ConnectionsAssumption, IInv, Alive, SlotsInv, NEW o \in Threads, MovePosts(o)
  PROVE  SlotsInv'
<1> DEFINE n == opener[o].pnode
<1>1. /\ o \in Releasing /\ n \in AtGrant /\ Granted' = Granted /\ sock' = sock /\ raced' = raced /\ opener[o].pc = "post"
      /\ \A p \in Threads : /\ opener'[p].pc = (IF p = o THEN "clear" ELSE opener[p].pc)
                            /\ opener'[p].pnode = opener[p].pnode /\ opener'[p].grant = opener[p].grant
  <2>1. opener[o].pc = "post"
    BY DEF MovePosts
  <2> QED
    BY <2>1, ReleasingStep
<1>2. semOutbound' = semOutbound + 1 /\ Held' = Held
  BY DEF MovePosts, Held, Allocated
<1>3. Releasing' = Releasing
  BY <1>1 DEF Releasing
<1>4. AtGrant' = AtGrant
  BY <1>1, <1>3 DEF AtGrant, Releasing
<1>5. Apart' <=> Apart
  BY <1>1, <1>2, <1>3, <1>4 DEF Apart, Releasing
<1>6. \A p \in Threads : opener'[p].grant => p \in Openers /\ opener'[p].pc # "idle"
  BY <1>1 DEF SlotsInv
<1>7. Posted' = Posted \cup {n}
  BY <1>1 DEF Posted
<1>8. ASSUME ~raced PROVE EverySlotOnce'
  <2>1. n \in Held /\ n \notin Posted
    BY <1>1, <1>8 DEF SlotsInv, Apart, Posted, Releasing
  <2>2. Unposted' = Unposted \ {n} /\ n \in Unposted
    BY <1>2, <1>7, <2>1 DEF Unposted
  <2>3. IsFiniteSet(Unposted) /\ Cardinality(Unposted) \in Nat /\ Cardinality(Granted) \in Nat
    BY SlotsFinite
  <2>4. Cardinality(Unposted') = Cardinality(Unposted) - 1
    BY <2>2, <2>3, FS_RemoveElement
  <2> QED
    BY <1>1, <1>2, <1>8, <2>3, <2>4, SlotsCounted DEF SlotsInv
<1> QED
  BY <1>1, <1>2, <1>5, <1>6, <1>8 DEF SlotsInv

\* And the node does not have it any more.
LEMMA MoveClearsSlot ==
  ASSUME ConnectionsAssumption, IInv, Alive, SlotsInv, NEW o \in Threads, MoveClears(o)
  PROVE  SlotsInv'
<1> DEFINE n == opener[o].pnode
           s == [node[n] EXCEPT !.grantOutbound = FALSE]
<1>1. /\ o \in Releasing /\ n \in AtGrant /\ Granted' = Granted /\ sock' = sock /\ raced' = raced /\ opener[o].pc = "clear"
      /\ \A p \in Threads : /\ opener'[p].pc = (IF p = o THEN "set" ELSE opener[p].pc)
                            /\ opener'[p].pnode = opener[p].pnode /\ opener'[p].grant = opener[p].grant
      /\ n \in Heap /\ n \in Allocated /\ node[n] \in NodeType
  <2>1. opener[o].pc = "clear"
    BY DEF MoveClears
  <2> QED
    BY <2>1, ReleasingStep
<1>2. semOutbound' = semOutbound /\ node' = [node EXCEPT ![n] = s]
  BY <1>1 DEF MoveClears, IInv, Typed
<1>3. s \in NodeType /\ s.grantOutbound = FALSE /\ NULL \notin NodeType
  BY <1>1, NodeFacts DEF NodeType, IInv
<1> HIDE DEF s
<1>4. Held' = Held \ {n}
  <2>1. \A m \in Heap : node'[m] = (IF m = n THEN s ELSE node[m])
    BY <1>1, <1>2 DEF IInv, Typed
  <2>2. Allocated' = Allocated
    BY <1>1, <1>3, <2>1 DEF Allocated
  <2> QED
    BY <1>1, <1>3, <2>1, <2>2 DEF Held, Allocated
<1>5. Releasing' = Releasing \ {o}
  BY <1>1 DEF Releasing
<1>6. \A p \in Threads : opener'[p].grant => p \in Openers /\ opener'[p].pc # "idle"
  BY <1>1 DEF SlotsInv
<1>7. ASSUME ~raced PROVE EverySlotOnce' /\ Apart'
  <2>1. Apart /\ EverySlotOnce /\ n \in Posted
    BY <1>1, <1>7 DEF SlotsInv, Posted
  <2>2. n \notin sock.slots /\ \A p \in Releasing : p # o => opener[p].pnode # n
    BY <1>1, <2>1 DEF Apart
  <2>3. AtGrant' = AtGrant \ {n}
    BY <1>1, <1>5, <2>2 DEF AtGrant, Releasing
  <2>4. Posted' = Posted \ {n}
    BY <1>1, <2>2 DEF Posted, Releasing
  <2>5. Unposted' = Unposted
    BY <1>4, <2>1, <2>4 DEF Unposted
  <2>6. Apart'
    BY <1>1, <1>4, <1>5, <2>1, <2>3 DEF Apart, Releasing
  <2> QED
    BY <1>1, <1>2, <2>1, <2>5, <2>6, SlotsCounted
<1> QED
  BY <1>1, <1>2, <1>6, <1>7 DEF SlotsInv

\* The node has the slot of the thread.
LEMMA MoveSetsSlot ==
  ASSUME ConnectionsAssumption, IInv, Alive, SlotsInv, NEW o \in Threads, MoveSets(o)
  PROVE  SlotsInv'
<1> DEFINE n == opener[o].pnode
           s == [node[n] EXCEPT !.grantOutbound = opener[o].grant]
           r == [opener[o] EXCEPT !.pc = "network", !.grant = FALSE]
<1>1. opener[o] \in OpenerType /\ opener[o].grant \in BOOLEAN /\ n \in Heap /\ n \in Allocated /\ node[n] \in NodeType
      /\ NULL \notin NodeType /\ opener[o].pc = "set"
  BY NodeFacts DEF IInv, Typed, InHand, Alive, MoveSets, OpenerType
<1>2. s \in NodeType /\ s.grantOutbound = opener[o].grant
  BY <1>1 DEF NodeType
<1>3. r.grant = FALSE /\ r.pc = "network"
  <2>1. FALSE \in BOOLEAN
    OBVIOUS
  <2> QED
    BY <1>1, <2>1, OpenerMoves, Zenon
<1>4. /\ opener' = [opener EXCEPT ![o] = r] /\ node' = [node EXCEPT ![n] = s] /\ sock' = sock /\ semOutbound' = semOutbound
      /\ raced' = (raced \/ n \in Held)
  BY <1>1 DEF MoveSets, IInv, Typed, Held
<1> HIDE DEF r, s
<1>5. \A p \in Threads : opener'[p] = (IF p = o THEN r ELSE opener[p])
  BY <1>4 DEF IInv, Typed
<1>6. \A p \in Threads : opener'[p].grant => p \in Openers /\ opener'[p].pc # "idle"
  BY <1>3, <1>5 DEF SlotsInv
<1>7. Granted' = Granted \ {o} /\ (o \in Granted <=> opener[o].grant)
  BY <1>3, <1>5 DEF Granted
<1>8. ASSUME ~raced' PROVE EverySlotOnce' /\ Apart'
  <2>1. ~raced /\ Apart /\ EverySlotOnce /\ n \notin Held
    BY <1>4, <1>8 DEF SlotsInv
  <2>2. Held' = IF o \in Granted THEN Held \cup {n} ELSE Held
    <3>1. \A m \in Heap : node'[m] = (IF m = n THEN s ELSE node[m])
      BY <1>1, <1>4 DEF IInv, Typed
    <3>2. Allocated' = Allocated
      BY <1>1, <1>2, <3>1 DEF Allocated
    <3>3. n \in Held' <=> o \in Granted
      BY <1>1, <1>2, <1>7, <3>1, <3>2 DEF Held
    <3>4. \A m \in Allocated : m # n => (m \in Held' <=> m \in Held)
      BY <3>1, <3>2 DEF Held, Allocated
    <3>5. Held' \subseteq Allocated /\ Held \subseteq Allocated
      BY <3>2 DEF Held
    <3> QED
      BY <2>1, <3>3, <3>4, <3>5
  <2>3. Releasing' = Releasing /\ o \notin Releasing
    BY <1>1, <1>3, <1>5 DEF Releasing
  <2>4. AtGrant' = AtGrant
    BY <1>4, <1>5, <2>3 DEF AtGrant, Releasing
  <2>5. Posted' = Posted /\ n \notin Posted
    <3>1. Posted' = Posted
      BY <1>1, <1>3, <1>4, <1>5 DEF Posted
    <3> QED
      BY <2>1, <3>1, PostedAtGrant
  <2>6. Apart'
    BY <1>4, <1>5, <2>1, <2>2, <2>3, <2>4 DEF Apart, Releasing
  <2>7. Unposted' = (IF o \in Granted THEN Unposted \cup {n} ELSE Unposted) /\ n \notin Unposted
    BY <2>1, <2>2, <2>5 DEF Unposted
  <2>8. IsFiniteSet(Granted) /\ Cardinality(Granted) \in Nat /\ IsFiniteSet(Unposted) /\ Cardinality(Unposted) \in Nat
    BY SlotsFinite
  <2>9. Cardinality(Granted') = IF o \in Granted THEN Cardinality(Granted) - 1 ELSE Cardinality(Granted)
    BY <1>7, <2>8, FS_RemoveElement
  <2>10. Cardinality(Unposted') = IF o \in Granted THEN Cardinality(Unposted) + 1 ELSE Cardinality(Unposted)
    BY <2>7, <2>8, FS_AddElement
  <2>11. EverySlotOnce'
    BY <1>4, <2>1, <2>8, <2>9, <2>10, SlotsCounted DEF SlotsInv
  <2> QED
    BY <2>6, <2>11
<1>9. raced' \in BOOLEAN
  BY <1>4 DEF SlotsInv
<1> QED
  BY <1>4, <1>6, <1>8, <1>9 DEF SlotsInv

\* The socket thread looks at the grants of the nodes it removes.
LEMMA FindUnusedSlots ==
  ASSUME ConnectionsAssumption, IInv, SlotsInv, FindUnused
  PROVE  SlotsInv'
<1> DEFINE gone == {n \in vNodes : Unused(n)}
           slots == {n \in gone : node[n].grantOutbound}
<1>1. /\ sock.pc = "disconnect" /\ sock' = [sock EXCEPT !.pc = "post", !.gone = gone, !.slots = slots]
      /\ raced' = (raced \/ slots \cap AtGrant # {}) /\ UNCHANGED <<node, semOutbound, opener>>
  BY DEF FindUnused
<1>2. sock.slots = {} /\ slots \subseteq Held
  BY <1>1 DEF IInv, Removing, Typed, Held
<1> HIDE DEF gone, slots
<1>3. sock'.pc = "post" /\ sock'.slots = slots
  BY <1>1 DEF IInv, Typed
<1>4. Held' = Held /\ Granted' = Granted /\ Releasing' = Releasing
  BY <1>1 DEF Held, Allocated, Granted, Releasing
<1>5. Posted' = Posted /\ AtGrant' = AtGrant \cup slots
  BY <1>1, <1>2, <1>3, <1>4 DEF Posted, AtGrant
<1>6. ASSUME ~raced' PROVE Apart'
  <2>1. ~raced /\ Apart /\ slots \cap AtGrant = {}
    BY <1>1, <1>6 DEF SlotsInv
  <2>2. \A p \in Releasing : opener[p].pnode \in AtGrant
    BY DEF AtGrant
  <2> QED
    BY <1>1, <1>2, <1>3, <1>4, <1>5, <2>1, <2>2 DEF Apart
<1>7. raced' \in BOOLEAN /\ (~raced' => ~raced)
  BY <1>1 DEF SlotsInv
<1> QED
  BY <1>1, <1>4, <1>5, <1>6, <1>7, SlotsCounted DEF SlotsInv, Unposted

\* It posts them.
LEMMA PostSlotsSlots ==
  ASSUME ConnectionsAssumption, IInv, SlotsInv, PostSlots
  PROVE  SlotsInv'
<1> DEFINE slots == sock.slots
<1>1. /\ sock.pc = "post" /\ sock' = [sock EXCEPT !.pc = "clear"] /\ semOutbound' = semOutbound + Cardinality(slots)
      /\ UNCHANGED <<node, opener, raced>>
  BY DEF PostSlots, history
<1>2. sock'.pc = "clear" /\ sock'.slots = slots
  BY <1>1 DEF IInv, Typed
<1>3. Held' = Held /\ Granted' = Granted /\ Releasing' = Releasing
  BY <1>1 DEF Held, Allocated, Granted, Releasing
<1>4. Posted' = Posted \cup slots /\ AtGrant' = AtGrant
  BY <1>1, <1>2, <1>3 DEF Posted, AtGrant
<1>5. Apart' <=> Apart
  BY <1>1, <1>2, <1>3, <1>4 DEF Apart
<1>6. IsFiniteSet(slots) /\ Cardinality(slots) \in Nat
  <2>1. slots \subseteq Heap
    BY DEF IInv, Typed
  <2>2. IsFiniteSet(slots)
    BY <2>1, FS_Subset DEF ConnectionsAssumption
  <2> QED
    BY <2>2, FS_CardinalityType
<1>7. ASSUME ~raced PROVE EverySlotOnce'
  <2>1. slots \subseteq Held /\ slots \cap Posted = {}
    BY <1>1, <1>7 DEF SlotsInv, Apart, AtGrant, Posted, Releasing
  <2>2. slots \subseteq Unposted /\ Unposted' = Unposted \ slots
    BY <1>3, <1>4, <2>1 DEF Unposted
  <2>3. IsFiniteSet(Unposted) /\ Cardinality(Unposted) \in Nat /\ Cardinality(Granted) \in Nat
    BY SlotsFinite
  <2>4. Cardinality(Unposted \ slots) = Cardinality(Unposted) - Cardinality(Unposted \cap slots)
    BY <2>3, FS_Difference
  <2>5. Unposted \cap slots = slots
    BY <2>2
  <2>6. semOutbound \in Nat /\ semOutbound + Cardinality(Granted) + Cardinality(Unposted) = MAX_OUTBOUND_CONNECTIONS
    BY <1>7, SlotsCounted DEF SlotsInv
  <2>7. Cardinality(Unposted') = Cardinality(Unposted) - Cardinality(slots) /\ Cardinality(Granted') = Cardinality(Granted)
    BY <1>3, <2>2, <2>4, <2>5
  <2>8. semOutbound' + Cardinality(Granted') + Cardinality(Unposted') = MAX_OUTBOUND_CONNECTIONS
    BY <1>1, <1>6, <2>3, <2>6, <2>7
  <2> QED
    BY <2>8, SlotsCounted
<1> HIDE DEF slots
<1>8. semOutbound' \in Nat
  BY <1>1, <1>6 DEF SlotsInv
<1> QED
  BY <1>1, <1>5, <1>7, <1>8 DEF SlotsInv

\* It clears them.
LEMMA DisconnectSlots ==
  ASSUME ConnectionsAssumption, IInv, SlotsInv, DisconnectNodes
  PROVE  SlotsInv'
<1> DEFINE gone == sock.gone
           slots == sock.slots
           freed == [n \in Heap |-> IF n \in gone
                        THEN [node[n] EXCEPT !.grantOutbound = @ /\ n \notin sock.slots,
                                             !.odd = @ \/ ~(node[n].fNetworkNode \/ node[n].fInbound)]
                        ELSE node[n]]
           closed == CloseSocketDisconnect(freed, gone)
           own == {n \in gone : OwnReference(n)}
<1>1. /\ sock.pc = "clear" /\ sock' = [sock EXCEPT !.pc = "delete", !.gone = {}, !.slots = {}]
      /\ node' = Releases(closed, own)
      /\ UNCHANGED <<semOutbound, opener, raced>>
  BY DEF DisconnectNodes, history
<1>2. /\ gone \subseteq Allocated /\ Allocated \subseteq Heap /\ own \subseteq gone /\ node \in [Heap -> NodeType \cup {NULL}]
      /\ NULL \notin NodeType /\ \A n \in Heap : n \in Allocated <=> node[n] \in NodeType
  BY NodeFacts DEF IInv, Typed, Allocated, Removing
<1>3. ASSUME NEW n \in Heap, n \notin gone PROVE node'[n] = node[n]
  <2>1. freed[n] = node[n] /\ closed[n] = freed[n]
    BY <1>3 DEF CloseSocketDisconnect
  <2> HIDE DEF freed, closed, gone
  <2>2. n \notin own
    BY <1>2, <1>3
  <2> HIDE DEF own
  <2> QED
    BY <1>1, <2>1, <2>2 DEF Releases
<1>4. ASSUME NEW n \in gone PROVE node'[n].grantOutbound = (node[n].grantOutbound /\ n \notin slots) /\ node'[n] # NULL
  <2> DEFINE g == node[n].grantOutbound /\ n \notin sock.slots
  <2>1. node[n] \in NodeType /\ n \in Heap /\ n \in Allocated
    BY <1>2
  <2>2. freed[n] = [node[n] EXCEPT !.grantOutbound = @ /\ n \notin sock.slots, !.odd = @ \/ ~(node[n].fNetworkNode \/ node[n].fInbound)]
    BY <2>1
  <2>3. freed[n] \in NodeType /\ freed[n].grantOutbound = g
    <3>1. node[n].odd \in BOOLEAN /\ node[n].fNetworkNode \in BOOLEAN /\ node[n].fInbound \in BOOLEAN
      BY <2>1 DEF NodeType
    <3> DEFINE b == node[n].odd \/ ~(node[n].fNetworkNode \/ node[n].fInbound)
    <3>2. b \in BOOLEAN /\ g \in BOOLEAN
      BY <2>1, <3>1 DEF NodeType
    <3>3. freed[n] = [node[n] EXCEPT !.grantOutbound = g, !.odd = b]
      BY <2>1, <2>2 DEF NodeType
    <3> HIDE DEF b, g, freed
    <3> QED
      BY <2>1, <3>2, <3>3 DEF NodeType
  <2>4. closed[n] = [freed[n] EXCEPT !.fDisconnect = TRUE, !.hSocket = FALSE]
    BY <2>1 DEF CloseSocketDisconnect
  <2> HIDE DEF freed, g
  <2>5. closed[n] \in NodeType /\ closed[n].grantOutbound = g
    <3>1. closed[n] \in NodeType
      BY <2>3, <2>4, CloseFacts
    <3>2. closed[n].grantOutbound = freed[n].grantOutbound
      BY <2>3, <2>4, SlotWrites
    <3> QED BY <2>3, <3>1, <3>2
  <2> HIDE DEF closed, gone, own
  <2>6. node'[n] = IF n \in own THEN [closed[n] EXCEPT !.nRefCount = @ - 1] ELSE closed[n]
    BY <1>1, <1>2, <2>1, <2>5 DEF Releases
  <2>7. closed[n].nRefCount - 1 \in Int
    BY <2>5 DEF NodeType
  <2>8. \A k \in Int : [closed[n] EXCEPT !.nRefCount = k] \in NodeType /\ [closed[n] EXCEPT !.nRefCount = k].grantOutbound = g
    <3>1. \A k \in Int : [closed[n] EXCEPT !.nRefCount = k] \in NodeType
      BY <2>5, NodeWrites, Zenon
    <3>2. \A k \in Int : [closed[n] EXCEPT !.nRefCount = k].grantOutbound = closed[n].grantOutbound
      BY <2>5, SlotWrites, Zenon
    <3> QED BY <2>5, <3>1, <3>2, Zenon
  <2>9. node'[n] \in NodeType /\ node'[n].grantOutbound = g
    BY <2>5, <2>6, <2>7, <2>8
  <2> QED
    BY <1>2, <2>9 DEF g
<1> HIDE DEF freed, closed, own
<1>5. Held' = Held \ slots
  <2>1. Allocated' = Allocated
    BY <1>2, <1>3, <1>4 DEF Allocated
  <2>2. slots \subseteq gone
    BY DEF IInv, Removing
  <2>3. \A n \in Allocated : n \in Held' <=> (n \notin slots /\ n \in Held)
    BY <1>2, <1>3, <1>4, <2>1, <2>2 DEF Held
  <2>4. Held' \subseteq Allocated /\ Held \subseteq Allocated
    BY <2>1 DEF Held
  <2> QED
    BY <2>3, <2>4
<1>6. sock'.pc = "delete" /\ sock'.slots = {}
  BY <1>1 DEF IInv, Typed
<1> HIDE DEF gone
<1>7. Granted' = Granted /\ Releasing' = Releasing
  BY <1>1 DEF Granted, Releasing
<1>8. \A p \in Threads : opener'[p].grant => p \in Openers /\ opener'[p].pc # "idle"
  BY <1>1 DEF SlotsInv
<1>9. ASSUME ~raced PROVE EverySlotOnce' /\ Apart'
  <2>1. EverySlotOnce /\ Apart
    BY <1>9 DEF SlotsInv
  <2>2. AtGrant' = AtGrant \ slots
    BY <1>1, <1>6, <1>7, <2>1 DEF AtGrant, Apart
  <2>3. Posted' = Posted \ slots /\ slots \subseteq Posted
    BY <1>1, <1>6, <2>1 DEF Posted, Apart, Releasing
  <2>4. Unposted' = Unposted
    BY <1>5, <2>3 DEF Unposted
  <2>5. Apart'
    BY <1>1, <1>5, <1>6, <1>7, <2>1, <2>2 DEF Apart
  <2> QED
    BY <1>1, <1>7, <2>1, <2>4, <2>5, SlotsCounted
<1> QED
  BY <1>1, <1>8, <1>9 DEF SlotsInv

LEMMA DeleteSlots ==
  ASSUME ConnectionsAssumption, IInv, SlotsInv, DeleteNodes
  PROVE  SlotsInv'
<1> DEFINE dead == {n \in vNodesDisconnected : Deletable(n)}
           back == {n \in dead : node[n].grantOutbound}
<1>1. /\ semOutbound' = semOutbound + Cardinality(back)
      /\ node' = [n \in Heap |-> IF n \in dead THEN NULL ELSE node[n]]
      /\ opener' = opener /\ sock.pc = "delete" /\ sock' = [sock EXCEPT !.pc = "accept"]
      /\ raced' = (raced \/ dead \cap AtGrant # {})
  BY DEF DeleteNodes
<1>2. dead \subseteq Allocated /\ Allocated \subseteq Heap
  BY DEF IInv, Typed, Allocated
<1>3. \A n \in dead : n \in back <=> node[n].grantOutbound
  OBVIOUS
<1>4. back \subseteq dead
  OBVIOUS
<1> HIDE DEF dead, back
<1>5. Held' = Held \ back /\ back \subseteq Held
  <2>1. Allocated' = Allocated \ dead
    BY <1>1, <1>2 DEF Allocated
  <2>2. \A n \in Allocated \ dead : n \in Held' <=> n \in Held
    BY <1>1, <1>2, <2>1 DEF Held
  <2>3. \A n \in dead : n \in back <=> n \in Held
    BY <1>2, <1>3 DEF Held
  <2>4. Held' \subseteq Allocated \ dead /\ Held \subseteq Allocated
    BY <2>1 DEF Held
  <2> QED
    BY <1>2, <1>4, <2>2, <2>3, <2>4
<1>6. sock'.pc = "accept" /\ sock'.slots = sock.slots
  BY <1>1 DEF IInv, Typed
<1>7. Granted' = Granted /\ Releasing' = Releasing /\ Posted' = Posted /\ AtGrant' = AtGrant
  BY <1>1, <1>6 DEF Granted, Releasing, Posted, AtGrant
<1>8. IsFiniteSet(back) /\ Cardinality(back) \in Nat
  <2>1. IsFiniteSet(back)
    BY <1>2, <1>4, FS_Subset DEF ConnectionsAssumption
  <2> QED
    BY <2>1, FS_CardinalityType
<1>9. ASSUME ~raced' PROVE EverySlotOnce' /\ Apart'
  <2>1. ~raced /\ EverySlotOnce /\ Apart /\ back \cap AtGrant = {}
    BY <1>1, <1>4, <1>9 DEF SlotsInv
  <2>2. Unposted' = Unposted \ back /\ back \subseteq Unposted
    BY <1>5, <1>7, <2>1, PostedAtGrant DEF Unposted
  <2>3. IsFiniteSet(Unposted) /\ Cardinality(Unposted) \in Nat /\ Cardinality(Granted) \in Nat
    BY SlotsFinite
  <2>4. Cardinality(Unposted \ back) = Cardinality(Unposted) - Cardinality(Unposted \cap back)
    BY <2>3, FS_Difference
  <2>5. Unposted \cap back = back
    BY <2>2
  <2>6. EverySlotOnce'
    <3>1. semOutbound \in Nat /\ semOutbound + Cardinality(Granted) + Cardinality(Unposted) = MAX_OUTBOUND_CONNECTIONS
      BY <2>1, SlotsCounted DEF SlotsInv
    <3>2. Cardinality(Unposted') = Cardinality(Unposted) - Cardinality(back) /\ Cardinality(Granted') = Cardinality(Granted)
      BY <1>7, <2>2, <2>4, <2>5
    <3>3. semOutbound' + Cardinality(Granted') + Cardinality(Unposted') = MAX_OUTBOUND_CONNECTIONS
      BY <1>1, <1>8, <2>3, <3>1, <3>2
    <3> QED
      BY <3>3, SlotsCounted
  <2>7. Apart'
    BY <1>1, <1>5, <1>6, <1>7, <2>1 DEF Apart
  <2> QED
    BY <2>6, <2>7
<1>10. semOutbound' \in Nat /\ raced' \in BOOLEAN
  BY <1>1, <1>8 DEF SlotsInv
<1>11. \A p \in Threads : opener'[p].grant => p \in Openers /\ opener'[p].pc # "idle"
  BY <1>1 DEF SlotsInv
<1> QED
  BY <1>9, <1>10, <1>11 DEF SlotsInv

\* The references a thread takes and gives back.
LEMMA CopySlots ==
  ASSUME ConnectionsAssumption, IInv, Alive, SlotsInv, SocketCopy \/ HandlerCopy \/ SocketRelease \/ HandlerRelease
  PROVE  SlotsInv'
<1>0. /\ node \in [Heap -> NodeType \cup {NULL}] /\ vNodes \subseteq Allocated
      /\ sock.copy \subseteq Allocated /\ handler.copy \subseteq Allocated
      /\ NULL \notin NodeType /\ \A n \in Heap : n \in Allocated <=> node[n] \in NodeType
  BY NodeFacts DEF IInv, Typed, Alive
<1>1. \A n \in Allocated : \A k \in Int : /\ [node[n] EXCEPT !.nRefCount = k] \in NodeType
                                          /\ [node[n] EXCEPT !.nRefCount = k].grantOutbound = node[n].grantOutbound
  <2> SUFFICES ASSUME NEW n \in Allocated
               PROVE  \A k \in Int : /\ [node[n] EXCEPT !.nRefCount = k] \in NodeType
                                     /\ [node[n] EXCEPT !.nRefCount = k].grantOutbound = node[n].grantOutbound
    OBVIOUS
  <2>1. node[n] \in NodeType
    BY <1>0 DEF Allocated
  <2>2. \A k \in Int : [node[n] EXCEPT !.nRefCount = k] \in NodeType
    BY <2>1, NodeWrites, Zenon
  <2>3. \A k \in Int : [node[n] EXCEPT !.nRefCount = k].grantOutbound = node[n].grantOutbound
    BY <2>1, SlotWrites, Zenon
  <2> QED BY <2>2, <2>3, Zenon
<1>2. \A n \in Allocated : node[n].nRefCount + 1 \in Int /\ node[n].nRefCount - 1 \in Int
  BY <1>0 DEF NodeType, Allocated
<1>3. ASSUME NEW S, S \subseteq Allocated, node' = AddRefs(node, S) \/ node' = Releases(node, S)
      PROVE  Held' = Held
  <2>1. ASSUME NEW n \in Heap
        PROVE  /\ node[n] # NULL => node'[n] # NULL /\ node'[n].grantOutbound = node[n].grantOutbound
               /\ node[n] = NULL => node'[n] = NULL
    <3>1. CASE n \notin S
      BY <1>0, <1>3, <3>1 DEF AddRefs, Releases
    <3>2. CASE n \in S
      <4>1. n \in Allocated /\ node[n] # NULL
        BY <1>3, <3>2 DEF Allocated
      <4>2. PICK k \in Int : node'[n] = [node[n] EXCEPT !.nRefCount = k]
        BY <1>2, <1>3, <3>2, <4>1 DEF AddRefs, Releases
      <4> QED
        BY <1>0, <1>1, <4>1, <4>2
    <3> QED
      BY <3>1, <3>2
  <2> QED
    BY <2>1, HeldStays
<1>4. Held' = Held
  BY <1>0, <1>3 DEF SocketCopy, HandlerCopy, SocketRelease, HandlerRelease
<1>5. sock \in SockType
  BY DEF IInv, Typed
<1>6. sock'.slots = sock.slots /\ (sock'.pc = "clear" <=> sock.pc = "clear") /\ raced' = raced
  BY <1>5 DEF SocketCopy, HandlerCopy, SocketRelease, HandlerRelease, history
<1> QED
  BY <1>4, <1>6, SlotsStay DEF SocketCopy, HandlerCopy, SocketRelease, HandlerRelease

LEMMA ServiceSlots ==
  ASSUME ConnectionsAssumption, IInv, Alive, SlotsInv, ServiceNodes
  PROVE  SlotsInv'
<1>1. PICK closed \in SUBSET sock.copy, late \in SUBSET sock.copy :
          node' = [n \in Heap |-> IF n \in late THEN [node[n] EXCEPT !.fDisconnect = TRUE]
                                  ELSE CloseSocketDisconnect(node, closed)[n]]
  BY DEF ServiceNodes
<1>2. /\ node \in [Heap -> NodeType \cup {NULL}] /\ sock.copy \subseteq Allocated
      /\ NULL \notin NodeType /\ \A n \in Heap : n \in Allocated <=> node[n] \in NodeType
  BY NodeFacts DEF IInv, Typed, Alive
<1>3. ASSUME NEW n \in Heap
      PROVE  /\ node[n] # NULL => node'[n] # NULL /\ node'[n].grantOutbound = node[n].grantOutbound
             /\ node[n] = NULL => node'[n] = NULL
  <2>1. node'[n] = IF n \in late THEN [node[n] EXCEPT !.fDisconnect = TRUE]
                   ELSE IF n \in closed THEN [node[n] EXCEPT !.fDisconnect = TRUE, !.hSocket = FALSE] ELSE node[n]
    BY <1>1 DEF CloseSocketDisconnect
  <2>2. CASE n \in late \cup closed
    <3>1. node[n] \in NodeType
      BY <1>2, <2>2
    <3>2. [node[n] EXCEPT !.fDisconnect = TRUE] \in NodeType
          /\ [node[n] EXCEPT !.fDisconnect = TRUE].grantOutbound = node[n].grantOutbound
      BY <3>1, NodeWrites, SlotWrites
    <3>3. [node[n] EXCEPT !.fDisconnect = TRUE, !.hSocket = FALSE] \in NodeType
          /\ [node[n] EXCEPT !.fDisconnect = TRUE, !.hSocket = FALSE].grantOutbound = node[n].grantOutbound
      BY <3>1, CloseFacts, SlotWrites
    <3> QED
      BY <1>2, <2>1, <2>2, <3>1, <3>2, <3>3
  <2>3. CASE n \notin late \cup closed
    BY <2>1, <2>3
  <2> QED
    BY <2>2, <2>3
<1>4. Held' = Held
  BY <1>3, HeldStays
<1>5. sock'.slots = sock.slots /\ sock'.pc # "clear" /\ sock.pc # "clear" /\ raced' = raced
  BY DEF ServiceNodes, history, IInv, Typed
<1> QED
  BY <1>4, <1>5, SlotsStay DEF ServiceNodes

LEMMA SyncSlots ==
  ASSUME ConnectionsAssumption, IInv, Alive, SlotsInv, SelectSync \/ AssignSync
  PROVE  SlotsInv'
<1>1. CASE SelectSync
  BY <1>1, SlotsStay DEF SelectSync, history, Held, Allocated
<1>2. CASE AssignSync
  <2> DEFINE n == handler.new
             s == [node[n] EXCEPT !.fStartSync = TRUE]
  <2>1. n \in Heap /\ node[n] \in NodeType /\ NULL \notin NodeType
    BY <1>2, NodeFacts DEF IInv, Typed, InHand, Alive, AssignSync
  <2>2. s \in NodeType /\ s.grantOutbound = node[n].grantOutbound
    BY <2>1, NodeWrites, SlotWrites
  <2>3. node' = [node EXCEPT ![n] = s]
    BY <1>2, <2>1 DEF AssignSync, IInv, Typed
  <2> HIDE DEF s
  <2>4. \A m \in Heap : node'[m] = (IF m = n THEN s ELSE node[m])
    BY <2>1, <2>3 DEF IInv, Typed
  <2>5. Held' = Held
    BY <2>1, <2>2, <2>4, HeldStays
  <2> QED
    BY <1>2, <2>5, SlotsStay DEF AssignSync, history
<1> QED
  BY <1>1, <1>2

\* Serving a node changes neither its slot nor that it is there.
LEMMA ServedSlot ==
  ASSUME NEW r \in NodeType, NEW outcome \in {"none", "version", "disconnect", "close"}
  PROVE  Served(r, outcome).grantOutbound = r.grantOutbound
<1> DEFINE p == CASE outcome = "none" -> r
                  [] outcome = "version" -> [r EXCEPT !.fSuccessfullyConnected = TRUE]
                  [] outcome = "disconnect" -> [r EXCEPT !.fDisconnect = TRUE]
                  [] outcome = "close" -> [r EXCEPT !.fDisconnect = TRUE, !.hSocket = FALSE]
<1>1. p \in NodeType /\ p.grantOutbound = r.grantOutbound
  <2>1. CASE outcome = "none"
    BY <2>1
  <2>2. CASE outcome = "version"
    <3>1. p = [r EXCEPT !.fSuccessfullyConnected = TRUE]
      BY <2>2
    <3> HIDE DEF p
    <3> QED BY <3>1 DEF NodeType
  <2>3. CASE outcome = "disconnect"
    <3>1. p = [r EXCEPT !.fDisconnect = TRUE]
      BY <2>3
    <3> HIDE DEF p
    <3> QED BY <3>1 DEF NodeType
  <2>4. CASE outcome = "close"
    <3>1. p = [r EXCEPT !.fDisconnect = TRUE, !.hSocket = FALSE]
      BY <2>4
    <3> HIDE DEF p
    <3> QED BY <3>1, CloseFacts, SlotWrites
  <2> QED
    BY <2>1, <2>2, <2>3, <2>4
<1>2. Served(r, outcome) = IF p.fSuccessfullyConnected
                           THEN [p EXCEPT !.fStartSync = FALSE, !.asked = @ \/ p.fStartSync] ELSE p
  BY DEF Served
<1> HIDE DEF p
<1>3. \A x, y \in BOOLEAN : [p EXCEPT !.fStartSync = x, !.asked = y].grantOutbound = p.grantOutbound
  BY <1>1 DEF NodeType
<1>4. FALSE \in BOOLEAN /\ (p.asked \/ p.fStartSync) \in BOOLEAN
  BY <1>1 DEF NodeType
<1>5. [p EXCEPT !.fStartSync = FALSE, !.asked = p.asked \/ p.fStartSync].grantOutbound = p.grantOutbound
  BY <1>3, <1>4, Zenon
<1> QED
  BY <1>1, <1>2, <1>5

LEMMA ProcessSlots ==
  ASSUME ConnectionsAssumption, IInv, Alive, SlotsInv, ProcessNodes
  PROVE  SlotsInv'
<1> DEFINE active == {n \in handler.copy : ~node[n].fDisconnect}
<1>1. PICK outcome \in [active -> {"none", "version", "disconnect", "close"}] :
          node' = [n \in Heap |-> IF n \in active THEN Served(node[n], outcome[n]) ELSE node[n]]
  BY DEF ProcessNodes
<1>2. /\ node \in [Heap -> NodeType \cup {NULL}] /\ active \subseteq Allocated
      /\ NULL \notin NodeType /\ \A n \in Heap : n \in Allocated <=> node[n] \in NodeType
  BY NodeFacts DEF IInv, Typed, Alive
<1> HIDE DEF active
<1>3. ASSUME NEW n \in Heap
      PROVE  /\ node[n] # NULL => node'[n] # NULL /\ node'[n].grantOutbound = node[n].grantOutbound
             /\ node[n] = NULL => node'[n] = NULL
  <2>1. CASE n \in active
    <3>1. node[n] \in NodeType /\ outcome[n] \in {"none", "version", "disconnect", "close"}
      BY <1>1, <1>2, <2>1
    <3>2. Served(node[n], outcome[n]) \in NodeType
          /\ Served(node[n], outcome[n]).grantOutbound = node[n].grantOutbound
      BY <3>1, ServedFacts, ServedSlot
    <3> QED
      BY <1>1, <1>2, <2>1, <3>1, <3>2
  <2>2. CASE n \notin active
    BY <1>1, <2>2
  <2> QED
    BY <2>1, <2>2
<1>4. Held' = Held
  BY <1>3, HeldStays
<1> QED
  BY <1>4, SlotsStay DEF ProcessNodes, history

LEMMA AcceptSlots ==
  ASSUME ConnectionsAssumption, IInv, SlotsInv, AcceptNodes
  PROVE  SlotsInv'
<1>0. sock'.slots = sock.slots /\ sock'.pc # "clear" /\ sock.pc # "clear" /\ raced' = raced
  BY DEF AcceptNodes, history, IInv, Typed
<1>1. CASE UNCHANGED <<node, vNodes>>
  BY <1>0, <1>1, SlotsStay DEF AcceptNodes, Held, Allocated
<1>2. ASSUME NEW n \in Heap \ Allocated, NEW a \in Addrs, node' = [node EXCEPT ![n] = NewNode(a, TRUE)]
      PROVE  SlotsInv'
  <2>1. n \in Heap /\ node[n] = NULL /\ NewNode(a, TRUE).grantOutbound = FALSE
    BY DEF Allocated, NewNode
  <2>2. \A m \in Heap : node'[m] = (IF m = n THEN NewNode(a, TRUE) ELSE node[m])
    BY <1>2, <2>1 DEF IInv, Typed
  <2>3. Held' = Held
    BY <2>1, <2>2, HeldStays
  <2> QED
    BY <1>0, <2>3, SlotsStay DEF AcceptNodes
<1> QED
  BY <1>1, <1>2 DEF AcceptNodes

LEMMA SlotsStep ==
  ASSUME ConnectionsAssumption, IInv, SlotsInv, [Next]_vars
  PROVE  SlotsInv'
<1>1. CASE Next
  <2>1. Alive
    BY <1>1, AliveNow DEF Next
  <2>2. CASE SocketThread
    BY <2>1, <2>2, FindUnusedSlots, PostSlotsSlots, DisconnectSlots, DeleteSlots, AcceptSlots, CopySlots, ServiceSlots DEF SocketThread
  <2>3. CASE MessageThread
    BY <2>1, <2>3, CopySlots, SyncSlots, ProcessSlots DEF MessageThread
  <2>4. ASSUME NEW o \in Threads, Opening(o) PROVE SlotsInv'
    BY <2>1, <2>4, FindSlot, AddRefSlot, ConnectSlot, PushSlot, MoveLooksSlot, MovePostsSlot, MoveClearsSlot,
       MoveSetsSlot, NetworkSlot DEF Opening
  <2>5. ASSUME NEW o \in Threads, NEW a \in Addrs, ChooseAddress(o, a) \/ AddNodeOneTry(o, a) PROVE SlotsInv'
    BY <2>5, ChooseSlot
  <2> QED
    BY <1>1, <2>2, <2>3, <2>4, <2>5 DEF Next
<1>2. CASE UNCHANGED vars
  BY <1>2, SlotsStay DEF vars, Held, Allocated
<1> QED
  BY <1>1, <1>2

LEMMA InitSlots ==
  ASSUME ConnectionsAssumption, Init
  PROVE  SlotsInv
<1>1. Granted = {} /\ Unposted = {} /\ AtGrant = {} /\ Releasing = {}
  BY DEF Init, Granted, Unposted, Held, Allocated, Idle, AtGrant, Releasing
<1>2. Cardinality(Granted) = 0 /\ Cardinality(Unposted) = 0
  BY <1>1, FS_EmptySet
<1>3. semOutbound \in Nat /\ semOutbound = MAX_OUTBOUND_CONNECTIONS
  BY DEF Init, ConnectionsAssumption
<1>4. EverySlotOnce
  <2>1. semOutbound + Cardinality(Granted) + Cardinality(Unposted) = MAX_OUTBOUND_CONNECTIONS
    BY <1>2, <1>3
  <2> QED
    BY <2>1, SlotsCounted
<1>5. Apart /\ raced \in BOOLEAN
  BY <1>1 DEF Apart, Init
<1>6. \A o \in Threads : opener[o].grant => o \in Openers /\ opener[o].pc # "idle"
  BY <1>1 DEF Granted
<1> QED
  BY <1>3, <1>4, <1>5, <1>6 DEF SlotsInv

\* For any number of nodes, threads and slots: a CNode has one reference for each thread
\* that uses it and one of its own until it leaves vNodes; no thread meets a deleted CNode in
\* its copy of vNodes, but one of which a reference was taken without the lock; and every slot
\* for an outbound connection is free, with a thread or with a CNode that has not posted it,
\* unless two threads were at the grant of one CNode before (CNode::AddRef, Release,
\* CSemaphoreGrant::Release and MoveTo, ThreadSocketHandler).
THEOREM ConnectionsCorrect == ASSUME ConnectionsAssumption PROVE Spec => []ConnectionsExact
<1>1. IInv /\ SlotsInv => ConnectionsExact
  <2> SUFFICES ASSUME IInv, SlotsInv PROVE ConnectionsExact
    OBVIOUS
  <2>1. unlocked \subseteq Heap /\ raced \in BOOLEAN
    BY DEF IInv, Typed, SlotsInv
  <2>2. TypeOK
    BY <2>1 DEF IInv, Typed, TypeOK, SlotsInv
  <2> QED
    BY <2>2 DEF IInv, RefsInv, SlotsInv, SlotsExact, ConnectionsExact
<1>2. Init => IInv /\ SlotsInv
  BY InitConnections, InitSlots
<1>3. IInv /\ SlotsInv /\ [Next]_vars => IInv' /\ SlotsInv'
  BY ConnectionsStep, SlotsStep
<1> QED
  BY <1>1, <1>2, <1>3, PTL DEF Spec
=============================================================================
