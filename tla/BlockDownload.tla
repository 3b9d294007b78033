---------------------------- MODULE BlockDownload ----------------------------
(***************************************************************************)
(* Block download bookkeeping (main.cpp): which peer is asked for which    *)
(* block, and how a peer that does not answer is got rid of.               *)
(*                                                                         *)
(* Every block a peer announces and the node lacks is in a list of at most *)
(* one peer: to be downloaded, then in flight.  Two global maps say whose  *)
(* list, the peers count their lists, and all of it must agree, since the  *)
(* code erases from a list through an iterator kept in the map.  A list is *)
(* its set of members; the queue's order is not used.                      *)
(*                                                                         *)
(* A time is modelled by its age, in units of BLOCK_DOWNLOAD_TIMEOUT, and  *)
(* stops at Old, beyond which no comparison can tell ages apart.           *)
(***************************************************************************)
EXTENDS Integers, FiniteSets, FiniteSetsExt

CONSTANTS
    Peers, Blocks, NoPeer,
    Honest,                          \* peers that answer within the time-out and stay
    MAX_BLOCKS_IN_TRANSIT_PER_PEER,
    MaxQueued,                       \* 5000 in AddBlockToQueue
    BanScore,                        \* -banscore, in units of the score for a long queue
    Inactivity                       \* 90 minutes of ThreadSocketHandler

ASSUME PeersAssumption ==
    /\ Honest \subseteq Peers /\ NoPeer \notin Peers
    /\ IsFiniteSet(Blocks)
    /\ {MAX_BLOCKS_IN_TRANSIT_PER_PEER, BanScore} \subseteq Nat \ {0}
    /\ MaxQueued \in Nat /\ Inactivity \in Nat \ {0, 1}

VARIABLES
    have,                \* blocks in mapBlockIndex or mapOrphanBlocks
    nodes,               \* the keys of mapNodeState
    fDisconnect,         \* CNode::fDisconnect
    nMisbehavior, fShouldBan,
    vBlocksToDownload, nBlocksToDownload,
    vBlocksInFlight, nBlocksInFlight,
    mapBlocksToDownload, mapBlocksInFlight,   \* block -> peer
    requestAge,          \* peer -> block -> age of QueuedBlock::nTime
    receiveAge,          \* age of CNodeState::nLastBlockReceive
    processAge           \* age of CNodeState::nLastBlockProcess and of CNode::nLastRecv

mapVars   == <<mapBlocksToDownload, mapBlocksInFlight>>
listVars  == <<vBlocksToDownload, nBlocksToDownload, vBlocksInFlight, nBlocksInFlight>>
scoreVars == <<nMisbehavior, fShouldBan>>
ageVars   == <<requestAge, receiveAge, processAge>>
vars      == <<have, nodes, fDisconnect, scoreVars, listVars, mapVars, ageVars>>

Old == Inactivity + 3
-----------------------------------------------------------------------------
Init ==
    /\ have = {} /\ nodes = {} /\ fDisconnect = [p \in Peers |-> FALSE]
    /\ nMisbehavior = [p \in Peers |-> 0] /\ fShouldBan = [p \in Peers |-> FALSE]
    /\ vBlocksToDownload = [p \in Peers |-> {}] /\ nBlocksToDownload = [p \in Peers |-> 0]
    /\ vBlocksInFlight = [p \in Peers |-> {}] /\ nBlocksInFlight = [p \in Peers |-> 0]
    /\ mapBlocksToDownload = [b \in Blocks |-> NoPeer]
    /\ mapBlocksInFlight = [b \in Blocks |-> NoPeer]
    /\ requestAge = [p \in Peers |-> [b \in Blocks |-> 0]]
    /\ receiveAge = [p \in Peers |-> Old] /\ processAge = [p \in Peers |-> Old]

\* InitializeNode, and the version message that precedes all others.
Connect(p) ==
    /\ p \notin nodes
    /\ nodes' = nodes \cup {p}
    /\ fDisconnect' = [fDisconnect EXCEPT ![p] = FALSE]
    /\ nMisbehavior' = [nMisbehavior EXCEPT ![p] = 0]
    /\ fShouldBan' = [fShouldBan EXCEPT ![p] = FALSE]
    /\ vBlocksToDownload' = [vBlocksToDownload EXCEPT ![p] = {}]
    /\ nBlocksToDownload' = [nBlocksToDownload EXCEPT ![p] = 0]
    /\ vBlocksInFlight' = [vBlocksInFlight EXCEPT ![p] = {}]
    /\ nBlocksInFlight' = [nBlocksInFlight EXCEPT ![p] = 0]
    /\ receiveAge' = [receiveAge EXCEPT ![p] = Old]
    /\ processAge' = [processAge EXCEPT ![p] = 0]
    /\ UNCHANGED <<have, mapVars, requestAge>>

\* Mutant of StillQueued: only what is in flight is forgotten with the peer.
StillQueued_Queue(p, b) == TRUE

\* FinalizeNode: an entry of mapBlocksToDownload survives if it is not in p's list.
StillQueued(p, b) == b \notin vBlocksToDownload[p]

\* The socket handler removes the node from vNodes and its destructor calls
\* FinalizeNode.
RemoveNode(p) ==
    /\ p \in nodes /\ fDisconnect[p]
    /\ nodes' = nodes \ {p}
    /\ mapBlocksInFlight' = [b \in Blocks |->
          IF b \in vBlocksInFlight[p] THEN NoPeer ELSE mapBlocksInFlight[b]]
    /\ mapBlocksToDownload' = [b \in Blocks |->
          IF StillQueued(p, b) THEN mapBlocksToDownload[b] ELSE NoPeer]
    /\ requestAge' = [requestAge EXCEPT ![p] = [b \in Blocks |-> 0]]
    /\ processAge' = [processAge EXCEPT ![p] = Old]
    /\ receiveAge' = [receiveAge EXCEPT ![p] = Old]
    /\ UNCHANGED <<have, fDisconnect, scoreVars, listVars>>
-----------------------------------------------------------------------------
(* Messages.  ProcessMessage starts by noting the time. *)

Processed(p) == processAge' = [processAge EXCEPT ![p] = 0]

\* "inv": not AlreadyHave, and AddBlockToQueue finds the block in neither map.
Queueable(b) == b \notin have /\ mapBlocksToDownload[b] = NoPeer /\ mapBlocksInFlight[b] = NoPeer

\* AddBlockToQueue, with Misbehaving for a queue that is too long; the score
\* stops at BanScore.
AddBlockToQueue(p, b) ==
    /\ vBlocksToDownload' = [vBlocksToDownload EXCEPT ![p] = @ \cup {b}]
    /\ nBlocksToDownload' = [nBlocksToDownload EXCEPT ![p] = @ + 1]
    /\ mapBlocksToDownload' = [mapBlocksToDownload EXCEPT ![b] = p]
    /\ IF nBlocksToDownload[p] + 1 > MaxQueued
       THEN /\ nMisbehavior' = [nMisbehavior EXCEPT ![p] = Min({@ + 1, BanScore})]
            /\ fShouldBan' = [fShouldBan EXCEPT ![p] = @ \/ nMisbehavior[p] + 1 >= BanScore]
       ELSE UNCHANGED scoreVars
    /\ UNCHANGED <<vBlocksInFlight, nBlocksInFlight, mapBlocksInFlight>>

Inv(p, b) ==
    /\ p \in nodes
    /\ p \in Honest => nBlocksToDownload[p] < MaxQueued
    /\ Processed(p)
    /\ IF Queueable(b) THEN AddBlockToQueue(p, b) ELSE UNCHANGED <<scoreVars, listVars, mapVars>>
    /\ UNCHANGED <<have, nodes, fDisconnect, requestAge, receiveAge>>

\* nBlocksInFlight-- and nBlocksToDownload-- of a block's owner.
Uncounted(count, p) == [count EXCEPT ![p] = @ - 1]

\* MarkBlockAsReceived: both lists are left through the owner the map names.
MarkBlockAsReceived(b) ==
    LET q == mapBlocksToDownload[b]
        f == mapBlocksInFlight[b]
    IN /\ IF q # NoPeer
          THEN /\ vBlocksToDownload' = [vBlocksToDownload EXCEPT ![q] = @ \ {b}]
               /\ nBlocksToDownload' = Uncounted(nBlocksToDownload, q)
          ELSE UNCHANGED <<vBlocksToDownload, nBlocksToDownload>>
       /\ IF f # NoPeer
          THEN /\ vBlocksInFlight' = [vBlocksInFlight EXCEPT ![f] = @ \ {b}]
               /\ nBlocksInFlight' = Uncounted(nBlocksInFlight, f)
               /\ requestAge' = [requestAge EXCEPT ![f][b] = 0]
          ELSE UNCHANGED <<vBlocksInFlight, nBlocksInFlight, requestAge>>
       /\ mapBlocksToDownload' = [mapBlocksToDownload EXCEPT ![b] = NoPeer]
       /\ mapBlocksInFlight' = [mapBlocksInFlight EXCEPT ![b] = NoPeer]

\* "block", asked for or not: the request is forgotten first, and the verdict of
\* ProcessBlock is not looked at.  The copy is not kept when CheckBlock or AcceptBlock
\* refuses it, or when it is an orphan that makes room for another one.
BlockMessage(p, b, kept) ==
    /\ p \in nodes
    /\ Processed(p)
    /\ receiveAge' = IF mapBlocksInFlight[b] = p THEN [receiveAge EXCEPT ![p] = 0] ELSE receiveAge
    /\ MarkBlockAsReceived(b)
    /\ have' = IF kept THEN have \cup {b} ELSE have
    /\ UNCHANGED <<nodes, fDisconnect, scoreVars>>

\* Any other message.
OtherMessage(p) ==
    /\ p \in nodes
    /\ Processed(p)
    /\ UNCHANGED <<have, nodes, fDisconnect, scoreVars, listVars, mapVars, requestAge, receiveAge>>

\* The node's own miner or submitblock: ProcessBlock without MarkBlockAsReceived.
LocalBlock(b) ==
    /\ have' = have \cup {b}
    /\ UNCHANGED <<nodes, fDisconnect, scoreVars, listVars, mapVars, ageVars>>
-----------------------------------------------------------------------------
(* SendMessages *)

\* vBlocksInFlight.front(), the oldest request.
FrontAge(p) == Max({requestAge[p][b] : b \in vBlocksInFlight[p]} \cup {0})

\* Mutant of Stalling: the last block received is not looked at, nor the request's age.
Stalling_AnyWait(p) == nBlocksInFlight[p] > 0 /\ FrontAge(p) - processAge[p] > 0

\* Mutant of Stalling: the age of the request is compared the wrong way round.
Stalling_Never(p) == nBlocksInFlight[p] > 0 /\ receiveAge[p] - processAge[p] > 1
                     /\ processAge[p] - FrontAge(p) > 2

\* "Detect stalled peers."
Stalling(p) == /\ nBlocksInFlight[p] # 0
               /\ receiveAge[p] - processAge[p] > 1
               /\ FrontAge(p) - processAge[p] > 2

\* How many blocks SendMessages may ask p for.
Room(p) == MAX_BLOCKS_IN_TRANSIT_PER_PEER - nBlocksInFlight[p]

\* Blocks for one getdata message.
ToRequest(p) ==
    {M \in SUBSET vBlocksToDownload[p] :
        Cardinality(M) = IF Room(p) < nBlocksToDownload[p] THEN Room(p) ELSE nBlocksToDownload[p]}

\* MarkBlockAsInFlight for all of M, each leaving p's queue in MarkBlockAsReceived.
MarkBlocksAsInFlight(p, M) ==
    /\ vBlocksToDownload' = [vBlocksToDownload EXCEPT ![p] = @ \ M]
    /\ nBlocksToDownload' = [nBlocksToDownload EXCEPT ![p] = @ - Cardinality(M)]
    /\ vBlocksInFlight' = [vBlocksInFlight EXCEPT ![p] = @ \cup M]
    /\ nBlocksInFlight' = [nBlocksInFlight EXCEPT ![p] = @ + Cardinality(M)]
    /\ mapBlocksToDownload' = [b \in Blocks |-> IF b \in M THEN NoPeer ELSE mapBlocksToDownload[b]]
    /\ mapBlocksInFlight' = [b \in Blocks |-> IF b \in M THEN p ELSE mapBlocksInFlight[b]]
    /\ receiveAge' = IF nBlocksInFlight[p] = 0 /\ M # {} THEN [receiveAge EXCEPT ![p] = 0] ELSE receiveAge

SendMessages(p) ==
    /\ p \in nodes /\ ~fDisconnect[p]
    /\ fShouldBan' = [fShouldBan EXCEPT ![p] = FALSE]
    /\ IF fShouldBan[p] \/ Stalling(p)
       THEN /\ fDisconnect' = [fDisconnect EXCEPT ![p] = TRUE]
            /\ UNCHANGED <<listVars, mapVars, receiveAge>>
       ELSE /\ \E M \in ToRequest(p) : MarkBlocksAsInFlight(p, M)
            /\ UNCHANGED fDisconnect
    /\ UNCHANGED <<have, nodes, nMisbehavior, requestAge, processAge>>
-----------------------------------------------------------------------------
(* The socket handler and the clock *)

\* The peer closes the connection, or the socket fails.
CloseSocket(p) ==
    /\ p \in nodes \ Honest
    /\ fDisconnect' = [fDisconnect EXCEPT ![p] = TRUE]
    /\ UNCHANGED <<have, nodes, scoreVars, listVars, mapVars, ageVars>>

\* "socket inactivity timeout".
InactivityTimeout(p) ==
    /\ p \in nodes /\ ~fDisconnect[p] /\ processAge[p] >= Inactivity
    /\ fDisconnect' = [fDisconnect EXCEPT ![p] = TRUE]
    /\ UNCHANGED <<have, nodes, scoreVars, listVars, mapVars, ageVars>>

\* The socket handler, which runs many times in every unit, has seen to the
\* silent peers, and the honest ones have sent something and answered.
Punctual ==
    \A p \in nodes :
        /\ fDisconnect[p] \/ processAge[p] < Inactivity
        /\ p \in Honest => /\ processAge[p] + 1 < Inactivity
                           /\ \A b \in vBlocksInFlight[p] : requestAge[p][b] < 1

Aged(a) == IF a < Old THEN a + 1 ELSE Old

Tick ==
    /\ Punctual
    /\ requestAge' = [p \in Peers |-> [b \in Blocks |->
          IF p \in nodes /\ b \in vBlocksInFlight[p] THEN Aged(requestAge[p][b]) ELSE 0]]
    /\ receiveAge' = [p \in Peers |-> Aged(receiveAge[p])]
    /\ processAge' = [p \in Peers |-> Aged(processAge[p])]
    /\ UNCHANGED <<have, nodes, fDisconnect, scoreVars, listVars, mapVars>>
-----------------------------------------------------------------------------
Next ==
    \/ \E p \in Peers : \/ Connect(p) \/ RemoveNode(p) \/ OtherMessage(p) \/ SendMessages(p)
                        \/ CloseSocket(p) \/ InactivityTimeout(p)
                        \/ \E b \in Blocks : Inv(p, b) \/ \E kept \in BOOLEAN : BlockMessage(p, b, kept)
    \/ \E b \in Blocks : LocalBlock(b)
    \/ Tick

Spec == Init /\ [][Next]_vars

\* The threads of the node keep running and time passes; honest peers keep talking and
\* answer requests.  Nobody has to announce anything, once or again.
Fairness ==
    /\ WF_vars(Tick)
    /\ \A p \in Peers : /\ WF_vars(RemoveNode(p)) /\ WF_vars(SendMessages(p))
                        /\ WF_vars(InactivityTimeout(p))
    /\ \A p \in Honest :
          /\ WF_vars(OtherMessage(p))
          /\ \A b \in Blocks : WF_vars(/\ mapBlocksInFlight[b] = p
                                       /\ \E kept \in BOOLEAN : BlockMessage(p, b, kept))

FairSpec == Spec /\ Fairness
-----------------------------------------------------------------------------
(* Properties *)

TypeOK ==
    /\ have \subseteq Blocks /\ nodes \subseteq Peers
    /\ fDisconnect \in [Peers -> BOOLEAN] /\ fShouldBan \in [Peers -> BOOLEAN]
    /\ nMisbehavior \in [Peers -> 0..BanScore]
    /\ vBlocksToDownload \in [Peers -> SUBSET Blocks] /\ nBlocksToDownload \in [Peers -> Nat]
    /\ vBlocksInFlight \in [Peers -> SUBSET Blocks] /\ nBlocksInFlight \in [Peers -> Nat]
    /\ mapBlocksToDownload \in [Blocks -> Peers \cup {NoPeer}]
    /\ mapBlocksInFlight \in [Blocks -> Peers \cup {NoPeer}]
    /\ requestAge \in [Peers -> [Blocks -> 0..Old]]
    /\ receiveAge \in [Peers -> 0..Old] /\ processAge \in [Peers -> 0..Old]

\* The maps name the one connected peer whose list holds the block, so that
\* State() finds the owner and the iterator is valid in MarkBlockAsReceived.
OwnersAgree ==
    \A b \in Blocks : \A p \in Peers :
        /\ mapBlocksToDownload[b] = p <=> p \in nodes /\ b \in vBlocksToDownload[p]
        /\ mapBlocksInFlight[b] = p <=> p \in nodes /\ b \in vBlocksInFlight[p]

\* A block is never wanted twice: not queued while it is in flight.
WantedOnce == \A b \in Blocks : mapBlocksToDownload[b] = NoPeer \/ mapBlocksInFlight[b] = NoPeer

\* The counters SendMessages relies on are the lengths of the lists, and no peer
\* has more requests than the limit.
CountersExact ==
    \A p \in nodes : /\ nBlocksToDownload[p] = Cardinality(vBlocksToDownload[p])
                     /\ nBlocksInFlight[p] = Cardinality(vBlocksInFlight[p])
                     /\ nBlocksInFlight[p] <= MAX_BLOCKS_IN_TRANSIT_PER_PEER

\* Together: every block is accounted to at most one peer and one list.
Bookkeeping == TypeOK /\ OwnersAgree /\ WantedOnce /\ CountersExact

\* A peer that answers every request in time and keeps talking is never
\* disconnected, whatever other peers send or withhold.
PromptPeersStay == \A p \in Honest : ~fDisconnect[p]

\* p is the peer a block waits for, queued or in flight; other peers' announcements of
\* it are ignored (AddBlockToQueue).
Holds(p, b) == mapBlocksToDownload[b] = p \/ mapBlocksInFlight[b] = p

\* No block waits for ever for one peer, unless that peer goes on answering other
\* requests for ever: the stall detection of SendMessages, the inactivity time-out and
\* FinalizeNode together release what a silent, stalling or vanished peer holds, so that
\* an announcement by another peer counts again.
DownloadGoesOn ==
    \A p \in Peers : \A b \in Blocks : <>[]Holds(p, b) => []<>(receiveAge[p] = 0)
=============================================================================
