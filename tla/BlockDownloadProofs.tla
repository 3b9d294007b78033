------------------------- MODULE BlockDownloadProofs -------------------------
(***************************************************************************)
(* Proofs about BlockDownload, for every set of peers and blocks and every *)
(* limit.                                                                  *)
(*                                                                         *)
(* Bookkeeping is inductive as it stands: the counters are natural numbers *)
(* because the lists they count are never left by a block that is not in   *)
(* them, which is so because the two maps name the owner of the list, and  *)
(* an owner is connected.                                                  *)
(***************************************************************************)
EXTENDS BlockDownload, FiniteSetTheorems, TLAPS

\* A list is finite, and its length a number.
LEMMA ListCount ==
  ASSUME NEW S \in SUBSET Blocks
  PROVE  IsFiniteSet(S) /\ Cardinality(S) \in Nat
  BY PeersAssumption, FS_Subset, FS_CardinalityType DEF PeersAssumption

\* A block is appended to a list it is not in.
LEMMA ListAppend ==
  ASSUME NEW S \in SUBSET Blocks, NEW b \in Blocks, b \notin S
  PROVE  Cardinality(S \cup {b}) = Cardinality(S) + 1
  BY ListCount, FS_AddElement

\* A block is erased from the list it is in.
LEMMA ListErase ==
  ASSUME NEW S \in SUBSET Blocks, NEW b \in S
  PROVE  Cardinality(S \ {b}) = Cardinality(S) - 1 /\ Cardinality(S) >= 1
<1>1. Cardinality(S \ {b}) = Cardinality(S) - 1
  BY ListCount, FS_RemoveElement
<1>2. Cardinality(S \ {b}) \in Nat /\ Cardinality(S) \in Nat
  BY ListCount
<1> QED BY <1>1, <1>2

\* Blocks move from one list to another.
LEMMA ListMove ==
  ASSUME NEW S \in SUBSET Blocks, NEW T \in SUBSET Blocks, NEW M \in SUBSET S, S \cap T = {}
  PROVE  /\ Cardinality(S \ M) = Cardinality(S) - Cardinality(M)
         /\ Cardinality(T \cup M) = Cardinality(T) + Cardinality(M)
         /\ Cardinality(M) <= Cardinality(S)
<1>1. /\ IsFiniteSet(S) /\ IsFiniteSet(T) /\ IsFiniteSet(M)
      /\ Cardinality(S) \in Nat /\ Cardinality(T) \in Nat /\ Cardinality(M) \in Nat
  BY ListCount
<1>2. S \cap M = M /\ T \cap M = {}
  OBVIOUS
<1>3. Cardinality(S \ M) = Cardinality(S) - Cardinality(M)
  BY <1>1, <1>2, FS_Difference
<1>4. Cardinality(T \cup M) = Cardinality(T) + Cardinality(M) - Cardinality(T \cap M)
  BY <1>1, FS_Union
<1>5. Cardinality(T \cap M) = 0
  BY <1>2, FS_EmptySet
<1>6. Cardinality(M) <= Cardinality(S)
  BY <1>1, FS_Subset
<1> QED BY <1>1, <1>3, <1>4, <1>5, <1>6

\* Scores stay within the limit that bans.
LEMMA ScoreBounded ==
  ASSUME NEW n \in 0..BanScore
  PROVE  Min({n + 1, BanScore}) \in 0..BanScore
<1>1. BanScore \in Nat \ {0} /\ n \in Nat
  BY PeersAssumption
<1>2. \E x \in {n + 1, BanScore} : \A y \in {n + 1, BanScore} : x <= y
  <2>1. CASE n + 1 <= BanScore
    BY <1>1, <2>1
  <2>2. CASE ~(n + 1 <= BanScore)
    BY <1>1, <2>2
  <2> QED BY <2>1, <2>2
<1>3. /\ Min({n + 1, BanScore}) \in {n + 1, BanScore}
      /\ \A y \in {n + 1, BanScore} : Min({n + 1, BanScore}) <= y
  BY <1>2 DEF Min
<1> QED BY <1>1, <1>3

\* Ages stop at Old.
LEMMA AgeBounded == Old \in Nat /\ \A a \in 0..Old : Aged(a) \in 0..Old
  BY PeersAssumption DEF Old, Aged

\* The initial state has its books in order.
LEMMA InitBookkeeping == ASSUME Init PROVE Bookkeeping
  BY PeersAssumption, AgeBounded DEF Init, Bookkeeping, TypeOK, OwnersAgree, WantedOnce, CountersExact

\* Steps that change no list and no map.
LEMMA QuietStep ==
  ASSUME Bookkeeping,
         \/ \E p \in Peers : OtherMessage(p) \/ CloseSocket(p) \/ InactivityTimeout(p)
         \/ \E b \in Blocks : LocalBlock(b)
         \/ Tick
         \/ UNCHANGED vars
  PROVE  Bookkeeping'
<1>0. TypeOK /\ OwnersAgree /\ WantedOnce /\ CountersExact
  BY DEF Bookkeeping
<1>1. UNCHANGED <<nodes, scoreVars, listVars, mapVars>>
  BY DEF OtherMessage, CloseSocket, InactivityTimeout, LocalBlock, Tick, vars
<1>2. have' \subseteq Blocks
  BY <1>0 DEF OtherMessage, CloseSocket, InactivityTimeout, LocalBlock, Tick, vars, TypeOK
<1>3. fDisconnect' \in [Peers -> BOOLEAN]
  BY <1>0 DEF OtherMessage, CloseSocket, InactivityTimeout, LocalBlock, Tick, vars, TypeOK
<1>4. /\ requestAge' \in [Peers -> [Blocks -> 0..Old]]
      /\ receiveAge' \in [Peers -> 0..Old] /\ processAge' \in [Peers -> 0..Old]
  <2>1. CASE Tick
    BY <1>0, <2>1, AgeBounded DEF Tick, TypeOK
  <2>2. CASE \E p \in Peers : OtherMessage(p)
    BY <1>0, <2>2, AgeBounded DEF OtherMessage, Processed, TypeOK
  <2>3. CASE (\E p \in Peers : CloseSocket(p) \/ InactivityTimeout(p)) \/ (\E b \in Blocks : LocalBlock(b))
             \/ UNCHANGED vars
    BY <1>0, <2>3 DEF CloseSocket, InactivityTimeout, LocalBlock, vars, ageVars, TypeOK
  <2> QED BY <2>1, <2>2, <2>3
<1>5. TypeOK'
  BY <1>0, <1>1, <1>2, <1>3, <1>4 DEF TypeOK, scoreVars, listVars, mapVars
<1>6. OwnersAgree' /\ WantedOnce' /\ CountersExact'
  BY <1>0, <1>1 DEF OwnersAgree, WantedOnce, CountersExact, listVars, mapVars
<1> QED BY <1>5, <1>6 DEF Bookkeeping

\* InitializeNode: the peer's lists are empty.
LEMMA ConnectStep == ASSUME Bookkeeping, NEW p \in Peers, Connect(p) PROVE Bookkeeping'
<1>0. TypeOK /\ OwnersAgree /\ WantedOnce /\ CountersExact
  BY DEF Bookkeeping
<1>1. /\ p \notin nodes /\ nodes' = nodes \cup {p} /\ UNCHANGED <<have, mapVars, requestAge>>
      /\ vBlocksToDownload' = [vBlocksToDownload EXCEPT ![p] = {}]
      /\ nBlocksToDownload' = [nBlocksToDownload EXCEPT ![p] = 0]
      /\ vBlocksInFlight' = [vBlocksInFlight EXCEPT ![p] = {}]
      /\ nBlocksInFlight' = [nBlocksInFlight EXCEPT ![p] = 0]
  BY DEF Connect
<1>2. TypeOK'
  <2>1. /\ nMisbehavior' \in [Peers -> 0..BanScore] /\ receiveAge' \in [Peers -> 0..Old]
        /\ processAge' \in [Peers -> 0..Old]
    BY <1>0, AgeBounded, PeersAssumption DEF Connect, TypeOK
  <2> QED BY <1>0, <1>1, <2>1 DEF Connect, TypeOK, mapVars
<1>3. OwnersAgree'
  BY <1>0, <1>1 DEF OwnersAgree, TypeOK, mapVars
<1>4. WantedOnce'
  BY <1>0, <1>1 DEF WantedOnce, mapVars
<1>5. CountersExact'
  BY <1>0, <1>1, FS_EmptySet, PeersAssumption DEF CountersExact, TypeOK
<1> QED BY <1>2, <1>3, <1>4, <1>5 DEF Bookkeeping

\* FinalizeNode: what the peer owned has no owner, and nothing else changes hands.
LEMMA RemoveStep == ASSUME Bookkeeping, NEW p \in Peers, RemoveNode(p) PROVE Bookkeeping'
<1>0. TypeOK /\ OwnersAgree /\ WantedOnce /\ CountersExact
  BY DEF Bookkeeping
<1>1. /\ p \in nodes /\ nodes' = nodes \ {p} /\ UNCHANGED <<have, fDisconnect, scoreVars, listVars>>
      /\ mapBlocksInFlight' = [b \in Blocks |->
            IF b \in vBlocksInFlight[p] THEN NoPeer ELSE mapBlocksInFlight[b]]
      /\ mapBlocksToDownload' = [b \in Blocks |->
            IF b \notin vBlocksToDownload[p] THEN mapBlocksToDownload[b] ELSE NoPeer]
  BY DEF RemoveNode, StillQueued
<1>2. TypeOK'
  <2>1. /\ requestAge' \in [Peers -> [Blocks -> 0..Old]] /\ receiveAge' \in [Peers -> 0..Old]
        /\ processAge' \in [Peers -> 0..Old]
    BY <1>0, AgeBounded DEF RemoveNode, TypeOK
  <2> QED BY <1>0, <1>1, <2>1 DEF TypeOK, scoreVars, listVars
<1>3. OwnersAgree'
  BY <1>0, <1>1, PeersAssumption DEF OwnersAgree, TypeOK, listVars
<1>4. WantedOnce'
  BY <1>0, <1>1 DEF WantedOnce
<1>5. CountersExact'
  BY <1>0, <1>1 DEF CountersExact, listVars
<1> QED BY <1>2, <1>3, <1>4, <1>5 DEF Bookkeeping

\* "inv": a block that no peer owns is queued at the peer that announces it.
LEMMA InvStep == ASSUME Bookkeeping, NEW p \in Peers, NEW b \in Blocks, Inv(p, b) PROVE Bookkeeping'
<1>0. TypeOK /\ OwnersAgree /\ WantedOnce /\ CountersExact
  BY DEF Bookkeeping
<1>1. p \in nodes /\ UNCHANGED <<have, nodes, fDisconnect, requestAge, receiveAge>>
  BY DEF Inv
<1>2. processAge' \in [Peers -> 0..Old]
  BY <1>0, AgeBounded DEF Inv, Processed, TypeOK
<1>3. CASE ~Queueable(b)
  <2>1. UNCHANGED <<scoreVars, listVars, mapVars>>
    BY <1>3 DEF Inv
  <2>2. TypeOK'
    BY <1>0, <1>1, <1>2, <2>1 DEF TypeOK, scoreVars, listVars, mapVars
  <2>3. OwnersAgree' /\ WantedOnce' /\ CountersExact'
    BY <1>0, <1>1, <2>1 DEF OwnersAgree, WantedOnce, CountersExact, listVars, mapVars
  <2> QED BY <2>2, <2>3 DEF Bookkeeping
<1>4. CASE Queueable(b)
  <2>1. /\ vBlocksToDownload' = [vBlocksToDownload EXCEPT ![p] = @ \cup {b}]
        /\ nBlocksToDownload' = [nBlocksToDownload EXCEPT ![p] = @ + 1]
        /\ mapBlocksToDownload' = [mapBlocksToDownload EXCEPT ![b] = p]
        /\ UNCHANGED <<vBlocksInFlight, nBlocksInFlight, mapBlocksInFlight>>
    BY <1>4 DEF Inv, AddBlockToQueue
  <2>2. mapBlocksToDownload[b] = NoPeer /\ mapBlocksInFlight[b] = NoPeer /\ b \notin vBlocksToDownload[p]
    BY <1>0, <1>1, <1>4, PeersAssumption DEF Queueable, OwnersAgree
  <2>3. nMisbehavior' \in [Peers -> 0..BanScore] /\ fShouldBan' \in [Peers -> BOOLEAN]
    <3>1. Min({nMisbehavior[p] + 1, BanScore}) \in 0..BanScore
      BY <1>0, ScoreBounded DEF TypeOK
    <3>2. CASE nBlocksToDownload[p] + 1 > MaxQueued
      <4>1. /\ nMisbehavior' = [nMisbehavior EXCEPT ![p] = Min({nMisbehavior[p] + 1, BanScore})]
            /\ fShouldBan' = [fShouldBan EXCEPT ![p] = @ \/ nMisbehavior[p] + 1 >= BanScore]
        BY <1>0, <1>4, <3>2 DEF Inv, AddBlockToQueue, TypeOK
      <4> QED BY <1>0, <3>1, <4>1 DEF TypeOK
    <3>3. CASE ~(nBlocksToDownload[p] + 1 > MaxQueued)
      <4>1. UNCHANGED scoreVars
        BY <1>4, <3>3 DEF Inv, AddBlockToQueue
      <4> QED BY <1>0, <4>1 DEF TypeOK, scoreVars
    <3> QED BY <3>2, <3>3
  <2>4. TypeOK'
    <3>1. /\ vBlocksToDownload' \in [Peers -> SUBSET Blocks] /\ nBlocksToDownload' \in [Peers -> Nat]
          /\ mapBlocksToDownload' \in [Blocks -> Peers \cup {NoPeer}]
      BY <1>0, <2>1 DEF TypeOK
    <3>2. /\ vBlocksInFlight' \in [Peers -> SUBSET Blocks] /\ nBlocksInFlight' \in [Peers -> Nat]
          /\ mapBlocksInFlight' \in [Blocks -> Peers \cup {NoPeer}]
      BY <1>0, <2>1 DEF TypeOK
    <3> QED BY <1>0, <1>1, <1>2, <2>3, <3>1, <3>2 DEF TypeOK
  <2>5. OwnersAgree'
    BY <1>0, <1>1, <2>1, <2>2, PeersAssumption DEF OwnersAgree, TypeOK
  <2>6. WantedOnce'
    BY <1>0, <2>1, <2>2 DEF WantedOnce, TypeOK
  <2>7. CountersExact'
    <3>1. Cardinality(vBlocksToDownload[p] \cup {b}) = Cardinality(vBlocksToDownload[p]) + 1
      BY <1>0, <2>2, ListAppend DEF TypeOK
    <3> QED BY <1>0, <1>1, <2>1, <3>1 DEF CountersExact, TypeOK
  <2> QED BY <2>4, <2>5, <2>6, <2>7 DEF Bookkeeping
<1> QED BY <1>3, <1>4

\* MarkBlockAsReceived: a block leaves the list it is in, whoever sent it.
LEMMA ReceiveStep ==
  ASSUME Bookkeeping, NEW p \in Peers, NEW b \in Blocks, NEW kept \in BOOLEAN,
         BlockMessage(p, b, kept)
  PROVE  Bookkeeping'
<1>0. TypeOK /\ OwnersAgree /\ WantedOnce /\ CountersExact
  BY DEF Bookkeeping
<1> DEFINE q == mapBlocksToDownload[b]
           f == mapBlocksInFlight[b]
<1>1. UNCHANGED <<nodes, fDisconnect, scoreVars>> /\ have' \subseteq Blocks
  BY <1>0 DEF BlockMessage, TypeOK
<1>2. /\ mapBlocksToDownload' = [mapBlocksToDownload EXCEPT ![b] = NoPeer]
      /\ mapBlocksInFlight' = [mapBlocksInFlight EXCEPT ![b] = NoPeer]
  BY DEF BlockMessage, MarkBlockAsReceived
<1>3. processAge' \in [Peers -> 0..Old] /\ receiveAge' \in [Peers -> 0..Old]
  BY <1>0, AgeBounded DEF BlockMessage, Processed, TypeOK
<1>5. q # NoPeer => q \in nodes /\ q \in Peers /\ b \in vBlocksToDownload[q]
  BY <1>0 DEF OwnersAgree, TypeOK
<1>6. f # NoPeer => f \in nodes /\ f \in Peers /\ b \in vBlocksInFlight[f]
  BY <1>0 DEF OwnersAgree, TypeOK
<1>4. requestAge' \in [Peers -> [Blocks -> 0..Old]]
  <2>1. CASE f = NoPeer
    BY <1>0, <2>1 DEF BlockMessage, MarkBlockAsReceived, TypeOK
  <2>2. CASE f # NoPeer
    <3>1. requestAge' = [requestAge EXCEPT ![f] = [requestAge[f] EXCEPT ![b] = 0]]
      BY <1>0, <1>6, <2>2 DEF BlockMessage, MarkBlockAsReceived, TypeOK
    <3>2. [requestAge[f] EXCEPT ![b] = 0] \in [Blocks -> 0..Old]
      BY <1>0, <1>6, <2>2, AgeBounded DEF TypeOK
    <3> QED BY <1>0, <1>6, <2>2, <3>1, <3>2 DEF TypeOK
  <2> QED BY <2>1, <2>2
<1>7. /\ vBlocksToDownload' \in [Peers -> SUBSET Blocks] /\ nBlocksToDownload' \in [Peers -> Nat]
      /\ \A r \in Peers : /\ vBlocksToDownload'[r] = IF r = q THEN vBlocksToDownload[r] \ {b}
                                                             ELSE vBlocksToDownload[r]
                          /\ r \in nodes => nBlocksToDownload'[r] = Cardinality(vBlocksToDownload'[r])
  <2>1. CASE q = NoPeer
    BY <1>0, <2>1, PeersAssumption DEF BlockMessage, MarkBlockAsReceived, TypeOK, CountersExact
  <2>2. CASE q # NoPeer
    <3>1. /\ vBlocksToDownload' = [vBlocksToDownload EXCEPT ![q] = @ \ {b}]
          /\ nBlocksToDownload' = [nBlocksToDownload EXCEPT ![q] = @ - 1]
      BY <2>2 DEF BlockMessage, MarkBlockAsReceived, Uncounted
    <3>2. /\ Cardinality(vBlocksToDownload[q] \ {b}) = Cardinality(vBlocksToDownload[q]) - 1
          /\ Cardinality(vBlocksToDownload[q]) >= 1
          /\ Cardinality(vBlocksToDownload[q]) = nBlocksToDownload[q]
      BY <1>0, <1>5, <2>2, ListErase DEF TypeOK, CountersExact
    <3>3. vBlocksToDownload[q] \ {b} \in SUBSET Blocks /\ nBlocksToDownload[q] - 1 \in Nat
      BY <1>0, <1>5, <2>2, <3>2 DEF TypeOK
    <3>4. vBlocksToDownload' \in [Peers -> SUBSET Blocks] /\ nBlocksToDownload' \in [Peers -> Nat]
      BY <1>0, <1>5, <2>2, <3>1, <3>3 DEF TypeOK
    <3>5. /\ vBlocksToDownload'[q] = vBlocksToDownload[q] \ {b} /\ nBlocksToDownload'[q] = nBlocksToDownload[q] - 1
          /\ \A r \in Peers : r # q => vBlocksToDownload'[r] = vBlocksToDownload[r] /\ nBlocksToDownload'[r] = nBlocksToDownload[r]
      BY <1>0, <1>5, <2>2, <3>1 DEF TypeOK
    <3>6. \A r \in nodes : nBlocksToDownload'[r] = Cardinality(vBlocksToDownload'[r])
      BY <1>0, <1>5, <2>2, <3>2, <3>5 DEF TypeOK, CountersExact
    <3> QED BY <3>4, <3>5, <3>6
  <2> QED BY <2>1, <2>2
<1>8. /\ vBlocksInFlight' \in [Peers -> SUBSET Blocks] /\ nBlocksInFlight' \in [Peers -> Nat]
      /\ \A r \in Peers : /\ vBlocksInFlight'[r] = IF r = f THEN vBlocksInFlight[r] \ {b}
                                                           ELSE vBlocksInFlight[r]
                          /\ r \in nodes => /\ nBlocksInFlight'[r] = Cardinality(vBlocksInFlight'[r])
                                            /\ nBlocksInFlight'[r] <= nBlocksInFlight[r]
  <2>1. CASE f = NoPeer
    BY <1>0, <2>1, PeersAssumption DEF BlockMessage, MarkBlockAsReceived, TypeOK, CountersExact
  <2>2. CASE f # NoPeer
    <3>1. /\ vBlocksInFlight' = [vBlocksInFlight EXCEPT ![f] = @ \ {b}]
          /\ nBlocksInFlight' = [nBlocksInFlight EXCEPT ![f] = @ - 1]
      BY <2>2 DEF BlockMessage, MarkBlockAsReceived, Uncounted
    <3>2. /\ Cardinality(vBlocksInFlight[f] \ {b}) = Cardinality(vBlocksInFlight[f]) - 1
          /\ Cardinality(vBlocksInFlight[f]) >= 1
          /\ Cardinality(vBlocksInFlight[f]) = nBlocksInFlight[f]
      BY <1>0, <1>6, <2>2, ListErase DEF TypeOK, CountersExact
    <3>3. vBlocksInFlight[f] \ {b} \in SUBSET Blocks /\ nBlocksInFlight[f] - 1 \in Nat
      BY <1>0, <1>6, <2>2, <3>2 DEF TypeOK
    <3>4. vBlocksInFlight' \in [Peers -> SUBSET Blocks] /\ nBlocksInFlight' \in [Peers -> Nat]
      BY <1>0, <1>6, <2>2, <3>1, <3>3 DEF TypeOK
    <3>5. /\ vBlocksInFlight'[f] = vBlocksInFlight[f] \ {b} /\ nBlocksInFlight'[f] = nBlocksInFlight[f] - 1
          /\ \A r \in Peers : r # f => vBlocksInFlight'[r] = vBlocksInFlight[r] /\ nBlocksInFlight'[r] = nBlocksInFlight[r]
      BY <1>0, <1>6, <2>2, <3>1 DEF TypeOK
    <3>6. ASSUME NEW r \in nodes
          PROVE  /\ nBlocksInFlight'[r] = Cardinality(vBlocksInFlight'[r])
                 /\ nBlocksInFlight'[r] <= nBlocksInFlight[r]
      <4>1. r \in Peers /\ nBlocksInFlight[r] \in Nat /\ nBlocksInFlight[r] = Cardinality(vBlocksInFlight[r])
        BY <1>0 DEF TypeOK, CountersExact
      <4>2. CASE r = f
        <5>1. /\ nBlocksInFlight'[f] = Cardinality(vBlocksInFlight'[f])
              /\ nBlocksInFlight'[f] <= nBlocksInFlight[f]
          <6>1. nBlocksInFlight[f] \in Nat
            BY <4>1, <4>2
          <6> HIDE DEF f
          <6> QED BY <3>2, <3>5, <6>1
        <5>2. vBlocksInFlight'[r] = vBlocksInFlight'[f] /\ nBlocksInFlight'[r] = nBlocksInFlight'[f]
          BY <4>2
        <5> QED BY <4>2, <5>1, <5>2
      <4>3. CASE r # f
        BY <3>5, <4>1, <4>3
      <4> QED BY <4>2, <4>3
    <3> QED BY <3>4, <3>5, <3>6
  <2> QED BY <2>1, <2>2
<1>9. TypeOK'
  BY <1>0, <1>1, <1>2, <1>3, <1>4, <1>7, <1>8 DEF TypeOK, scoreVars
<1>10. OwnersAgree'
  <2> SUFFICES ASSUME NEW c \in Blocks, NEW r \in Peers
               PROVE  /\ mapBlocksToDownload'[c] = r <=> r \in nodes /\ c \in vBlocksToDownload'[r]
                      /\ mapBlocksInFlight'[c] = r <=> r \in nodes /\ c \in vBlocksInFlight'[r]
    BY <1>1 DEF OwnersAgree
  <2>1. r # NoPeer
    BY PeersAssumption
  <2>2. /\ mapBlocksToDownload'[c] = IF c = b THEN NoPeer ELSE mapBlocksToDownload[c]
        /\ mapBlocksInFlight'[c] = IF c = b THEN NoPeer ELSE mapBlocksInFlight[c]
    BY <1>0, <1>2 DEF TypeOK
  <2>3. /\ mapBlocksToDownload[c] = r <=> r \in nodes /\ c \in vBlocksToDownload[r]
        /\ mapBlocksInFlight[c] = r <=> r \in nodes /\ c \in vBlocksInFlight[r]
        /\ q = r <=> r \in nodes /\ b \in vBlocksToDownload[r]
        /\ f = r <=> r \in nodes /\ b \in vBlocksInFlight[r]
    BY <1>0 DEF OwnersAgree
  <2>4. /\ vBlocksToDownload'[r] = IF r = q THEN vBlocksToDownload[r] \ {b} ELSE vBlocksToDownload[r]
        /\ vBlocksInFlight'[r] = IF r = f THEN vBlocksInFlight[r] \ {b} ELSE vBlocksInFlight[r]
    BY <1>7, <1>8
  <2> QED BY <2>1, <2>2, <2>3, <2>4
<1>11. WantedOnce'
  BY <1>0, <1>2 DEF WantedOnce, TypeOK
<1>12. CountersExact'
  BY <1>0, <1>1, <1>7, <1>8, PeersAssumption DEF CountersExact, TypeOK
<1> QED BY <1>9, <1>10, <1>11, <1>12 DEF Bookkeeping

\* SendMessages: the peer is given up, or blocks move from its queue into flight, no more
\* of them than the limit leaves room for.
LEMMA SendStep == ASSUME Bookkeeping, NEW p \in Peers, SendMessages(p) PROVE Bookkeeping'
<1>0. TypeOK /\ OwnersAgree /\ WantedOnce /\ CountersExact
  BY DEF Bookkeeping
<1>1. /\ p \in nodes /\ UNCHANGED <<have, nodes, nMisbehavior, requestAge, processAge>>
      /\ fShouldBan' = [fShouldBan EXCEPT ![p] = FALSE]
  BY DEF SendMessages
<1>2. CASE fShouldBan[p] \/ Stalling(p)
  <2>1. UNCHANGED <<listVars, mapVars, receiveAge>> /\ fDisconnect' = [fDisconnect EXCEPT ![p] = TRUE]
    BY <1>2 DEF SendMessages
  <2>2. TypeOK'
    BY <1>0, <1>1, <2>1 DEF TypeOK, listVars, mapVars
  <2>3. OwnersAgree' /\ WantedOnce' /\ CountersExact'
    BY <1>0, <1>1, <2>1 DEF OwnersAgree, WantedOnce, CountersExact, listVars, mapVars
  <2> QED BY <2>2, <2>3 DEF Bookkeeping
<1>3. CASE ~(fShouldBan[p] \/ Stalling(p))
  <2>1. PICK M \in ToRequest(p) : MarkBlocksAsInFlight(p, M)
    BY <1>3 DEF SendMessages
  <2>2. fDisconnect' = fDisconnect
    BY <1>3 DEF SendMessages
  <2>3. /\ vBlocksToDownload' = [vBlocksToDownload EXCEPT ![p] = @ \ M]
        /\ nBlocksToDownload' = [nBlocksToDownload EXCEPT ![p] = @ - Cardinality(M)]
        /\ vBlocksInFlight' = [vBlocksInFlight EXCEPT ![p] = @ \cup M]
        /\ nBlocksInFlight' = [nBlocksInFlight EXCEPT ![p] = @ + Cardinality(M)]
        /\ mapBlocksToDownload' = [b \in Blocks |-> IF b \in M THEN NoPeer ELSE mapBlocksToDownload[b]]
        /\ mapBlocksInFlight' = [b \in Blocks |-> IF b \in M THEN p ELSE mapBlocksInFlight[b]]
    BY <2>1 DEF MarkBlocksAsInFlight
  <2>4. /\ M \in SUBSET vBlocksToDownload[p]
        /\ vBlocksToDownload[p] \in SUBSET Blocks /\ vBlocksInFlight[p] \in SUBSET Blocks
        /\ Cardinality(M) = IF Room(p) < nBlocksToDownload[p] THEN Room(p) ELSE nBlocksToDownload[p]
    BY <1>0 DEF ToRequest, TypeOK
  <2>5. vBlocksToDownload[p] \cap vBlocksInFlight[p] = {}
    BY <1>0, <1>1, <2>4, PeersAssumption DEF OwnersAgree, WantedOnce
  <2>6. /\ Cardinality(vBlocksToDownload[p] \ M) = Cardinality(vBlocksToDownload[p]) - Cardinality(M)
        /\ Cardinality(vBlocksInFlight[p] \cup M) = Cardinality(vBlocksInFlight[p]) + Cardinality(M)
        /\ Cardinality(M) <= Cardinality(vBlocksToDownload[p]) /\ Cardinality(M) \in Nat
    BY <2>4, <2>5, ListMove, ListCount
  <2>7. /\ nBlocksToDownload[p] = Cardinality(vBlocksToDownload[p])
        /\ nBlocksInFlight[p] = Cardinality(vBlocksInFlight[p])
        /\ nBlocksToDownload[p] \in Nat /\ nBlocksInFlight[p] \in Nat
        /\ MAX_BLOCKS_IN_TRANSIT_PER_PEER \in Nat
    BY <1>0, <1>1, PeersAssumption DEF CountersExact, TypeOK
  <2>8. /\ nBlocksToDownload[p] - Cardinality(M) \in Nat /\ nBlocksInFlight[p] + Cardinality(M) \in Nat
        /\ nBlocksInFlight[p] + Cardinality(M) <= MAX_BLOCKS_IN_TRANSIT_PER_PEER
    <3>1. Cardinality(M) <= Room(p)
      BY <2>4, <2>7 DEF Room
    <3> QED BY <2>6, <2>7, <3>1 DEF Room
  <2>9. TypeOK'
    <3>1. /\ vBlocksToDownload' \in [Peers -> SUBSET Blocks] /\ nBlocksToDownload' \in [Peers -> Nat]
          /\ vBlocksInFlight' \in [Peers -> SUBSET Blocks] /\ nBlocksInFlight' \in [Peers -> Nat]
      BY <1>0, <2>3, <2>4, <2>8 DEF TypeOK
    <3>2. /\ mapBlocksToDownload' \in [Blocks -> Peers \cup {NoPeer}]
          /\ mapBlocksInFlight' \in [Blocks -> Peers \cup {NoPeer}]
      BY <1>0, <2>3 DEF TypeOK
    <3>3. receiveAge' \in [Peers -> 0..Old]
      BY <1>0, <2>1, AgeBounded DEF MarkBlocksAsInFlight, TypeOK
    <3> QED BY <1>0, <1>1, <2>2, <3>1, <3>2, <3>3 DEF TypeOK
  <2>10. OwnersAgree'
    <3>1. \A b \in M : mapBlocksToDownload[b] = p /\ mapBlocksInFlight[b] = NoPeer
      BY <1>0, <1>1, <2>4, PeersAssumption DEF OwnersAgree, WantedOnce
    <3> QED BY <1>0, <1>1, <2>3, <2>4, <3>1, PeersAssumption DEF OwnersAgree, TypeOK
  <2>11. WantedOnce'
    BY <1>0, <2>3 DEF WantedOnce
  <2>12. CountersExact'
    <3>1. \A r \in nodes : r \in Peers
      BY <1>0 DEF TypeOK
    <3>2. \A r \in Peers \ {p} : /\ vBlocksToDownload'[r] = vBlocksToDownload[r]
                                 /\ nBlocksToDownload'[r] = nBlocksToDownload[r]
                                 /\ vBlocksInFlight'[r] = vBlocksInFlight[r]
                                 /\ nBlocksInFlight'[r] = nBlocksInFlight[r]
      BY <1>0, <2>3 DEF TypeOK
    <3>3. /\ nBlocksToDownload'[p] = Cardinality(vBlocksToDownload'[p])
          /\ nBlocksInFlight'[p] = Cardinality(vBlocksInFlight'[p])
          /\ nBlocksInFlight'[p] <= MAX_BLOCKS_IN_TRANSIT_PER_PEER
      BY <1>0, <2>3, <2>6, <2>7, <2>8 DEF TypeOK
    <3> QED BY <1>0, <1>1, <3>1, <3>2, <3>3 DEF CountersExact
  <2> QED BY <2>9, <2>10, <2>11, <2>12 DEF Bookkeeping
<1> QED BY <1>2, <1>3

\* Every step keeps the books.
LEMMA NextBookkeeping == ASSUME Bookkeeping, [Next]_vars PROVE Bookkeeping'
  BY QuietStep, ConnectStep, RemoveStep, InvStep, ReceiveStep, SendStep DEF Next

-----------------------------------------------------------------------------
\* Whatever peers announce, send, withhold and whenever they vanish, the maps name the one
\* connected peer whose list holds a block, so that MarkBlockAsReceived finds its state and
\* erases through a valid iterator; no block is wanted twice; and the counters that
\* SendMessages goes by are the lengths of the lists.
THEOREM BookkeepingCorrect == Spec => []Bookkeeping
  BY InitBookkeeping, NextBookkeeping, PTL DEF Spec
-----------------------------------------------------------------------------
(* Honest peers *)

\* Nothing that would make the node give up an honest peer has begun: it is not banned,
\* no request to it is older than one unit, and it was heard of in time.
Prompt(p) ==
    /\ ~fDisconnect[p] /\ ~fShouldBan[p]
    /\ p \in nodes => processAge[p] < Inactivity
    /\ \A b \in Blocks : requestAge[p][b] <= IF p \in nodes /\ b \in vBlocksInFlight[p] THEN 1 ELSE 0
PromptInv == \A p \in Honest : Prompt(p)

\* The constants as numbers, and one unit of time.
LEMMA Units ==
  /\ Inactivity \in Nat /\ Inactivity > 1 /\ Old \in Nat /\ Old = Inactivity + 3
  /\ \A a \in 0..Old : Aged(a) \in Nat /\ Aged(a) <= a + 1
  BY PeersAssumption DEF Old, Aged

\* Requests that are recent are not a stall.
LEMMA NotStalling ==
  ASSUME TypeOK, NEW p \in Honest, p \in nodes, Prompt(p)
  PROVE  ~Stalling(p)
<1> DEFINE S == {requestAge[p][b] : b \in vBlocksInFlight[p]} \cup {0}
<1>1. p \in Peers /\ processAge[p] \in Nat /\ vBlocksInFlight[p] \in SUBSET Blocks
  BY PeersAssumption DEF TypeOK
<1>2. \A b \in Blocks : requestAge[p][b] \in Nat /\ requestAge[p][b] <= 1
  BY <1>1 DEF TypeOK, Prompt
<1>3. S \in SUBSET {0, 1} /\ 0 \in S
  BY <1>1, <1>2
<1>4. Max(S) \in {0, 1}
  <2> HIDE DEF S
  <2>1. \E x \in S : \A y \in S : x >= y
    <3>1. CASE 1 \in S
      BY <1>3, <3>1
    <3>2. CASE 1 \notin S
      BY <1>3, <3>2
    <3> QED BY <3>1, <3>2
  <2>2. Max(S) \in S
    BY <2>1 DEF Max
  <2> QED BY <1>3, <2>2
<1>5. FrontAge(p) \in {0, 1}
  BY <1>4 DEF FrontAge
<1> QED BY <1>1, <1>5 DEF Stalling

\* At the start nobody is connected.
LEMMA InitPrompt == ASSUME Init PROVE PromptInv
  BY PeersAssumption DEF Init, PromptInv, Prompt

\* What other peers do does not concern p.
LEMMA OthersLeave ==
  ASSUME PromptInv, NEW p \in Honest,
         fDisconnect'[p] = fDisconnect[p], fShouldBan'[p] => fShouldBan[p],
         p \in nodes' <=> p \in nodes, vBlocksInFlight'[p] = vBlocksInFlight[p],
         processAge'[p] \in {0, processAge[p]}, \A b \in Blocks : requestAge'[p][b] = requestAge[p][b]
  PROVE  Prompt(p)'
  BY Units DEF PromptInv, Prompt

\* One unit passes: the honest peers have sent something, and answered, in it.
LEMMA TickPrompt == ASSUME TypeOK, PromptInv, NEW p \in Honest, Tick PROVE Prompt(p)'
<1>1. p \in Peers
  BY PeersAssumption
<1>2. ~fDisconnect[p] /\ ~fShouldBan[p] /\ UNCHANGED <<fDisconnect, fShouldBan, nodes, vBlocksInFlight>>
  BY DEF Tick, PromptInv, Prompt, scoreVars, listVars
<1>3. p \in nodes => processAge[p] + 1 < Inactivity /\ \A b \in vBlocksInFlight[p] : requestAge[p][b] < 1
  BY DEF Tick, Punctual
<1>4. processAge[p] \in 0..Old /\ \A b \in Blocks : requestAge[p][b] \in 0..Old
  BY <1>1 DEF TypeOK
<1>5. processAge'[p] = Aged(processAge[p])
  BY <1>1 DEF Tick
<1>6. \A b \in Blocks : requestAge'[p][b] = IF p \in nodes /\ b \in vBlocksInFlight[p]
                                              THEN Aged(requestAge[p][b]) ELSE 0
  BY <1>1 DEF Tick
<1>7. p \in nodes => processAge'[p] < Inactivity
  BY <1>3, <1>4, <1>5, Units
<1>8. ASSUME NEW b \in Blocks
      PROVE  requestAge'[p][b] <= IF p \in nodes /\ b \in vBlocksInFlight[p] THEN 1 ELSE 0
  <2>1. CASE p \in nodes /\ b \in vBlocksInFlight[p]
    <3>1. requestAge[p][b] < 1 /\ requestAge[p][b] \in 0..Old
      BY <1>3, <1>4, <2>1
    <3>2. Aged(requestAge[p][b]) \in Nat /\ Aged(requestAge[p][b]) <= requestAge[p][b] + 1
      BY <3>1, Units
    <3> QED BY <1>6, <2>1, <3>1, <3>2
  <2>2. CASE ~(p \in nodes /\ b \in vBlocksInFlight[p])
    BY <1>6, <2>2
  <2> QED BY <2>1, <2>2
<1> QED BY <1>2, <1>7, <1>8 DEF Prompt

\* A block arrives, from whichever peer: the request for it ends.
LEMMA BlockPrompt ==
  ASSUME TypeOK, PromptInv, NEW p \in Honest, NEW q \in Peers, NEW b \in Blocks,
         NEW kept \in BOOLEAN, BlockMessage(q, b, kept)
  PROVE  Prompt(p)'
<1> DEFINE f == mapBlocksInFlight[b]
<1>1. p \in Peers /\ f \in Peers \cup {NoPeer}
  BY PeersAssumption DEF TypeOK
<1>2. UNCHANGED <<nodes, fDisconnect, fShouldBan>> /\ processAge'[p] \in {0, processAge[p]}
  BY <1>1 DEF BlockMessage, Processed, TypeOK, scoreVars
<1>3. CASE f # p
  <2>1. vBlocksInFlight'[p] = vBlocksInFlight[p] /\ \A c \in Blocks : requestAge'[p][c] = requestAge[p][c]
    BY <1>1, <1>3 DEF BlockMessage, MarkBlockAsReceived, TypeOK
  <2> QED BY <1>2, <2>1, OthersLeave
<1>4. CASE f = p
  <2>1. p # NoPeer
    BY <1>1, PeersAssumption
  <2>2. /\ vBlocksInFlight' = [vBlocksInFlight EXCEPT ![p] = @ \ {b}]
        /\ requestAge' = [requestAge EXCEPT ![p][b] = 0]
    BY <1>4, <2>1 DEF BlockMessage, MarkBlockAsReceived
  <2>3. vBlocksInFlight'[p] = vBlocksInFlight[p] \ {b}
    BY <1>1, <2>2 DEF TypeOK
  <2>4. \A c \in Blocks : requestAge'[p][c] = IF c = b THEN 0 ELSE requestAge[p][c]
    BY <1>1, <2>2 DEF TypeOK
  <2>5. Prompt(p)
    BY DEF PromptInv
  <2>6. p \in nodes' => processAge'[p] < Inactivity
    BY <1>2, <2>5, Units DEF Prompt
  <2>7. ASSUME NEW c \in Blocks
        PROVE  requestAge'[p][c] <= IF p \in nodes' /\ c \in vBlocksInFlight'[p] THEN 1 ELSE 0
    <3>1. requestAge[p][c] <= IF p \in nodes /\ c \in vBlocksInFlight[p] THEN 1 ELSE 0
      BY <2>5 DEF Prompt
    <3> QED BY <1>2, <2>3, <2>4, <3>1
  <2> QED BY <1>2, <2>5, <2>6, <2>7 DEF Prompt
<1> QED BY <1>3, <1>4

\* SendMessages: an honest peer is asked for more, never given up.
LEMMA SendPrompt ==
  ASSUME TypeOK, PromptInv, NEW p \in Honest, NEW q \in Peers, SendMessages(q)
  PROVE  Prompt(p)'
<1>1. p \in Peers /\ Prompt(p)
  BY PeersAssumption DEF PromptInv
<1>2. UNCHANGED <<nodes, requestAge, processAge>> /\ fShouldBan' = [fShouldBan EXCEPT ![q] = FALSE]
  BY DEF SendMessages
<1>3. fShouldBan'[p] => fShouldBan[p]
  BY <1>1, <1>2 DEF TypeOK
<1>4. CASE q # p
  <2>1. fDisconnect'[p] = fDisconnect[p]
    BY <1>1, <1>4 DEF SendMessages, TypeOK
  <2>2. vBlocksInFlight'[p] = vBlocksInFlight[p]
    BY <1>1, <1>4 DEF SendMessages, MarkBlocksAsInFlight, TypeOK, listVars
  <2> QED BY <1>2, <1>3, <2>1, <2>2, OthersLeave
<1>5. CASE q = p
  <2>1. ~(fShouldBan[p] \/ Stalling(p))
    BY <1>1, <1>5, NotStalling DEF SendMessages, Prompt
  <2>2. PICK M \in ToRequest(p) : MarkBlocksAsInFlight(p, M)
    BY <1>5, <2>1 DEF SendMessages
  <2>3. fDisconnect' = fDisconnect
    BY <1>5, <2>1 DEF SendMessages
  <2>4. vBlocksInFlight'[p] = vBlocksInFlight[p] \cup M
    BY <1>1, <2>2 DEF MarkBlocksAsInFlight, TypeOK
  <2>5. ASSUME NEW b \in Blocks
        PROVE  requestAge'[p][b] <= IF p \in nodes' /\ b \in vBlocksInFlight'[p] THEN 1 ELSE 0
    <3>1. requestAge[p][b] <= IF p \in nodes /\ b \in vBlocksInFlight[p] THEN 1 ELSE 0
      BY <1>1 DEF Prompt
    <3>2. requestAge[p][b] \in Nat
      BY <1>1 DEF TypeOK
    <3> QED BY <1>2, <2>4, <3>1, <3>2
  <2> QED BY <1>1, <1>2, <1>3, <2>3, <2>5 DEF Prompt
<1> QED BY <1>4, <1>5

\* Every step keeps the honest peers.
LEMMA NextPrompt == ASSUME TypeOK, PromptInv, [Next]_vars PROVE PromptInv'
<1> SUFFICES ASSUME NEW p \in Honest PROVE Prompt(p)'
  BY DEF PromptInv
<1>1. p \in Peers /\ Prompt(p)
  BY PeersAssumption DEF PromptInv
<1>2. ASSUME NEW q \in Peers, Connect(q) PROVE Prompt(p)'
  <2>1. CASE q # p
    <3>1. /\ fDisconnect'[p] = fDisconnect[p] /\ fShouldBan'[p] = fShouldBan[p]
          /\ vBlocksInFlight'[p] = vBlocksInFlight[p] /\ processAge'[p] = processAge[p]
          /\ (p \in nodes' <=> p \in nodes) /\ requestAge' = requestAge
      BY <1>1, <1>2, <2>1 DEF Connect, TypeOK
    <3> QED BY <3>1, OthersLeave
  <2>2. CASE q = p
    <3>1. /\ ~fDisconnect'[p] /\ ~fShouldBan'[p] /\ processAge'[p] = 0 /\ vBlocksInFlight'[p] = {}
          /\ requestAge' = requestAge /\ p \notin nodes
      BY <1>1, <1>2, <2>2 DEF Connect, TypeOK
    <3> QED BY <1>1, <3>1, Units DEF Prompt
  <2> QED BY <2>1, <2>2
<1>3. ASSUME NEW q \in Peers, RemoveNode(q) PROVE Prompt(p)'
  <2>1. q # p
    BY <1>1, <1>3 DEF RemoveNode, Prompt
  <2>2. /\ UNCHANGED <<fDisconnect, fShouldBan, vBlocksInFlight>> /\ (p \in nodes' <=> p \in nodes)
        /\ processAge'[p] = processAge[p] /\ requestAge'[p] = requestAge[p]
    BY <1>1, <1>3, <2>1 DEF RemoveNode, TypeOK, scoreVars, listVars
  <2> QED BY <2>2, OthersLeave
<1>4. ASSUME NEW q \in Peers, OtherMessage(q) PROVE Prompt(p)'
  <2>1. UNCHANGED <<nodes, fDisconnect, fShouldBan, vBlocksInFlight, requestAge>>
    BY <1>4 DEF OtherMessage, scoreVars, listVars
  <2>2. processAge'[p] \in {0, processAge[p]}
    BY <1>1, <1>4 DEF OtherMessage, Processed, TypeOK
  <2> QED BY <2>1, <2>2, OthersLeave
<1>5. ASSUME NEW q \in Peers, SendMessages(q) PROVE Prompt(p)'
  BY <1>5, SendPrompt
<1>6. ASSUME NEW q \in Peers, CloseSocket(q) PROVE Prompt(p)'
  <2>1. q # p /\ UNCHANGED <<nodes, fShouldBan, vBlocksInFlight, requestAge, processAge>>
    BY <1>6 DEF CloseSocket, scoreVars, listVars, ageVars
  <2>2. fDisconnect'[p] = fDisconnect[p]
    BY <1>1, <1>6, <2>1 DEF CloseSocket, TypeOK
  <2> QED BY <2>1, <2>2, OthersLeave
<1>7. ASSUME NEW q \in Peers, InactivityTimeout(q) PROVE Prompt(p)'
  <2>1. UNCHANGED <<nodes, fShouldBan, vBlocksInFlight, requestAge, processAge>>
    BY <1>7 DEF InactivityTimeout, scoreVars, listVars, ageVars
  <2>2. q # p
    <3>1. p \in nodes => processAge[p] < Inactivity /\ processAge[p] \in Nat
      BY <1>1 DEF Prompt, TypeOK
    <3> QED BY <3>1, <1>7, Units DEF InactivityTimeout
  <2>3. fDisconnect'[p] = fDisconnect[p]
    BY <1>1, <1>7, <2>2 DEF InactivityTimeout, TypeOK
  <2> QED BY <2>1, <2>3, OthersLeave
<1>8. ASSUME NEW q \in Peers, NEW b \in Blocks, Inv(q, b) PROVE Prompt(p)'
  <2>1. UNCHANGED <<nodes, fDisconnect, requestAge>>
    BY <1>8 DEF Inv
  <2>2. vBlocksInFlight' = vBlocksInFlight
    BY <1>8 DEF Inv, AddBlockToQueue, listVars
  <2>3. processAge'[p] \in {0, processAge[p]}
    BY <1>1, <1>8 DEF Inv, Processed, TypeOK
  <2>4. fShouldBan'[p] => fShouldBan[p]
    <3>1. CASE q # p
      BY <1>1, <1>8, <3>1 DEF Inv, AddBlockToQueue, TypeOK, scoreVars
    <3>2. CASE q = p
      <4>1. nBlocksToDownload[p] \in Nat /\ nBlocksToDownload[p] < MaxQueued /\ MaxQueued \in Nat
        BY <1>1, <1>8, <3>2, PeersAssumption DEF Inv, TypeOK
      <4>2. ~(nBlocksToDownload[p] + 1 > MaxQueued)
        BY <4>1
      <4> QED BY <4>2, <1>8, <3>2 DEF Inv, AddBlockToQueue, scoreVars
    <3> QED BY <3>1, <3>2
  <2> QED BY <2>1, <2>2, <2>3, <2>4, OthersLeave
<1>9. ASSUME NEW q \in Peers, NEW b \in Blocks, NEW kept \in BOOLEAN, BlockMessage(q, b, kept) PROVE Prompt(p)'
  BY <1>9, BlockPrompt
<1>10. ASSUME NEW b \in Blocks, LocalBlock(b) PROVE Prompt(p)'
  BY <1>10, OthersLeave DEF LocalBlock, scoreVars, listVars, ageVars
<1>11. ASSUME Tick PROVE Prompt(p)'
  BY <1>11, TickPrompt
<1>12. ASSUME UNCHANGED vars PROVE Prompt(p)'
  BY <1>12, OthersLeave DEF vars, scoreVars, listVars, ageVars
<1> QED BY <1>2, <1>3, <1>4, <1>5, <1>6, <1>7, <1>8, <1>9, <1>10, <1>11, <1>12 DEF Next

\* A peer that answers every request within the time-out and keeps talking is never
\* disconnected: not for a stall, since no request to it grows old, not for silence, and
\* not for a queue that is too long, whatever the other peers announce, hold back or close.
THEOREM PromptPeersCorrect == Spec => []PromptPeersStay
<1>1. Init => Bookkeeping /\ PromptInv
  BY InitBookkeeping, InitPrompt
<1>2. (Bookkeeping /\ PromptInv) /\ [Next]_vars => (Bookkeeping /\ PromptInv)'
  BY NextBookkeeping, NextPrompt DEF Bookkeeping
<1>3. PromptInv => PromptPeersStay
  BY DEF PromptInv, Prompt, PromptPeersStay
<1> QED BY <1>1, <1>2, <1>3, PTL DEF Spec
=============================================================================
