------------------------------- MODULE OrphanTx -------------------------------
(***************************************************************************)
(* Orphan transactions (main.cpp): transactions that arrived before their  *)
(* parents, kept by hash and by the hashes they wait for, and looked at    *)
(* again when the "tx" message of a parent is accepted.                    *)
(*                                                                         *)
(* AcceptToMemoryPool is reduced to its outcomes (accepted, inputs         *)
(* missing, refused), and parents keep unspent outputs.  The handler runs  *)
(* under cs_main; its loop over the orphans is a step for each orphan, in  *)
(* any order where the code's depends on the hashes.                       *)
(***************************************************************************)
EXTENDS Naturals, FiniteSets, Sequences, SequencesExt

CONSTANTS
    Txs, Peers,
    Parents,     \* tx -> the hashes of its inputs
    Invalid,     \* refused with a DoS score once the parents are known
    LowFee,      \* refused without a score
    Large,       \* above 5000 bytes
    MaxOrphanTx  \* -maxorphantx

OrphanAssumption ==
    /\ \A t \in Txs : Parents[t] \subseteq Txs \ {t}
    /\ Invalid \cup LowFee \cup Large \subseteq Txs
    /\ MaxOrphanTx \in Nat

VARIABLES
    nodes,       \* connected peers
    pool,        \* transactions in the memory pool
    chain,       \* transactions in the chain
    mapOrphanTransactions,       \* tx -> COrphanTx::fromPeer
    mapOrphanTransactionsByPrev, \* tx -> the orphans that wait for it
    pc,          \* "idle", or "orphans" inside the loop of the handler
    vWorkQueue,  \* accepted transactions whose dependants are still to be looked at
    todo,        \* the orphans of the first of them that are left
    vEraseQueue, setMisbehaving,
    punished,    \* history: peers Misbehaving was called for
    guilty,      \* history: peers that sent an invalid transaction
    unnoticed    \* history: transactions that came without the orphan loop

orphanVars == <<mapOrphanTransactions, mapOrphanTransactionsByPrev>>
callVars   == <<pc, vWorkQueue, todo, vEraseQueue, setMisbehaving>>
histVars   == <<punished, guilty, unnoticed>>
vars == <<nodes, pool, chain, orphanVars, callVars, histVars>>

Orphans == DOMAIN mapOrphanTransactions
HaveCoins(t) == t \in pool \cup chain
MissingInputs(t) == \E x \in Parents[t] : ~HaveCoins(x)
Accepted(t) == ~HaveCoins(t) /\ ~MissingInputs(t) /\ t \notin Invalid \cup LowFee

Init ==
    /\ nodes = {} /\ pool = {} /\ chain = {}
    /\ mapOrphanTransactions = [t \in {} |-> 0] /\ mapOrphanTransactionsByPrev = [t \in {} |-> {}]
    /\ pc = "idle" /\ vWorkQueue = <<>> /\ todo = {} /\ vEraseQueue = {} /\ setMisbehaving = {}
    /\ punished = {} /\ guilty = {} /\ unnoticed = {}
-----------------------------------------------------------------------------
(* The maps *)

Without(f, S) == [x \in DOMAIN f \ S |-> f[x]]
Waiting(t) == IF t \in DOMAIN mapOrphanTransactionsByPrev THEN mapOrphanTransactionsByPrev[t] ELSE {}

\* EraseOrphanTx on mapOrphanTransactionsByPrev, for all of S.
ByPrevWithout(byPrev, S) ==
    LET new == [x \in DOMAIN byPrev |-> byPrev[x] \ S]
    IN [x \in {y \in DOMAIN new : new[y] # {}} |-> new[x]]

\* The loop condition of LimitOrphanTxSize.
Fits(S) == Cardinality(S) <= MaxOrphanTx

\* mapOrphanTransactions with the new entry.
Stored(t, p) == [x \in Orphans \cup {t} |-> IF x = t THEN p ELSE mapOrphanTransactions[x]]

\* AddOrphanTx, then LimitOrphanTxSize, which evicts at random until the rest fits.
AddOrphanTx(t, p) ==
    LET new == Stored(t, p)
        byPrev == [x \in DOMAIN mapOrphanTransactionsByPrev \cup Parents[t] |->
                      Waiting(x) \cup (IF x \in Parents[t] THEN {t} ELSE {})]
    IN \E evicted \in SUBSET DOMAIN new :
          /\ Fits(DOMAIN new \ evicted)
          /\ \A x \in evicted : ~Fits((DOMAIN new \ evicted) \cup {x})
          /\ mapOrphanTransactions' = Without(new, evicted)
          /\ mapOrphanTransactionsByPrev' = ByPrevWithout(byPrev, evicted)

\* EraseOrphansFor.
OrphansOf(p) == {t \in Orphans : mapOrphanTransactions[t] = p}

EraseOrphans(S) ==
    /\ mapOrphanTransactions' = Without(mapOrphanTransactions, S)
    /\ mapOrphanTransactionsByPrev' = ByPrevWithout(mapOrphanTransactionsByPrev, S \cap Orphans)
-----------------------------------------------------------------------------
(* Peers, the wallet and blocks *)

Connect(p) ==
    /\ pc = "idle" /\ p \notin nodes
    /\ nodes' = nodes \cup {p}
    /\ UNCHANGED <<pool, chain, orphanVars, callVars, histVars>>

\* FinalizeNode.
Disconnect(p) ==
    /\ pc = "idle" /\ p \in nodes
    /\ nodes' = nodes \ {p}
    /\ EraseOrphans(OrphansOf(p))
    /\ UNCHANGED <<pool, chain, callVars, histVars>>

\* AcceptToMemoryPool called by the wallet or by sendrawtransaction.
LocalTx(t) ==
    /\ pc = "idle" /\ Accepted(t)
    /\ pool' = pool \cup {t}
    /\ unnoticed' = unnoticed \cup {t}
    /\ UNCHANGED <<nodes, chain, orphanVars, callVars, punished, guilty>>

\* A block confirms t, whether the node had it or not.
BlockTx(t) ==
    /\ pc = "idle" /\ t \notin chain \cup Invalid /\ Parents[t] \subseteq chain
    /\ chain' = chain \cup {t} /\ pool' = pool \ {t}
    /\ unnoticed' = IF t \in pool THEN unnoticed ELSE unnoticed \cup {t}
    /\ UNCHANGED <<nodes, orphanVars, callVars, punished, guilty>>
-----------------------------------------------------------------------------
(* The "tx" message *)

Sent(p, t) == guilty' = IF t \in Invalid THEN guilty \cup {p} ELSE guilty

\* Accepted: its dependants are next.
TxAccepted(p, t) ==
    /\ pc = "idle" /\ p \in nodes /\ Accepted(t)
    /\ pool' = pool \cup {t}
    /\ pc' = "orphans" /\ vWorkQueue' = <<t>> /\ todo' = Waiting(t) /\ vEraseQueue' = {t}
    /\ UNCHANGED <<nodes, chain, orphanVars, setMisbehaving, histVars>>

\* Missing inputs.
TxMissingInputs(p, t) ==
    /\ pc = "idle" /\ p \in nodes /\ ~HaveCoins(t) /\ MissingInputs(t)
    /\ IF t \in Orphans \cup Large THEN UNCHANGED orphanVars ELSE AddOrphanTx(t, p)
    /\ Sent(p, t)
    /\ UNCHANGED <<nodes, pool, chain, callVars, punished, unnoticed>>

\* Refused; the sender is punished if the transaction is invalid.
TxInvalid(p, t) ==
    /\ pc = "idle" /\ p \in nodes /\ ~HaveCoins(t) /\ ~MissingInputs(t) /\ t \in Invalid
    /\ punished' = punished \cup {p} /\ Sent(p, t)
    /\ UNCHANGED <<nodes, pool, chain, orphanVars, callVars, unnoticed>>

\* Mutant of Extended: dependants of an accepted orphan are not looked at.
Extended_Not(t) == vWorkQueue

\* vWorkQueue.push_back of an accepted orphan.
Extended(t) == Append(vWorkQueue, t)

\* The peer an invalid orphan is put down to.
Blamed(t) == mapOrphanTransactions[t]

\* One orphan that depends on the head of the work queue.  It is erased
\* afterwards, whatever becomes of it.
OrphanStep(t) ==
    /\ pc = "orphans" /\ t \in todo
    /\ todo' = todo \ {t} /\ vEraseQueue' = vEraseQueue \cup {t}
    /\ \/ /\ mapOrphanTransactions[t] \in setMisbehaving
          /\ UNCHANGED <<pool, vWorkQueue, setMisbehaving, punished>>
       \/ /\ mapOrphanTransactions[t] \notin setMisbehaving /\ Accepted(t)
          /\ pool' = pool \cup {t} /\ vWorkQueue' = Extended(t)
          /\ UNCHANGED <<setMisbehaving, punished>>
       \/ /\ mapOrphanTransactions[t] \notin setMisbehaving /\ ~Accepted(t)
          /\ IF ~HaveCoins(t) /\ ~MissingInputs(t) /\ t \in Invalid
             THEN /\ punished' = punished \cup {Blamed(t)}
                  /\ setMisbehaving' = setMisbehaving \cup {mapOrphanTransactions[t]}
             ELSE UNCHANGED <<setMisbehaving, punished>>
          /\ UNCHANGED <<pool, vWorkQueue>>
    /\ UNCHANGED <<nodes, chain, orphanVars, pc, guilty, unnoticed>>

\* The next entry of the work queue, or the end: EraseOrphanTx for the erase queue.
OrphanNext ==
    /\ pc = "orphans" /\ todo = {}
    /\ vWorkQueue' = Tail(vWorkQueue)
    /\ IF Len(vWorkQueue) > 1
       THEN /\ todo' = Waiting(vWorkQueue[2])
            /\ UNCHANGED <<pc, vEraseQueue, setMisbehaving, orphanVars>>
       ELSE /\ EraseOrphans(vEraseQueue)
            /\ pc' = "idle" /\ vEraseQueue' = {} /\ setMisbehaving' = {} /\ UNCHANGED todo
    /\ UNCHANGED <<nodes, pool, chain, histVars>>
-----------------------------------------------------------------------------
Next ==
    \/ \E p \in Peers : \/ Connect(p) \/ Disconnect(p)
                        \/ \E t \in Txs : TxAccepted(p, t) \/ TxMissingInputs(p, t) \/ TxInvalid(p, t)
    \/ \E t \in Txs : LocalTx(t) \/ BlockTx(t) \/ OrphanStep(t)
    \/ OrphanNext

Spec == Init /\ [][Next]_vars
-----------------------------------------------------------------------------
(* Properties *)

TypeOK ==
    /\ nodes \subseteq Peers /\ pool \subseteq Txs /\ chain \subseteq Txs
    /\ Orphans \subseteq Txs /\ \A t \in Orphans : mapOrphanTransactions[t] \in Peers
    /\ DOMAIN mapOrphanTransactionsByPrev \subseteq Txs
    /\ \A t \in DOMAIN mapOrphanTransactionsByPrev : mapOrphanTransactionsByPrev[t] \subseteq Txs
    /\ pc \in {"idle", "orphans"} /\ vWorkQueue \in Seq(Txs) /\ todo \subseteq Txs
    /\ vEraseQueue \subseteq Txs /\ setMisbehaving \subseteq Peers

\* Through every arrival, eviction, disconnection and loop the second map is the
\* inverse of the first and has no empty sets, so that the loop never makes an
\* entry with mapOrphanTransactions[orphanHash].
MapsAgree ==
    /\ \A x \in Txs : Waiting(x) = {t \in Orphans : x \in Parents[t]}
    /\ \A x \in DOMAIN mapOrphanTransactionsByPrev : Waiting(x) # {}

\* Between two messages the orphans are within the limit and belong to peers
\* that are still connected.
OrphansBounded == pc = "idle" => Cardinality(Orphans) <= MaxOrphanTx
OrphansOwned == \A t \in Orphans : mapOrphanTransactions[t] \in nodes

\* The loop follows chains of orphans to their end: between two messages an orphan
\* waits for a transaction the node does not have, or that did not come by message.
Resolved == pc = "idle" => \A t \in Orphans : \E x \in Parents[t] : ~HaveCoins(x) \/ x \in unnoticed

\* Misbehaving hits only peers that sent an invalid transaction themselves.
OnlyGuiltyPunished == punished \subseteq guilty

\* The two maps of orphan transactions stay inverse to each other through chains, evictions
\* and disconnections; between two messages the orphans keep to their limit and belong to
\* peers that are connected (LimitOrphanTxSize, EraseOrphansFor); the loop over vWorkQueue
\* follows orphans of orphans to their end, and Misbehaving hits only peers that sent an
\* invalid transaction.
OrphanTxExact ==
    /\ TypeOK /\ MapsAgree /\ OrphansBounded /\ OrphansOwned
    /\ Resolved /\ OnlyGuiltyPunished
=============================================================================
