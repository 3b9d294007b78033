-------------------------------- MODULE Fifo --------------------------------
(***************************************************************************)
(* What a connection promises its two ends: the messages a node pushes are *)
(* processed by its peer once each, whole and in the order of the pushes.  *)
(***************************************************************************)
EXTENDS SequencesExt

CONSTANT Nodes
VARIABLE channel         \* node -> the messages it pushed that are not processed yet

Init == channel = [p \in Nodes |-> <<>>]

\* The peer of a node processes the first message; the node pushes one more.
Get(before, after) == before # <<>> /\ after = Tail(before)
Put(before, after) == after # <<>> /\ before = Front(after)

\* A node may push the answer to a message in the step that processes it.
Next ==
    \A p \in Nodes :
        LET before == channel[p]
            after == channel'[p]
        IN after = before \/ Get(before, after) \/ Put(before, after)

Spec == Init /\ [][Next]_channel
=============================================================================
