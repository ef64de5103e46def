--------------------------- MODULE MCReplication ---------------------------
(* Small instances of ReplicationProperties for TLC. *)
EXTENDS ReplicationProperties

\* Two nodes that replicate with central, as the binaries are deployed.
Star == [links |-> {<<1, 0>>, <<2, 0>>}, faults |-> 0, ticks |-> 0]

\* Any peer can replicate from a node: node 1 dials node 2.
Pair == [links |-> {<<1, 2>>}, faults |-> 1, ticks |-> 1]

PairAndStar == {Pair, Star}
TwiceFailingPair == {[Pair EXCEPT !.faults = 2, !.ticks = 0]}

InStep == [n \in Nodes |-> 0]
Ahead == [n \in Nodes |-> IF n = 2 THEN 2 ELSE 0]

\* Node 1 receives and sends on to node 2, where the goods are issued.
Through == {[from |-> -1, to |-> 1], [from |-> 1, to |-> 2], [from |-> 2, to |-> -1]}
Arriving == {[from |-> -1, to |-> 1], [from |-> -1, to |-> 2]}
TwoAndOne == [n \in Nodes |-> IF n = 1 THEN 2 ELSE 1]
=============================================================================
