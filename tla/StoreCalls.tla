----------------------------- MODULE StoreCalls -----------------------------
(***************************************************************************)
(* What warehouse-node's central server asks of its store: the arguments of *)
(* the calls of the central.Store interface.  A SKU stands for one SKU/lot; *)
(* of an envelope only its identity, its reading of the clock and what      *)
(* caused it are kept.                                                      *)
(***************************************************************************)
EXTENDS HybridClock, Sequences, FiniteSets, SequencesExt

CONSTANTS
    Nodes,       \* warehouse identities; numbers, to keep the order of the ids
    Sent,        \* the envelopes nodes send
    Walls,       \* what the wall clock may read, now and after it is set back
    Facts,       \* the receipt facts
    Dispatched,  \* the in-transit rows dispatches record
    Arrived,     \* what arrivals fold into them
    Outcomes,    \* the decisions taken
    Master,      \* item records, several of a SKU
    Orders,      \* order lines with a quantity, several of a line
    Refusals     \* the sets of SKUs a node may refuse

CentralNode == 0    \* "central" sorts before the names of the warehouses
NoEvent == <<CentralNode, 0>>
NodeIds == Nodes \X (Nat \ {0})

ASSUME StoreCallsAssumption ==
    /\ Nodes \subseteq Nat \ {CentralNode}
    /\ Walls \subseteq Nat \ {0}
    /\ IsFiniteSet(Sent) /\ Sent \subseteq [id : NodeIds, at : Nat, cause : {NoEvent}]
    /\ \A e, f \in Sent : e.id = f.id => e = f
    /\ Facts \subseteq [event : NodeIds, node : Nodes, po : STRING, note : STRING,
                        sku : Nat, qty : Nat]
    /\ Dispatched \subseteq [transfer : Nat, sku : Nat, from : Nodes, to : Nodes,
                             dispatched : Nat, received : {0}, on : Nat, failed : {FALSE}]
    /\ Arrived \subseteq [event : NodeIds, transfer : Nat, sku : Nat, qty : Nat]
    /\ Outcomes \subseteq [event : NodeIds, verdict : STRING, comp : Nat \X Nat]
    /\ Master \subseteq [sku : Nat, deleted : BOOLEAN]
    /\ Orders \subseteq [po : STRING, sku : Nat, qty : Nat]
    /\ Refusals \subseteq SUBSET Nat

\* The order of identities, and the total order of a replay: by reading, by the
\* node that took it, by sequence.
Less(a, b) == a[1] < b[1] \/ (a[1] = b[1] /\ a[2] < b[2])
Before(e, f) == e.at < f.at \/ (e.at = f.at /\ Less(e.id, f.id))

\* The order of a report of transfers.
ReportedBefore(r, s) ==
    r.transfer < s.transfer \/ (r.transfer = s.transfer /\ r.sku < s.sku)
=============================================================================
