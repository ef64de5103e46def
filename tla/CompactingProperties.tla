------------------------ MODULE CompactingProperties ------------------------
(* What a log that forgets its rows still owes its readers and its peers. *)
EXTENDS CompactingLog

\* The events that n's version vector says it holds, whether or not their rows survive.
Claimed(n) == {e \in written : e.seq <= VersionVector(n)[e.node]}

\* A read (Projector.Project) folds each event the node was ever given exactly once, be it
\* in a snapshot, in a row, deleted, or both: whatever the order in which events arrived, a
\* snapshot was folded and saved, the rows were compacted and old events came again.
ReadsAllHeldOnce ==
    \A n \in net.nodes, s \in SKUs :
        Project(n, s) = SetToBag({e \in Claimed(n) \cup rows[n] : e.sku = s})

\* An event whose row one node has deleted is held by every node: nobody will ever ask
\* for it, so Compact loses nothing (AckedFloor).
DeletedHeldByAll ==
    \A n, p \in net.nodes : \A e \in Claimed(n) \ rows[n] : e \in Claimed(p)

\* What a read at n makes of author a, as far as n claims to hold it: per number the events
\* folded under it, and how often each.
Copies(n, s, e) == IF BagIn(e, Project(n, s)) THEN Project(n, s)[e] ELSE 0
View(n, a) == [i \in 1..VersionVector(n)[a] |->
    LET S == {e \in written : e.node = a /\ e.seq = i}
    IN [e \in S |-> Copies(n, e.sku, e)]]

\* Snapshots, compaction, duplicates and restarts do not show: to a reader, the logs are one
\* replicated log, of which each node knows a beginning of every author's part that only
\* grows (VersionVector, Projector.Project).
Log == INSTANCE ReplicatedLog WITH
    Sites <- Nodes, Authors <- Nodes,
    view <- [n \in Nodes |-> [a \in Nodes |-> View(n, a)]]
LogRefined == Log!Spec

\* A local write is stamped after every row at its node, the last-writer-wins order, over
\* skewed wall clocks and restarts (Clock.Now and Observe, recoverClock).
WriteSortsLast ==
    [][\A e \in written' \ written : \A f \in rows[e.node] :
          f.at < e.at \/ (f.at = e.at /\ f.node < e.node)]_vars

Converged == \A n \in net.nodes, s \in SKUs :
    Project(n, s) = SetToBag({e \in written : e.sku = s})

\* Once the transport is healed every node ends up reading every event of every node
\* (Quiesce, CheckConvergence and CheckNoLostEvent).
EventuallyConverged == <>healed => <>[]Converged
=============================================================================
