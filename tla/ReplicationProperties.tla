------------------------ MODULE ReplicationProperties ------------------------
(* What replicating the logs is meant to guarantee. *)
EXTENDS Replication

\* A node's balances are what replaying its log would give, in whatever order records
\* arrived, how often they were delivered, and wherever an exchange or the process
\* stopped (Append, mergeOne and Project; NewInventory).
ProjectionMatchesLog == \A n \in Nodes : balance[n] = Fold(held[n])

\* The records a node holds never take its own location below zero: what Check allowed
\* against the balances in memory is allowed by the log, though merges credit the location
\* meanwhile, may stop halfway or be delivered again (Check, Project, mergeOne).
OwnedNeverNegative == \A n \in Nodes : Fold(held[n])[n] >= 0

\* A timestamp issued for a command sorts after every record the node holds, those of
\* before its last restart and those merged from peers included (Clock.Now;
\* Inventory.Project observes each record).
StampsAfterLearned ==
    [][\A n \in Nodes : \A c \in pending'[n] \ pending[n] :
          \A r \in held[n] : Before(r.at, c.at) \/ (r.at = c.at /\ r.author < n)]_vars

\* Whatever its cursor for a peer covers, the peer holds: a stream that broke, or a
\* merge that failed at the peer, never counts as delivered (SyncOnce).
CursorHonest ==
    \A l \in Links : \A r \in Of(l[1], held[l[1]]) :
        r.seq <= cursor[l] => r \in held[l[2]]

\* Linked sites hold the same records in the end, whatever streams died on the way, with
\* no other repair than the next exchange (Client.Run, Exchange), and central's sum is what
\* the nodes count at their own locations (GlobalSum).
EventuallyReplicated ==
    <>[](\A l \in net.links :
            /\ held[l[1]] = held[l[2]]
            /\ l[2] = Central =>
                 GlobalSum(held[Central]) = MapThenSumSet(LAMBDA n : balance[n][n], Nodes))

\* The logs together are one replicated log: what a site knows of an author grows by
\* the author's next record, through every exchange, failure and restart, so that the
\* highest number held, which a version vector reports, stands for all below it
\* (Version, Since, mergeOne).
View(s, a) ==
    LET S == Of(a, held[s])
    IN [i \in 1..Cardinality(S) |->
          CHOOSE r \in S : Cardinality({q \in S : q.seq <= r.seq}) = i]
Log == INSTANCE ReplicatedLog WITH
    Authors <- Nodes,
    view <- [s \in Sites |-> [a \in Nodes |-> View(s, a)]]
LogRefined == Log!Spec
=============================================================================
