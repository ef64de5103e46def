---------------------------- MODULE LabProperties ----------------------------
(* What a session owes both of its ends, and the harness its verdict. *)
EXTENDS LabSync

Dominates(n, vv) == \A a \in Nodes : VersionVector(n)[a] >= vv[a]

\* A session that SyncOnce is about to report as done has brought each end what the other
\* announced in its Hello or Welcome, although frames were duplicated, sessions before it
\* were cut off, and their servers may still be at work (SyncOnce, Session, Filter).  Not
\* if frames are reordered: one held back until the Ack comes after it, and is not read.
ExchangedBothWays ==
    "reorder" \notin setup.faults =>
        \A c \in Nodes : Succeeds(c) =>
            Dominates(c, client[c].vv) /\ Dominates(client[c].to, client[c].mine)

Alike == \A n, m \in Nodes : log[n] = log[m]
AllEnded == \A s \in Sessions : Ended(s)

\* A pipe with no room, whose reader must merge the frame that comes next.
Stuck(queue) == Full(queue) /\ Head(queue).kind = "events"

\* Every node iterates over rows, which takes the connection that it needs to merge, and
\* waits for room in a pipe to a node that does the same.
Wedged ==
    \A n \in Nodes :
        \/ Iterating(client[n]) /\ Stuck(pipe[client[n].slot].toServer)
        \/ \E s \in Sessions : /\ server[s].at = n /\ Iterating(server[s])
                               /\ Stuck(pipe[s].toClient)

\* The harness ends: the vectors it waits for come to agree, and then the logs do, no
\* acknowledged operation is lost, and no goroutine of an abandoned session is left
\* behind (Quiesce, CheckConvergence, CheckNoLostEvent, Close).  Two processes come to hold
\* the same events as well, unless both stream while each must first merge what the other
\* sends (OpenSQLite, streamEvents).
EventuallyQuiesced ==
    /\ setup.transport = "memory" => <>[](stage = "done" /\ Alike /\ AllEnded)
    /\ setup.transport = "grpc" => <>[]Alike \/ <>[]Wedged
=============================================================================
