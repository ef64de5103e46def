------------------------------- MODULE MCNode -------------------------------
(* Small instances of NodeProperties for TLC. *)
EXTENDS NodeProperties, TLC

MCSkew == (Central :> 1) @@ (Home :> 0) @@ (Other :> 0)

Listed == [kind |-> "item", deleted |-> FALSE]
Delisted == [kind |-> "item", deleted |-> TRUE]

\* A log with the item and q units received at "pick", from before the last upgrade.
Stocked(q) ==
    << [author |-> Central, seq |-> 1, at |-> 0, recorded |-> 0, cause |-> 0, says |-> Listed],
       [author |-> Home, seq |-> 1, at |-> 1, recorded |-> 0, cause |-> 0,
        says |-> [kind |-> "received", id |-> "y", move |-> Into("pick", q)]] >>

Plan(history, commands, quota, rejects, foreign, versions, faults, ticks) ==
    [history |-> history, commands |-> commands, quota |-> quota, rejects |-> rejects,
     foreign |-> foreign, versions |-> versions, rollback |-> FALSE, faults |-> faults, ticks |-> ticks]

Pick(q) == [op |-> "pick", at |-> "pick", qty |-> q]
Receive == [op |-> "receive", id |-> "x", at |-> "recv", qty |-> 2]
PutAway == [op |-> "putaway", at |-> "recv", to |-> "pick", qty |-> 1]
Reserve(i) == [op |-> "reserve", id |-> i, at |-> "pick", qty |-> 1]
Dispatch == [op |-> "dispatch", id |-> "x", at |-> "pick", qty |-> 2]
Arrive(q) == [op |-> "arrive", id |-> "x", at |-> "recv", qty |-> q]

Receiving ==
    Plan(<<>>, {Receive, PutAway, [op |-> "close", id |-> "x"]}, 2, {"received"},
         {Listed, Delisted}, {1}, 1, 0)
Picking == Plan(Stocked(2), {Pick(1), Pick(2)}, 2, {"received"}, {}, {1, 2}, 2, 1)
Reserving ==
    Plan(Stocked(2), {Reserve("x"), Reserve("y"), Pick(2), [op |-> "release", id |-> "x"],
                      [op |-> "consume", id |-> "y"]}, 4, {}, {}, {1, 2}, 1, 0)
Counting ==
    Plan(Stocked(1), {Pick(1), [op |-> "startcount", id |-> "x", at |-> "pick"]}
            \cup {[op |-> "count", id |-> "x", qty |-> q] : q \in {0, 2}}
            \cup {[op |-> "closecount", id |-> "x"]}, 4, {"received"}, {}, {1}, 1, 0)
Sending ==
    Plan(Stocked(2), {Dispatch, Arrive(1)}, 2, {"dispatched"},
         {[kind |-> "arrived", id |-> "x", move |-> Into("there", q)] : q \in {1, 2}}, {1, 2}, 1, 1)
Accepting ==
    Plan(Stocked(1), {Arrive(1), Arrive(2)}, 2, {"arrived"},
         {[kind |-> "dispatched", id |-> "x", move |-> Out("there", 2), source |-> Other,
           target |-> Home]}, {1, 2}, 1, 1)

MCPlans == {Receiving, Picking, Reserving, Counting, Sending, Accepting}

\* The plans of a run where the read models drift away from the log: a command whose
\* events were recorded and not applied, and is tried again; a hold whose release is
\* applied before it; another version of the program that dies while it clears the
\* tables, and the first one in its place again.
Retried == Plan(Stocked(2), {Pick(2)}, 2, {}, {}, {1}, 1, 0)
Late ==
    Plan(Stocked(1), {Reserve("x"), [op |-> "release", id |-> "x"], Receive}, 3, {}, {}, {1}, 2, 0)
RolledBack == [Plan(Stocked(1), {}, 0, {}, {}, {1, 2}, 2, 0) EXCEPT !.rollback = TRUE]
DriftPlans == {Retried, Late, RolledBack}
=============================================================================
