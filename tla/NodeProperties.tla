--------------------------- MODULE NodeProperties ---------------------------
(* What a warehouse node's log, read models and state are meant to guarantee. *)
EXTENDS NodeService, FiniteSetsExt

Pcs == {"down", "clear", "catchup", "up", "apply"}
Flag == [status : {"none", "open", "resolved"}, qty : Int, at : Nat]
Hold == [at : Places, qty : Nat, status : {"none", "active", "released", "consumed"}]
Transfer == [source : Authors, target : Authors, dispatched : Nat, received : Nat,
             status : {"none", "in_flight", "complete", "failed"}]
EventId == Authors \X (Nat \ {0})

\* The variables have their types, and so has every event recorded or queued.
TypeOK ==
    /\ plan \in Plans
    /\ \A e \in log \cup Range(queue) : e \in Event
    /\ table.stock_on_hand \in [Places -> Int]
    /\ table.reservations \in [Ids -> Hold]
    /\ table.transfers \in [Ids -> Transfer]
    /\ table.exceptions.negative \in [Places -> Flag]
    /\ table.exceptions.compensations \cup table.projection_applied \subseteq EventId
    /\ table.key_touched \in [Places -> Nat \cup {-1}]
    /\ {version, code} \subseteq plan.versions \cup {0}
    /\ pc \in Pcs
    /\ call.op \in {"none", "execute", "ingest"} /\ call.events \subseteq log
    /\ Range(todo) \cup memory \cup lost \subseteq log
    /\ seq \in Nat /\ clk \in [Authors -> Nat]
    /\ pulled \in 0..Len(queue)
    /\ now \in 0..plan.ticks /\ executed \in 0..plan.quota /\ failures \in 0..plan.faults

Applied == {e \in log : IsApplied(table, e)}
Replayed(S) == FoldLeft(Project, NoRows, InOrder(S))

\* A read model without the flags that were resolved: whether a balance dipped below
\* zero on the way depends on the order in which events came.
Standing(t) ==
    [t EXCEPT !.exceptions.negative =
        [l \in Places |-> IF @[l].status = "open" THEN @[l] ELSE NoFlag]]

\* The read models are what replaying the events they contain in timestamp order gives,
\* though they were applied as they came, in calls that failed half way, by processes
\* that died while they rebuilt, and under whichever version (Set.Apply, Rebuild).
\* Resolved flags aside, and unless an event was recorded and reported failed.
LiveIsReplayed ==
    pc \in {"up", "apply"} /\ lost = {} => Standing(table) = Standing(Replayed(Applied))

\* The state commands are checked against and the read models shown to operators are
\* two programs over one log, and agree whenever nothing is left to apply: on stock,
\* holds and transfers, of which the state alone never learns that one failed
\* (State.Apply, applyStock, applyReservation, applyTransfer).
StateMatchesReadModels ==
    pc = "up" /\ lost = {} /\ memory = log /\ Applied = log =>
        LET s == State(memory)
        IN /\ s.stock = table.stock_on_hand
           /\ s.holds = table.reservations
           /\ \A i \in Ids :
                 s.transfers[i] = [table.transfers[i] EXCEPT
                                     !.status = IF @ = "failed" THEN "in_flight" ELSE @]

Taken(l, S) ==
    MapThenSumSet(LAMBDA e : e.says.move.qty,
        {e \in S : e.says.kind \in Moving /\ e.says.move.from = l})
Compensations == {e \in log : e.cause > 0}

\* A node's own commands never take a location below zero: what is missing was taken
\* back by central, or by a command that was reported failed (RequireOnHand).
NeverOverdrawn ==
    \A l \in Places : State(log).stock[l] + Taken(l, Compensations) + Taken(l, lost) >= 0

\* What a node records sorts after all it had seen, in the order of its own numbers,
\* which have no gap: whatever the clocks of others, and the restarts (Tick, Merge, recover).
OwnSortsLast ==
    [][\A e \in Own(log' \ log) :
          /\ \A f \in log : Before(f, e)
          /\ \A i \in 1..e.seq : \E f \in Own(log') :
                f.seq = i /\ (i < e.seq => Before(f, e))]_vars

\* What central queued is in the log in the end, and everything in the log is in the read
\* models, unless a command was reported failed and the process not restarted (apply,
\* CatchUp, Rebuild).
EventuallyProjected ==
    <>[](pc = "up" /\ Range(queue) \subseteq log /\ log \ Applied \subseteq lost)

\* Between calls, when the state in memory is the log's, so are the read models: "state is
\* always a fresh, idempotent replay of exactly what the log and the projections' applied
\* markers agree has happened" (service.go, rebuildState); "any of them can be thrown away
\* and rebuilt by replaying the log" (registry.go).  Violated: see the plans DriftPlans.
StateReflectsReadModels ==
    pc = "up" /\ memory = log => Standing(table) = Standing(Replayed(log))
=============================================================================
