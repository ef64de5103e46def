----------------------------- MODULE Replication -----------------------------
(***************************************************************************)
(* localfirst-go: every node's append-only log, its hybrid logical clock    *)
(* and projected balances, and the symmetric exchange that replicates the   *)
(* logs with a peer.                                                        *)
(*                                                                          *)
(* An exchange is a sequential program run by two parties: each pushes in   *)
(* turn, the responder first, while the other drains.  A session is that    *)
(* program's state.  Quantities are 1, there is one SKU, and a node owns    *)
(* the one location that bears its name.                                    *)
(***************************************************************************)
EXTENDS Integers, Sequences, FiniteSets, FiniteSetsExt

CONSTANTS
    Nodes,       \* the ids of the nodes; ids are ordered
    Central,     \* the peer that authors nothing and projects nothing
    Sessions,    \* the streams that may be open at once
    Skew,        \* node |-> how far its wall clock is ahead
    Effects,     \* what the commands tried move: from a location to another
    Quota,       \* node |-> bound on the records it authors
    BatchSize,   \* records per frame
    Topologies   \* the deployments checked, with the bounds of each: which nodes'
                 \* clients dial whom (links, <<a, b>>: a's client replicates with b),
                 \* how many refused commands, broken streams and restarts there may
                 \* be (faults), and how far the wall time goes, restarts aside (ticks)

Outside == -1   \* where received goods come from, and issued goods go
Effect == [from : Nodes \cup {Outside}, to : Nodes \cup {Outside}]

ASSUME ReplicationAssumption ==
    /\ Nodes \subseteq Nat /\ IsFiniteSet(Nodes) /\ Central \in Nat \ Nodes
    /\ \A t \in Topologies : /\ t.links \subseteq Nodes \X (Nodes \cup {Central})
                             /\ t.faults \in Nat /\ t.ticks \in Nat
    /\ Effects \subseteq Effect
    /\ Skew \in [Nodes -> Nat] /\ Quota \in [Nodes -> Nat]
    /\ BatchSize \in Nat \ {0}

Links == UNION {t.links : t \in Topologies}
Sites == Nodes \cup {Central}

VARIABLES
    net,        \* the deployment, one of Topologies
    held,       \* site |-> the records in its log
    balance,    \* node |-> its projected balances
    clk,        \* node |-> the last timestamp its clock issued
    pending,    \* node |-> the stamped command waiting for the store, if any
    cursor,     \* link |-> how far the peer acknowledged the node's records
    session,    \* the open exchanges
    now,        \* the wall time
    failures

vars == <<net, held, balance, clk, pending, cursor, session, now, failures>>

HLC == [wall : Nat, logical : Nat]
Record == [author : Nodes, seq : Nat \ {0}, at : HLC, op : Effect]
Vector == [Nodes -> Nat]
Nothing == [a \in Nodes |-> 0]

Command == [at : HLC, op : Effect]

Session == [link : Links,
            pusher : Sites,           \* the party that pushes, or is about to
            pc : {"hello", "snapshot", "collect", "drain", "merge", "status"},
            vv : [Sites -> Vector],   \* the vector each party sent in its Hello
            snapshot : Vector,        \* the vector the pusher acknowledges
            frames : Seq(Seq(Record)),\* batches the other has yet to take
            broken : BOOLEAN]         \* the pusher has gone

TypeOK ==
    /\ net \in Topologies
    /\ held \in [Sites -> SUBSET Record]
    /\ balance \in [Nodes -> [Nodes -> Int]]
    /\ clk \in [Nodes -> HLC]
    /\ pending \in [Nodes -> SUBSET Command]
    /\ cursor \in [Links -> Nat]
    /\ \A x \in Sessions : session[x] = {} \/ \E s \in session[x] :
          session[x] = {s} /\ s \in Session
    /\ now \in Nat /\ failures \in Nat

Init ==
    /\ net \in Topologies
    /\ held = [s \in Sites |-> {}]
    /\ balance = [n \in Nodes |-> Nothing]
    /\ clk = [n \in Nodes |-> [wall |-> 0, logical |-> 0]]
    /\ pending = [n \in Nodes |-> {}]
    /\ cursor = [l \in Links |-> 0]
    /\ session = [x \in Sessions |-> {}]
    /\ now = 0
    /\ failures = 0

-----------------------------------------------------------------------------
(* The clock *)

Highest(S) == CHOOSE m \in S : \A i \in S : i <= m

\* Physical time, unless a stamp seen is as late; then one tick after the latest.
Advance(physical, seen) ==
    LET wall == Highest({physical} \cup {h.wall : h \in seen})
        ticks == {h.logical : h \in {g \in seen : g.wall = wall}}
    IN [wall |-> wall, logical |-> IF ticks = {} THEN 0 ELSE 1 + Highest(ticks)]

Physical(n) == now + Skew[n]
\* Mutant of Observe: a merged record leaves the clock alone.
ObserveNothing(n, at) == clk[n]

Observe(n, at) == Advance(Physical(n), {at, clk[n]})   \* what Project does to n's clock

Before(g, h) ==
    \/ g.wall < h.wall
    \/ g.wall = h.wall /\ g.logical < h.logical

Less(r, q) ==
    \/ Before(r.at, q.at)
    \/ r.at = q.at /\ r.author < q.author
    \/ r.at = q.at /\ r.author = q.author /\ r.seq < q.seq

-----------------------------------------------------------------------------
(* The log and its projection *)

Of(a, S) == {r \in S : r.author = a}
VersionOf(S) == [a \in Nodes |-> Highest({0} \cup {r.seq : r \in Of(a, S)})]
Version(s) == VersionOf(held[s])

\* Mutant of Since: an off-by-one leaves out the record after the mark.
SinceNext(s, vv) == {r \in held[s] : r.seq > vv[r.author] + 1}

\* The records that Since returns, in the order of Sorted.
Since(s, vv) == {r \in held[s] : r.seq > vv[r.author]}

\* Mutant of Sorted: the latest records first.
Latest(S) ==
    [i \in 1..Cardinality(S) |-> CHOOSE r \in S : Cardinality({q \in S : Less(r, q)}) = i - 1]

\* In replay order: as many records come before one as are less.
Sorted(S) ==
    [i \in 1..Cardinality(S) |-> CHOOSE r \in S : Cardinality({q \in S : Less(q, r)}) = i - 1]

Apply(state, op) ==
    [l \in Nodes |-> state[l] + (IF op.to = l THEN 1 ELSE 0)
                              - (IF op.from = l THEN 1 ELSE 0)]

\* What replaying S through the reducer yields, in any order.
Fold(S) ==
    [l \in Nodes |-> Cardinality({r \in S : r.op.to = l})
                   - Cardinality({r \in S : r.op.from = l})]

\* PGStore.GlobalSum: every location's balance, added up.
GlobalSum(S) == MapThenSumSet(LAMBDA l : Fold(S)[l], Nodes)

\* The commands of n: Receive, Issue and Move from the location it owns.
Commands(n) == {op \in Effects : n = IF op.from = Outside THEN op.to ELSE op.from}

\* Mutant of Check: looks at the balance the command finds, not the one it leaves.
CheckFound(n, op) ==
    op.from # Outside => balance[n][op.from] >= 0

Check(n, op) ==
    op.from # Outside => Apply(balance[n], op)[op.from] >= 0

\* Mutant of NextSeq: the number of the last record again.
LastSeq(n) == Version(n)[n]

NextSeq(n) == Version(n)[n] + 1

\* A node's store is locked while a batch is merged into it; central's has no lock.
Draining(s) == IF s.pusher = s.link[1] THEN s.link[2] ELSE s.link[1]
Locked(n) ==
    n \in Nodes /\ \E x \in Sessions : \E s \in session[x] : s.pc = "merge" /\ Draining(s) = n

\* A command is stamped before the store's lock is taken; the node's next command waits.
StampCommand(n) ==
    /\ pending[n] = {}
    /\ Cardinality(Of(n, held[n])) < Quota[n]
    /\ LET at == Advance(Physical(n), {clk[n]})
       IN /\ \E op \in Commands(n) :
                pending' = [pending EXCEPT ![n] = {[at |-> at, op |-> op]}]
          /\ clk' = [clk EXCEPT ![n] = at]
    /\ UNCHANGED <<held, balance, cursor, session, now, failures, net>>

\* Append: check, insert and project in one transaction.
AppendRecord(n) == \E c \in pending[n] :
    /\ ~Locked(n)
    /\ Check(n, c.op)
    /\ held' = [held EXCEPT ![n] = @ \cup
          {[author |-> n, seq |-> NextSeq(n), at |-> c.at, op |-> c.op]}]
    /\ balance' = [balance EXCEPT ![n] = Apply(@, c.op)]
    /\ clk' = [clk EXCEPT ![n] = Observe(n, c.at)]
    /\ pending' = [pending EXCEPT ![n] = {}]
    /\ UNCHANGED <<cursor, session, now, failures, net>>

\* The command is refused, or its transaction fails, perhaps after Project.
Refuse(n) == \E c \in pending[n] :
    /\ ~Locked(n)
    /\ failures < net.faults
    /\ failures' = failures + 1
    /\ \/ UNCHANGED clk
       \/ Check(n, c.op) /\ clk' = [clk EXCEPT ![n] = Observe(n, c.at)]
    /\ pending' = [pending EXCEPT ![n] = {}]
    /\ UNCHANGED <<held, balance, cursor, session, now, net>>

Tick ==
    /\ now < net.ticks
    /\ now' = now + 1
    /\ UNCHANGED <<held, balance, clk, pending, cursor, session, failures, net>>

-----------------------------------------------------------------------------
(* The exchange *)

Set(x, s) == session' = [session EXCEPT ![x] = {s}]
Close(x) == session' = [session EXCEPT ![x] = {}]
LogFrame == UNCHANGED <<held, balance, clk, pending>>

\* A client runs one exchange at a time, but the responder of an exchange it gave up
\* may still be busy with the frames it had received.
Dial(l) ==
    LET free == {x \in Sessions : session[x] = {}}
        running == {x \in Sessions : \E s \in session[x] :
                       s.link = l /\ ~(s.broken /\ s.pusher = l[1])}
    IN /\ l \in net.links
       /\ free # {}
       /\ running = {}
       /\ Set(CHOOSE x \in free : TRUE,
              [link |-> l, pusher |-> l[2], pc |-> "hello",
               vv |-> [s \in Sites |-> IF s = l[1] THEN Version(s) ELSE Nothing],
               snapshot |-> Nothing, frames |-> <<>>, broken |-> FALSE])
       /\ LogFrame /\ UNCHANGED <<cursor, now, failures, net>>

\* The responder answers the Hello with its own.
Hello(x) == \E s \in session[x] :
    /\ s.pc = "hello"
    /\ Set(x, [s EXCEPT !.pc = "snapshot", !.vv[s.pusher] = Version(s.pusher)])
    /\ LogFrame /\ UNCHANGED <<cursor, now, failures, net>>

\* pushAndAck takes the version it will acknowledge ...
Snapshot(x) == \E s \in session[x] :
    /\ s.pc = "snapshot"
    /\ Set(x, [s EXCEPT !.pc = "collect", !.snapshot = Version(s.pusher)])
    /\ LogFrame /\ UNCHANGED <<cursor, now, failures, net>>

Batches(recs) ==
    [i \in 1..((Len(recs) + BatchSize - 1) \div BatchSize) |->
        SubSeq(recs, (i - 1) * BatchSize + 1,
               IF i * BatchSize < Len(recs) THEN i * BatchSize ELSE Len(recs))]

\* ... before it reads what to send; anything above that version stays behind.
Missing(s) ==
    Sorted({r \in Since(s.pusher, s.vv[Draining(s)]) : r.seq <= s.snapshot[r.author]})

\* The responder forgets what it acknowledged, the client keeps it for its cursor.
Collect(x) == \E s \in session[x] :
    /\ s.pc = "collect"
    /\ Set(x, [s EXCEPT !.pc = "drain", !.frames = Batches(Missing(s)),
                        !.vv[Draining(s)] = Nothing,
                        !.snapshot = IF s.pusher = s.link[1] THEN @ ELSE Nothing])
    /\ LogFrame /\ UNCHANGED <<cursor, now, failures, net>>

\* ValidatePeerRecord: a batch that brings a site its own records ends the exchange.
Valid(batch, site) == \A i \in DOMAIN batch : batch[i].author # site

Receive(x) == \E s \in session[x] :
    /\ s.pc = "drain" /\ s.frames # <<>>
    /\ IF Valid(Head(s.frames), Draining(s))
       THEN ~Locked(Draining(s)) /\ Set(x, [s EXCEPT !.pc = "merge"])
       ELSE Close(x)
    /\ LogFrame /\ UNCHANGED <<cursor, now, failures, net>>

\* Mutant of Stored: the insert that was ignored counts as one that took place.
NeverStored(s, r) == FALSE

\* A record with the same author and number is there already.
Stored(s, r) == \E q \in held[s] : q.author = r.author /\ q.seq = r.seq

\* The batch without the record that was taken up.
Taken(s) ==
    LET last == Len(Head(s.frames)) = 1
    IN [s EXCEPT !.pc = IF last THEN "drain" ELSE "merge",
                 !.frames = (IF last THEN <<>> ELSE <<Tail(Head(s.frames))>>) \o Tail(@)]

\* Store.mergeOne: insert or ignore, and project only what is new.
MergeAtNode(site, r) ==
    IF Stored(site, r)
    THEN LogFrame
    ELSE /\ held' = [held EXCEPT ![site] = @ \cup {r}]
         /\ balance' = [balance EXCEPT ![site] = Apply(@, r.op)]
         /\ clk' = [clk EXCEPT ![site] = Observe(site, r.at)]
         /\ UNCHANGED pending

\* PGStore.mergeOne: the same, and nothing to project.
MergeAtCentral(r) ==
    /\ held' = IF Stored(Central, r) THEN held ELSE [held EXCEPT ![Central] = @ \cup {r}]
    /\ UNCHANGED <<balance, clk, pending>>

\* One record of a batch, in its own transaction.
Merge(x) == \E s \in session[x] :
    /\ s.pc = "merge"
    /\ Set(x, Taken(s))
    /\ LET r == Head(Head(s.frames))
       IN IF Draining(s) = Central THEN MergeAtCentral(r) ELSE MergeAtNode(Draining(s), r)
    /\ UNCHANGED <<cursor, now, failures, net>>

\* The Ack: the initiator pushes in its turn; the responder's status ends the exchange.
Ack(x) == \E s \in session[x] :
    /\ s.pc = "drain" /\ s.frames = <<>> /\ ~s.broken
    /\ Set(x, IF s.pusher = s.link[2]
              THEN [s EXCEPT !.pc = "snapshot", !.pusher = s.link[1]]
              ELSE [s EXCEPT !.pc = "status"])
    /\ LogFrame /\ UNCHANGED <<cursor, now, failures, net>>

\* Mutant of Finish: the client moves its cursor once it has sent everything.
FinishOnceSent(x) == \E s \in session[x] :
    /\ s.pc = "status" \/ (s.pc = "drain" /\ s.pusher = s.link[1] /\ ~s.broken)
    /\ cursor' = [cursor EXCEPT ![s.link] = s.snapshot[s.link[1]]]
    /\ Close(x)
    /\ LogFrame /\ UNCHANGED <<now, failures, net>>

\* Once it has the responder's status the client moves its cursor.
Finish(x) == \E s \in session[x] :
    /\ s.pc = "status"
    /\ cursor' = [cursor EXCEPT ![s.link] = s.snapshot[s.link[1]]]
    /\ Close(x)
    /\ LogFrame /\ UNCHANGED <<now, failures, net>>

\* The party left behind fails too, after some of the frames it had been sent.
Drop(x) == \E s \in session[x] :
    /\ s.broken
    /\ Close(x)
    /\ LogFrame /\ UNCHANGED <<cursor, now, failures, net>>

-----------------------------------------------------------------------------
(* Failures *)

\* What is left of a session once site has failed: its peer's drain of what it sent.
Remains(s, site) ==
    IF s.pusher # site THEN {}
    ELSE IF s.pc \in {"drain", "merge"} THEN {[s EXCEPT !.broken = TRUE, !.vv = [p \in Sites |-> Nothing],
                        !.snapshot = Nothing]}
    ELSE {}

\* What the node may have observed of the record whose transaction fails.
Projected(s, site) ==
    IF s.pc = "merge" /\ site = Draining(s) /\ site \in Nodes
    THEN LET r == Head(Head(s.frames)) IN IF Stored(site, r) THEN {} ELSE {r.at}
    ELSE {}

\* A stream, a query or the transaction of a merge fails at one of the parties.
Fail(x) == \E s \in session[x] :
    /\ failures < net.faults
    /\ failures' = failures + 1
    /\ \E site \in {s.link[1], s.link[2]} :
          /\ s.broken => site # s.pusher
          /\ session' = [session EXCEPT ![x] = Remains(s, site)]
          /\ clk' \in {clk} \cup
                {[clk EXCEPT ![site] = Observe(site, at)] : at \in Projected(s, site)}
    /\ UNCHANGED <<held, balance, pending, cursor, now, net>>

\* NewInventory replays the log into new balances, and starts a new clock.  Opening the
\* log takes its time: the wall clock has moved on.
Restart(n) ==
    /\ failures < net.faults
    /\ failures' = failures + 1
    /\ now' = now + 1
    /\ balance' = [balance EXCEPT ![n] = Fold(held[n])]
    /\ clk' = [clk EXCEPT ![n] = [wall |-> 0, logical |-> 0]]
    /\ session' = [x \in Sessions |->
          UNION {IF n \in {s.link[1], s.link[2]} THEN Remains(s, n) ELSE {s}
                   : s \in session[x]}]
    /\ pending' = [pending EXCEPT ![n] = {}]
    /\ UNCHANGED <<held, cursor, net>>

-----------------------------------------------------------------------------
Step(x) == Hello(x) \/ Snapshot(x) \/ Collect(x) \/ Receive(x) \/ Merge(x)
           \/ Ack(x) \/ Finish(x) \/ Drop(x)

Next ==
    \/ Tick
    \/ \E n \in Nodes : StampCommand(n) \/ AppendRecord(n) \/ Refuse(n) \/ Restart(n)
    \/ \E l \in Links : Dial(l)
    \/ \E x \in Sessions : Step(x) \/ Fail(x)

Spec == Init /\ [][Next]_vars

\* Client.Run dials again at every interval for as long as the process runs, and a
\* party that can take a step of its exchange takes it.
FairSpec ==
    /\ Spec
    /\ \A l \in Links : WF_vars(Dial(l))
    /\ \A x \in Sessions : WF_vars(Step(x))
=============================================================================
