------------------------------- MODULE LabSync -------------------------------
(***************************************************************************)
(* eventlog-lab, frame by frame: a session's client and the goroutine that   *)
(* serves it, the pipe between them, the single connection each has to its   *)
(* database, and the harness that injects faults into the pipe; or, instead  *)
(* of the harness, two processes that sync with each other over gRPC.        *)
(*                                                                          *)
(* Snapshots and compaction are CompactingLog's.  A frame of events carries  *)
(* one (a batch size of 1).                                                 *)
(***************************************************************************)
EXTENDS Integers, SequencesExt

CONSTANTS
    Nodes,          \* ids, from 1; a link is a pair of nodes
    Sessions,       \* slots for sessions whose server still runs
    Setups,         \* transport, faults, order of the nodes, operations per node, those
                    \* performed offline before, window of a stream, and a bound on the
                    \* sessions that take too long, or break, for no such reason
    MaxFired,       \* bound on the faults that are scheduled
    MaxInjected,    \* bound on the frames duplicated or held back
    MaxRounds       \* bound on the rounds of sessions before the last operation

ASSUME LabAssumption ==
    /\ IsFiniteSet(Nodes) /\ Nodes = 1..Cardinality(Nodes)
    /\ IsFiniteSet(Sessions) /\ Sessions # {} /\ Sessions \subseteq Nat
    /\ \A u \in Setups :
          /\ u.transport \in {"memory", "grpc"}
          /\ u.faults \subseteq {"partition", "asym", "dup", "reorder", "crash"}
          /\ u.transport = "grpc" => u.faults = {}
          /\ u.order \in [1..Cardinality(Nodes) -> Nodes] /\ IsInjective(u.order)
          /\ {u.ops, u.offline} \subseteq [Nodes -> Nat]
          /\ u.window \in Nat \ {0} /\ u.slow \in Nat
    /\ {MaxFired, MaxInjected, MaxRounds} \subseteq Nat

VARIABLES
    setup,
    log,        \* node |-> the events it holds
    ops,        \* node |-> operations it still has to perform
    stage,      \* of the harness: "ops", "quiesce", "done"; "up" if there is none
    turns,      \* of the harness: the sessions of the round that are still to come
    rounds,
    blocked,    \* of the injector: links whose frames are dropped
    prior,      \* link |-> the last frame of events sent along it, if any
    held,       \* link |-> the frame held back, if any
    armed,      \* nodes whose next append crashes
    client,     \* node |-> its SyncOnce
    server,     \* slot |-> the goroutine in Server.Session
    pipe,       \* slot |-> its frames under way, and whether the client closed or cancelled it
    fired, injected, slow

injector == <<blocked, prior, held, injected>>
harness == <<stage, turns, rounds, armed, fired>>
vars == <<setup, log, ops, harness, injector, client, server, pipe, slow>>

Links == {l \in Nodes \X Nodes : l[1] # l[2]}
Event == [node : Nodes, seq : Nat \ {0}]
Vector == [Nodes -> Nat]
Zero == [n \in Nodes |-> 0]

\* A client frame or a server frame.
Frame == [side : {"client", "server"}, kind : {"hello", "welcome", "events", "ack"},
          vv : Vector, event : SUBSET Event]
Say(side, kind, vv) == [side |-> side, kind |-> kind, vv |-> vv, event |-> {}]
Carry(side, e) == [side |-> side, kind |-> "events", vv |-> Zero, event |-> {e}]

\* The local variables of a party: where it stands, the vector its peer announced, the rows
\* it has still to stream and the frames that it has still to hand over.
NoClient == [pc |-> "idle", slot |-> 0, to |-> 0, mine |-> Zero, vv |-> Zero,
             rest |-> <<>>, out |-> <<>>]
NoServer == [pc |-> "ended", err |-> FALSE, at |-> 0, peer |-> 0, vv |-> Zero,
             rest |-> <<>>, out |-> <<>>]
NoPipe == [toServer |-> <<>>, toClient |-> <<>>, closed |-> FALSE, cancelled |-> FALSE]

TypeOK ==
    /\ setup \in Setups
    /\ \A n \in Nodes : log[n] \subseteq Event
    /\ ops \in [Nodes -> Nat]
    /\ stage \in {"ops", "quiesce", "done", "up"}
    /\ \A t \in ToSet(turns) : t \in Links
    /\ blocked \subseteq Links /\ armed \subseteq Nodes
    /\ \A l \in Links : \A f \in ToSet(prior[l]) \cup ToSet(held[l]) :
          f \in Frame /\ f.kind = "events"
    /\ \A n \in Nodes :
          /\ client[n].pc \in {"idle", "welcome", "down", "stream", "close", "wait"}
          /\ client[n].pc # "idle" => client[n].slot \in Sessions
    /\ \A s \in Sessions :
          /\ server[s].pc \in {"hello", "since", "stream", "up", "ended"}
          /\ \A f \in ToSet(pipe[s].toServer) : f \in Frame /\ f.side = "client"
          /\ \A f \in ToSet(pipe[s].toClient) : f \in Frame /\ f.side = "server"
    /\ rounds \in 0..MaxRounds /\ fired \in 0..MaxFired
    /\ injected \in 0..MaxInjected /\ slow \in 0..setup.slow

Init ==
    /\ setup \in Setups
    /\ log = [n \in Nodes |-> {[node |-> n, seq |-> i] : i \in 1..setup.offline[n]}]
    /\ ops = setup.ops
    /\ stage = IF setup.transport = "memory" THEN "ops" ELSE "up"
    /\ turns = <<>> /\ rounds = 0
    /\ blocked = {} /\ armed = {}
    /\ prior = [l \in Links |-> <<>>] /\ held = [l \in Links |-> <<>>]
    /\ client = [n \in Nodes |-> NoClient]
    /\ server = [s \in Sessions |-> NoServer]
    /\ pipe = [s \in Sessions |-> NoPipe]
    /\ fired = 0 /\ injected = 0 /\ slow = 0

-----------------------------------------------------------------------------
(* The log *)

\* The gap-free run of each author.
VersionVector(n) == [a \in Nodes |->
    CHOOSE k \in 0..Cardinality(log[n]) :
        /\ \A i \in 1..k : [node |-> a, seq |-> i] \in log[n]
        /\ [node |-> a, seq |-> k + 1] \notin log[n]]

Since(n, vv) == {e \in log[n] : e.seq > vv[e.node]}

\* Stamp order: that of its numbers for an author, anything between authors.
Ordered(S) == {q \in SetToSeqs(S) : \A i, j \in DOMAIN q :
                  i < j /\ q[i].node = q[j].node => q[i].seq < q[j].seq}

\* streamEvents sends from within the iteration over its rows, and the rows hold the only
\* connection to the database.
Iterating(p) == p.pc = "stream" /\ (p.rest # <<>> \/ p.out # <<>>)
Free(n) ==
    /\ ~ Iterating(client[n])
    /\ \A s \in Sessions : server[s].at = n => ~ Iterating(server[s])

-----------------------------------------------------------------------------
(* The injector *)

\* Links that drop their frames from now on.
Partition(a, b) == blocked \cup {<<a, b>>, <<b, a>>}
PartitionOneWay(from, to) == blocked \cup {<<from, to>>}

isEvents(f) == f.kind = "events"

\* Mutant of Copies: the earlier frame is sent instead.
Instead(l, f) ==
    {<<f>>} \cup
    (IF "dup" \in setup.faults /\ isEvents(f) /\ injected < MaxInjected
     THEN {prior[l]} ELSE {})

\* A frame of events may be followed by the one before it on the link.
Copies(l, f) ==
    {<<f>>} \cup
    (IF "dup" \in setup.faults /\ isEvents(f) /\ injected < MaxInjected
     THEN {<<f>> \o prior[l]} ELSE {})

\* What becomes of a frame that is sent along a link: one of events may also be held back,
\* and one held back follows whatever comes next.
Filter(l, f) ==
    LET sent(q) == [outs |-> q \o held[l],
                    prior |-> [prior EXCEPT ![l] = IF isEvents(f) THEN <<f>> ELSE @],
                    held |-> [held EXCEPT ![l] = <<>>],
                    injected |-> injected + IF q = <<f>> THEN 0 ELSE 1]
    IN IF l \in blocked
       THEN {[outs |-> <<>>, prior |-> prior, held |-> held, injected |-> injected]}
       ELSE {sent(q) : q \in Copies(l, f)} \cup
            (IF "reorder" \in setup.faults /\ isEvents(f) /\ held[l] = <<>> /\ injected < MaxInjected
             THEN {[sent(<<>>) EXCEPT !.held = [@ EXCEPT ![l] = <<f>>]]} ELSE {})

Filtered(o) == prior' = o.prior /\ held' = o.held /\ injected' = o.injected

-----------------------------------------------------------------------------
(* The transport *)

Full(queue) == setup.transport = "grpc" /\ Len(queue) >= setup.window
Cancelled(s) == pipe[s].cancelled
Ended(s) == server[s].pc = "ended"

\* Mutant of HandOver: the type of the frame is not looked at.
HandAny(queue, out, side) == out # <<>> /\ ~ Full(queue)

\* The next frame of out can be put into the pipe.
HandOver(queue, out, side) == out # <<>> /\ Head(out).side = side /\ ~ Full(queue)

\* memClientSide.Send, memServerSide.Send: one of the frames that the filter made of one.
ClientSends(c) ==
    LET x == client[c] IN
    /\ x.pc # "idle" /\ HandOver(pipe[x.slot].toServer, x.out, "client")
    /\ pipe' = [pipe EXCEPT ![x.slot].toServer = Append(@, Head(x.out))]
    /\ client' = [client EXCEPT ![c].out = Tail(@)]
    /\ UNCHANGED <<setup, log, ops, harness, injector, server, slow>>

ServerSends(s) ==
    /\ ~ Ended(s) /\ HandOver(pipe[s].toClient, server[s].out, "server")
    /\ pipe' = [pipe EXCEPT ![s].toClient = Append(@, Head(server[s].out))]
    /\ server' = [server EXCEPT ![s].out = Tail(@)]
    /\ UNCHANGED <<setup, log, ops, harness, injector, client, slow>>

-----------------------------------------------------------------------------
(* SyncOnce *)

Idle(n) == client[n].pc = "idle"
Unused == {s \in Sessions : Ended(s) /\ \A n \in Nodes : Idle(n) \/ client[n].slot # s}

\* The harness syncs one pair after the other; a process syncs when its ticker says so.
Turn(c, t) ==
    IF setup.transport = "memory"
    THEN /\ turns # <<>> /\ Head(turns) = <<c, t>> /\ \A n \in Nodes : Idle(n)
         /\ turns' = Tail(turns)
    ELSE UNCHANGED turns

\* A pipe, and a goroutine in Session at its other end.
Connect(c, t, s) ==
    /\ server' = [server EXCEPT ![s] = [NoServer EXCEPT !.pc = "hello", !.at = t, !.peer = c]]
    /\ pipe' = [pipe EXCEPT ![s] = NoPipe]

\* SyncOnce up to the Hello, whose frame goes through the filter.
Dial(c, t) ==
    /\ <<c, t>> \in Links /\ Idle(c) /\ Free(c) /\ Unused # {}
    /\ Turn(c, t)
    /\ LET s == Min(Unused)
           mine == VersionVector(c)
       IN \E o \in Filter(<<c, t>>, Say("client", "hello", mine)) :
             /\ Filtered(o)
             /\ client' = [client EXCEPT ![c] = [NoClient EXCEPT
                   !.pc = "welcome", !.slot = s, !.to = t, !.mine = mine, !.out = o.outs]]
             /\ Connect(c, t, s)
    /\ UNCHANGED <<setup, log, ops, stage, rounds, armed, fired, blocked, slow>>

\* A client that reads from its pipe, and the frame that comes next.
Reads(c, pc) == client[c].pc = pc /\ client[c].out = <<>>
FromServer(c) == pipe[client[c].slot].toClient
Taken(c) == [pipe EXCEPT ![client[c].slot].toClient = Tail(@)]

\* consume: the Welcome.
Welcomed(c) ==
    /\ Reads(c, "welcome") /\ FromServer(c) # <<>> /\ Head(FromServer(c)).kind = "welcome"
    /\ client' = [client EXCEPT ![c].pc = "down", ![c].vv = Head(FromServer(c)).vv]
    /\ pipe' = Taken(c)
    /\ UNCHANGED <<setup, log, ops, harness, injector, server, slow>>

\* consume: a frame of events, which Merge takes up whatever came before it.
ClientMerges(c) ==
    /\ Reads(c, "down") /\ FromServer(c) # <<>> /\ Head(FromServer(c)).kind = "events"
    /\ ~ Cancelled(client[c].slot) /\ Free(c)
    /\ log' = [log EXCEPT ![c] = @ \cup Head(FromServer(c)).event]
    /\ pipe' = Taken(c)
    /\ UNCHANGED <<setup, ops, harness, injector, client, server, slow>>

\* The peer's Ack ends consume, and streamEvents queries what the Welcome lacked.
Acked(c) ==
    /\ Reads(c, "down") /\ FromServer(c) # <<>> /\ Head(FromServer(c)).kind = "ack"
    /\ ~ Cancelled(client[c].slot) /\ Free(c)
    /\ \E q \in Ordered(Since(c, client[c].vv)) :
          client' = [client EXCEPT ![c].pc = "stream", ![c].rest = q]
    /\ pipe' = Taken(c)
    /\ UNCHANGED <<setup, log, ops, harness, injector, server, slow>>

\* streamEvents: the next frame.
ClientStreams(c) ==
    /\ Reads(c, "stream") /\ client[c].rest # <<>>
    /\ \E o \in Filter(<<c, client[c].to>>, Carry("client", Head(client[c].rest))) :
          /\ Filtered(o)
          /\ client' = [client EXCEPT ![c].rest = Tail(@), ![c].out = o.outs]
    /\ UNCHANGED <<setup, log, ops, harness, blocked, server, pipe, slow>>

\* The client's Ack, with the vector it has by now.
ClientAcks(c) ==
    /\ Reads(c, "stream") /\ client[c].rest = <<>>
    /\ ~ Cancelled(client[c].slot) /\ Free(c)
    /\ \E o \in Filter(<<c, client[c].to>>, Say("client", "ack", VersionVector(c))) :
          /\ Filtered(o)
          /\ client' = [client EXCEPT ![c].pc = "close", ![c].out = o.outs]
    /\ UNCHANGED <<setup, log, ops, harness, blocked, server, pipe, slow>>

\* CloseSend, which waits for the server to return.
CloseSend(c) ==
    /\ Reads(c, "close")
    /\ client' = [client EXCEPT ![c].pc = "wait"]
    /\ pipe' = [pipe EXCEPT ![client[c].slot].closed = TRUE]
    /\ UNCHANGED <<setup, log, ops, harness, injector, server, slow>>

\* Mutant of Cancel: an abandoned session is not closed.
LeaveOpen(c) == UNCHANGED pipe

\* The deferred Close, and the cancel of SyncPair's context.
Cancel(c) == pipe' = [pipe EXCEPT ![client[c].slot].cancelled = TRUE]

\* SyncOnce returns without an error.
Succeeds(c) ==
    LET x == client[c] IN x.pc = "wait" /\ Ended(x.slot) /\ ~ server[x.slot].err /\ ~ Cancelled(x.slot)

Finish(c) ==
    /\ Succeeds(c) /\ Free(c)
    /\ Cancel(c)
    /\ client' = [client EXCEPT ![c] = NoClient]
    /\ UNCHANGED <<setup, log, ops, harness, injector, server, slow>>

\* SyncOnce returns an error: the context is done, the server is gone or has failed, or the
\* filter, or the peer, came up with a frame that does not belong there.
GiveUp(c) ==
    /\ ~ Idle(c)
    /\ LET x == client[c]
           s == x.slot
       IN \/ Cancelled(s) /\ (x.pc = "wait" => Ended(s))
          \/ x.out # <<>> /\ (Head(x.out).side # "client" \/ Ended(s))
          \/ x.out = <<>> /\ x.pc \in {"welcome", "down"} /\ FromServer(c) = <<>> /\ Ended(s)
          \/ Reads(c, "welcome") /\ FromServer(c) # <<>> /\ Head(FromServer(c)).kind # "welcome"
          \/ Reads(c, "down") /\ FromServer(c) # <<>> /\ Head(FromServer(c)).kind = "welcome"
          \/ x.pc = "wait" /\ Ended(s) /\ server[s].err
    /\ Cancel(c)
    /\ client' = [client EXCEPT ![c] = NoClient]
    /\ UNCHANGED <<setup, log, ops, harness, injector, server, slow>>

-----------------------------------------------------------------------------
(* Session *)

Listens(s, pc) == server[s].pc = pc /\ server[s].out = <<>>
FromClient(s) == pipe[s].toServer
Received(s) == pipe' = [pipe EXCEPT ![s].toServer = Tail(@)]
Link(s) == <<server[s].at, server[s].peer>>

\* recvHello, and the Welcome with the server's vector.
Greet(s) ==
    /\ Listens(s, "hello") /\ FromClient(s) # <<>> /\ Head(FromClient(s)).kind = "hello"
    /\ ~ Cancelled(s) /\ Free(server[s].at)
    /\ \E o \in Filter(Link(s), Say("server", "welcome", VersionVector(server[s].at))) :
          /\ Filtered(o)
          /\ server' = [server EXCEPT ![s].pc = "since", ![s].vv = Head(FromClient(s)).vv,
                                      ![s].out = o.outs]
    /\ Received(s)
    /\ UNCHANGED <<setup, log, ops, harness, blocked, client, slow>>

\* streamEvents: the query.
Collect(s) ==
    /\ Listens(s, "since") /\ ~ Cancelled(s) /\ Free(server[s].at)
    /\ \E q \in Ordered(Since(server[s].at, server[s].vv)) :
          server' = [server EXCEPT ![s].pc = "stream", ![s].rest = q]
    /\ UNCHANGED <<setup, log, ops, harness, injector, client, pipe, slow>>

\* streamEvents: the next frame.
ServerStreams(s) ==
    /\ Listens(s, "stream") /\ server[s].rest # <<>>
    /\ \E o \in Filter(Link(s), Carry("server", Head(server[s].rest))) :
          /\ Filtered(o)
          /\ server' = [server EXCEPT ![s].rest = Tail(@), ![s].out = o.outs]
    /\ UNCHANGED <<setup, log, ops, harness, blocked, client, pipe, slow>>

\* The server's Ack.
ServerAcks(s) ==
    /\ Listens(s, "stream") /\ server[s].rest = <<>>
    /\ \E o \in Filter(Link(s), Say("server", "ack", Zero)) :
          /\ Filtered(o)
          /\ server' = [server EXCEPT ![s].pc = "up", ![s].out = o.outs]
    /\ UNCHANGED <<setup, log, ops, harness, blocked, client, pipe, slow>>

\* consume: a frame of events.
ServerMerges(s) ==
    /\ Listens(s, "up") /\ FromClient(s) # <<>> /\ Head(FromClient(s)).kind = "events"
    /\ ~ Cancelled(s) /\ Free(server[s].at)
    /\ log' = [log EXCEPT ![server[s].at] = @ \cup Head(FromClient(s)).event]
    /\ Received(s)
    /\ UNCHANGED <<setup, ops, harness, injector, client, server, slow>>

\* consume ends with the client's Ack, or the end of the stream.
ServerReturns(s) ==
    /\ Listens(s, "up")
    /\ \/ /\ FromClient(s) # <<>> /\ Head(FromClient(s)).kind = "ack"
          /\ ~ Cancelled(s) /\ Free(server[s].at)
       \/ FromClient(s) = <<>> /\ pipe[s].closed
    /\ server' = [server EXCEPT ![s] = NoServer]
    /\ UNCHANGED <<setup, log, ops, harness, injector, client, pipe, slow>>

\* The context is done, or a frame is not what is expected.
ServerFails(s) ==
    /\ ~ Ended(s)
    /\ \/ Cancelled(s)
       \/ server[s].out # <<>> /\ Head(server[s].out).side # "server"
       \/ Listens(s, "hello") /\ FromClient(s) # <<>> /\ Head(FromClient(s)).kind # "hello"
       \/ Listens(s, "hello") /\ FromClient(s) = <<>> /\ pipe[s].closed
       \/ Listens(s, "up") /\ FromClient(s) # <<>> /\ Head(FromClient(s)).kind = "hello"
    /\ server' = [server EXCEPT ![s] = [NoServer EXCEPT !.err = TRUE]]
    /\ UNCHANGED <<setup, log, ops, harness, injector, client, pipe, slow>>

-----------------------------------------------------------------------------
(* The harness *)

\* Nothing runs but what was abandoned.
Between == setup.transport = "memory" /\ turns = <<>> /\ \A n \in Nodes : Idle(n)

\* Every node dials every other, the slow one after the rest.
Mesh ==
    LET to(c) == [i \in 1..(Cardinality(Nodes) - 1) |-> <<c, IF i < c THEN i ELSE i + 1>>]
    IN FlattenSeq([i \in DOMAIN setup.order |-> to(setup.order[i])])

Arm(n) == armed' = armed \cup {n}

\* An append, in one transaction, or the crash of the process in its middle: the log is
\* opened again.
AppendLocal(n) ==
    \/ /\ n \notin armed
       /\ log' = [log EXCEPT ![n] = @ \cup {[node |-> n, seq |-> 1 + VersionVector(n)[n]]}]
       /\ UNCHANGED armed
    \/ n \in armed /\ armed' = armed \ {n} /\ UNCHANGED log

\* An operation, acknowledged or not.
Operate(n) ==
    /\ ops[n] > 0 /\ Free(n)
    /\ setup.transport = "memory" => Between /\ stage = "ops"
    /\ ops' = [ops EXCEPT ![n] = @ - 1]
    /\ AppendLocal(n)
    /\ UNCHANGED <<setup, stage, turns, rounds, fired, injector, client, server, pipe, slow>>

\* Run: a round of sessions between two operations.
StartRound ==
    /\ Between /\ stage = "ops" /\ rounds < MaxRounds
    /\ rounds' = rounds + 1 /\ turns' = Mesh
    /\ UNCHANGED <<setup, log, ops, stage, armed, fired, injector, client, server, pipe, slow>>

\* A scheduled fault.
Fire ==
    /\ Between /\ stage = "ops" /\ fired < MaxFired
    /\ fired' = fired + 1
    /\ \/ /\ "partition" \in setup.faults
          /\ \E l \in Links : blocked' = Partition(l[1], l[2])
          /\ UNCHANGED armed
       \/ /\ "asym" \in setup.faults
          /\ \E l \in Links : blocked' = PartitionOneWay(l[1], l[2])
          /\ UNCHANGED armed
       \/ /\ "crash" \in setup.faults
          /\ \E n \in Nodes : Arm(n)
          /\ UNCHANGED blocked
    /\ UNCHANGED <<setup, log, ops, stage, turns, rounds, prior, held, injected,
                   client, server, pipe, slow>>

\* A partition is over before the last operation, or is not.
Heal ==
    /\ Between /\ stage = "ops" /\ blocked # {}
    /\ blocked' = {}
    /\ UNCHANGED <<setup, log, ops, harness, prior, held, injected, client, server, pipe, slow>>

\* The last operation is done: heal, and sync in rounds ...
Quiesce ==
    /\ Between /\ stage = "ops" /\ \A n \in Nodes : ops[n] = 0
    /\ stage' = "quiesce" /\ turns' = Mesh /\ blocked' = {}
    /\ UNCHANGED <<setup, log, ops, rounds, armed, fired, prior, held, injected,
                   client, server, pipe, slow>>

VectorsAgree == \A n, m \in Nodes : VersionVector(n) = VersionVector(m)

\* ... until all vectors agree.
EndRound ==
    /\ Between /\ stage = "quiesce" /\ \A n \in Nodes : Free(n)
    /\ IF VectorsAgree
       THEN stage' = "done" /\ UNCHANGED turns
       ELSE turns' = Mesh /\ UNCHANGED stage
    /\ UNCHANGED <<setup, log, ops, rounds, armed, fired, injector, client, server, pipe, slow>>

Expires(c) == pipe' = [pipe EXCEPT ![client[c].slot].cancelled = TRUE]

\* A session exceeds syncSessionTimeout, because its frames are dropped ...
CutOff(c) == {<<c, client[c].to>>, <<client[c].to, c>>} \cap blocked # {}
Timeout(c) ==
    /\ ~ Idle(c) /\ ~ Cancelled(client[c].slot) /\ CutOff(c)
    /\ Expires(c)
    /\ UNCHANGED <<setup, log, ops, harness, injector, client, server, slow>>

\* ... or the machine is slow; or a connection breaks.
Break(c) ==
    /\ ~ Idle(c) /\ ~ Cancelled(client[c].slot) /\ ~ CutOff(c) /\ slow < setup.slow
    /\ slow' = slow + 1
    /\ Expires(c)
    /\ UNCHANGED <<setup, log, ops, harness, injector, client, server>>

-----------------------------------------------------------------------------
ClientStep(c) ==
    \/ ClientSends(c) \/ Welcomed(c) \/ ClientMerges(c) \/ Acked(c) \/ ClientStreams(c)
    \/ ClientAcks(c) \/ CloseSend(c) \/ Finish(c) \/ GiveUp(c)

ServerStep(s) ==
    \/ ServerSends(s) \/ Greet(s) \/ Collect(s) \/ ServerStreams(s) \/ ServerAcks(s)
    \/ ServerMerges(s) \/ ServerReturns(s) \/ ServerFails(s)

HarnessStep == StartRound \/ Quiesce \/ EndRound

Next ==
    \/ \E c \in Nodes : ClientStep(c) \/ Timeout(c) \/ Break(c) \/ Operate(c)
    \/ \E s \in Sessions : ServerStep(s)
    \/ \E l \in Links : Dial(l[1], l[2])
    \/ HarnessStep \/ Fire \/ Heal

Spec == Init /\ [][Next]_vars

\* Goroutines run, timers expire, the harness goes on, and a process keeps dialling.
FairSpec ==
    /\ Spec
    /\ \A c \in Nodes : WF_vars(ClientStep(c)) /\ WF_vars(Timeout(c))
    /\ \A s \in Sessions : WF_vars(ServerStep(s))
    /\ \A l \in Links : WF_vars(Dial(l[1], l[2]))
    /\ WF_vars(Quiesce \/ EndRound) /\ WF_vars(\E n \in Nodes : Operate(n))
=============================================================================
