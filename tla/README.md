# Verification of local-first-architecture

This repository holds three local-first systems in Go. In each, nodes record
events in their own log while offline and replicate them later. This directory
holds TLA+ models of them, TLC configurations that check the models on small
instances, and proofs that TLAPS checks for every instance.

* `warehouse-node`: warehouses sync with one central server, which arbitrates what
  a warehouse cannot know and compensates what it rejects. **Modelled first**: this
  is where concurrency, failure and retries meet most.
* `localfirst-go`: a library of symmetric two-way log exchange. Modelled.
* `eventlog-lab`: CRDT items over a log that is snapshotted and compacted, and a harness
  that injects faults into its sessions. Modelled.

Line numbers below are those of the source files.

## 1. Inventory

### warehouse-node

| Part | State | Operations | Hard behaviour |
|---|---|---|---|
| Central arbiter (`internal/arbiter`) | none of its own, all in the store | `Arbitrate`: decision lookup, append, five validators, `record`, `fanOut`, compensation, decision | nine or more independent store calls per event; a failure between any two; retries; other sessions in between |
| Central store (`internal/central`) | log, decisions, receipt facts, in-transit rows and markers, queues, cursors, reference data; in Postgres, and in maps for the tests | one SQL statement or critical section per call; `RegisterNode` and `AddReceived` are transactions | nothing spans two calls; `EmitCentral` is one insert per event; `BIGSERIAL` positions; central's sequence and clock are recovered on open |
| Sync server and client (`internal/sync`) | a goroutine per stream; `CursorPushed`, `CursorPulled` at the node, `pushed_seq`, `delivered_ord` at central | `Session`: Hello, Welcome, push batches and acks, then pull batches and one ack; `Run` retries | lost streams, a handler that outlives its client, late acks, duplicated batches |
| Node service (`internal/node`) | event log (SQLite), projections, in-memory `State` | `Execute`, `Ingest`, `Open` | log and projections are separate transactions; state is rebuilt after both; a call may fail, or the process die, between any two |
| Event log, HLC (`internal/eventlog`, `internal/domain/hlc.go`) | rows, next sequence, clock, cursors | `Emit`, `Ingest`, `ReadAll`, `ReadOwnAfter` | sequence and clock recovered on open |
| Projections (`internal/projection`) | four read models, applied markers, version | `Apply`, `CatchUp`, `Rebuild` | rebuild is not one transaction |
| Domain (`internal/domain`) | `State` folded from the log | receipts, transfers, reservations, counts, picks | commands checked against a state that may lag |
| Bootstrap, reports (`cmd/central`) | reference data | `applyBootstrap`, `Discrepancies` | a crash half way through seeding |

A warehouse's command goes through `Execute` into its log. The client's `Session`
sends it to central, whose handler arbitrates it event by event, acknowledges the
batch, then pushes what is queued for the node: compensations of its own events,
item updates and transfer events of other nodes. The node ingests these into its
log and projections and acknowledges a queue position. Sessions share nothing but
the store.

What makes it correct: every acknowledged event has been decided; retries repeat no
effect; central's own books and the compensations account for all that was booked;
orders, notes and transfers keep their bounds; everything queued reaches its node
once, in order; a node's stream never stops for good. At a node: the read models are
what replaying the log gives, and agree with the state that commands are checked
against; its own commands never take more than there is; its events sort after what
they answer. The two stores give the same answers, for the tests run on the one and
deployments on the other.

### localfirst-go

| Part | State | Operations | Hard behaviour |
|---|---|---|---|
| Event store (`eventlog/store.go`) | records, per-peer cursor | `Append`, `Merge`, `Since`, `Version` | version is `MAX(seq)` per author, the exchange is in clock order |
| Session (`sync`) | version vectors of both sides | `Exchange`, `pushAndAck`, `drain`, `SyncOnce` | appends while pushing, death between batches, merge failing after the ack |
| Clock, inventory (`clock`, `domain`) | hybrid clock, balances | `Now`, `Observe`, `Check`, `Project` | the clock is not recovered from the log on restart; a command is stamped before it has the store's lock |
| Central (`central/pgstore.go`) | as the store, in Postgres | the same, and `GlobalSum` | concurrent sessions |

Correct means: whatever is in a version vector is held, without gaps; nodes that
exchange until nothing is new hold the same records; a restart never reorders one
author's records.

### eventlog-lab

| Part | State | Operations | Hard behaviour |
|---|---|---|---|
| Log (`eventlog`) | rows, snapshots, watermarks, cursors | `Append`, `AppendLocal`, `VersionVector`, `Compact` | gap-free prefixes, deletion gated by peers and snapshots |
| Node, projector (`node`, `crdt`) | clock, projections | `emit`, `Merge`, `MaybeSnapshot` | snapshot taken over four transactions, racing `Compact` |
| Sync (`sync`) | version vectors, the pipe of a session | `SyncOnce`, `Session`, `streamEvents` | malformed events are skipped, sessions die, a server outlives its client, both ends stream while each holds its database |
| Harness (`internal/jepsenlite`), `cmd/lab` | the injector's blocked links, prior and held frames; armed crashes | `Run`, `SyncPair`, `Filter`, `Quiesce`; `runNode` | partitions, one-way partitions, duplicates, reordering, crashes after an append; two processes that serve and dial each other |

Correct means: no acknowledged operation is lost by compaction, none is counted
twice, nodes that have the same events agree.

### Not modelled

* Generated protobuf code, command lines, operator APIs, wire codecs, TLS and peer
  identity, demos and `docs/`: no state the properties depend on.
* `applyBootstrap` (cmd/central/main.go:159-192): reference data is a constant of the
  models. It has the hazard listed at line 178: a crash between storing an item and
  queueing it leaves nodes that never hear of it, as the next start finds it stored.
* Lots with their expiry, units of measure, and commands of several lines in
  `NodeService`; the numbers of receipt lines, which only label paperwork.
* eventlog-lab's cursors, which only a warning in the server's log reads, and the
  reporting table that a merge updates at central.
* The harness's limit on the rounds of `Quiesce`, its seeds and its comparison of read
  orders; the `lab` commands that run one operation.
* The task list of `localfirst-go/examples`: a second domain over the engine that
  `Replication` models. Its reducer, unlike that of the inventory, refuses records (a task
  completed twice), so what holds of `Replication` is not claimed of it.

## 2. Modules

```
CentralStore      what central persists, one operator per store call
  Arbiter         sessions and Arbitrate, one action per store call
    ArbiterProperties   what arbitration promises
      MCArbiter         workloads and constants for TLC
    ArbiterProofs       Spec => []TypeOK, []AckedDecided, SettledForGood, []CompensatedOnce
      DecisionProofs      Spec => []DecisionMatchesLog, []TransferFannedOut, []TransitBalanced,
                                  []PartialSetNeverWhole, [](POWithinOrder /\ NoteHonouredOnce)
NodeService       the service of a node: log, read models, state, commands
  NodeProperties        what they owe each other
    MCNode              cases for TLC
    NodeProofs          Spec => []TypeOK, OwnSortsLast and []NeverOverdrawn
Delivery          a FIFO queue whose content takes effect in order (abstract)
Outbound          the queue of one node, push, applyDownstream, the node
  OutboundProperties    its properties and the refinement of Delivery
    MCOutbound          for TLC
    OutboundProofs      Spec => []TypeOK, []NeverSkipped and DeliveryRefined
ReplicatedLog     per author one sequence, learned elsewhere in order (abstract)
Replication       logs, clocks, balances and exchanges of localfirst-go
  ReplicationProperties   its properties and the refinement of ReplicatedLog
    MCReplication         for TLC
    ReplicationProofs     Spec => []TypeOK and all else but convergence
CompactingLog     logs, snapshots, compaction and sessions of eventlog-lab
  CompactingProperties    its properties and the refinement of ReplicatedLog
    MCCompacting          for TLC
    CompactingProofs      Spec => []TypeOK and all else but convergence
LabSync           a session of eventlog-lab frame by frame, and the fault harness
  LabProperties           what a session and the harness promise
    MCLab                 for TLC
    LabProofs             Spec => []TypeOK and []ExchangedBothWays
StoreCalls        the calls of central's store, and the order of what they return
  MemoryStore     the store kept in maps: the specification of what a call does
  PostgresStore   the store kept in tables, statement by statement
    StoreProperties       its properties and the refinement of MemoryStore
      MCStore             workloads for TLC
      StoreProofs         Spec => []TypeOK, CentralSortsLast and MemoryImplemented
HybridClock       Tick and Merge of warehouse-node; NodeService and the stores extend it
```

### CentralStore and Arbiter

A handler is the goroutine that runs `Replicate`, and `session[h]` holds the local
variables of `Replicate`, `receive`, `Arbitrate` and the loops over lines; `pc` says
which store call comes next. Each call is one action, so any other handler may act
in between, and `Fail` may end the session there. `Next` is grouped as the code is:
`ReceiveBatch`, `ReadDecision`, `StoreEvent`; `Validate` (one action per
read of a validator); `Record` (`record` and `fanOut`); `Settle` (compensation and
decision); `StorePushed`, `Ack`.

| Source | Model |
|---|---|
| `Session`, `Replicate` up to Welcome | `Open`, resuming from `Resume(n)`, the lower cursor |
| `receive`, one batch | `ReceiveBatch` (reads `PushedSeq`), `NextEvent`, `StorePushed` |
| `pushBacklog` after a batch | `Ack`, which stores the node's cursor; whether a further batch follows is decided there |
| a store error, a broken stream, a crash of central | `Fail` (a crash is `Fail` of every handler: all else is durable) |
| a client that gives up while its handler runs on | `Detach`, and `Notice` when the handler next uses the stream |
| `EmitCentral` | `Emit`, once per insert; the mutex keeps two apart |

Abstractions. Reference data (item master, orders, node configuration) is constant,
so reading it is merged into the next step. SKU and lot are one; quantities are
natural numbers of the base unit. The receipt facts are insert-only, so their sum
per order line is a variable (`poTotal`). Node identities are numbers to keep their
order, which decides the first of two receipts. Rows of `transit` are never deleted,
so `fanOut`'s read and insert are one step. `outbound[n]` is a set here; its
positions and delivery are the subject of `Outbound`. `CentralStore` keeps of each call
what arbitration can tell apart; the store itself, in both its forms, is the subject of
`MemoryStore` and `PostgresStore`.

`CanRecord` lets a node record an arrival as soon as the dispatch is queued for it.
It omits that a transfer must still be in flight and that a source does not receive
its own transfer, so the workloads respect both. An arrival breaking several rules
meets only the first validator that fires; the workloads leave that case out.

### MemoryStore and PostgresStore

`store.go` is an interface that two types implement: Postgres in deployments, Memory in
the tests of the arbiter and of sync. `MemoryStore` is the abstract specification, an
operator per call over maps; `PostgresStore` is the same calls over the rows of
`schema.sql`, with the constraints (`ON CONFLICT`) that make a retry harmless.
`StoreProperties` maps the rows back to the maps (`Loaded`) and checks that each
statement is a call of Memory or a stutter. A position in Memory's queue is
the number of rows up to it (`Rank`), as `ord` may skip numbers; the rows of a node are
listed by the number of its rows up to each (`InOrder`).

| Source | Model |
|---|---|
| a call of one statement | one action; a failed statement leaves everything |
| `AddReceived` | `MarkReceived` inserts the marker, `AddToRow` adds and commits; `Rollback` undoes the first |
| `RegisterNode` | upsert, refusals one by one, `CommitRegistration`; `Rollback` |
| `EmitCentral` | one insert per event; a failure leaves the reading and the number as taken |
| `OpenPostgres`, `recoverCentral` | `Restart`: sequence and clock of central's own rows |

Callers take turns: what concurrent callers do to each other is in `Arbiter` and
`Outbound`, whose steps are these calls. A transaction is still several steps, so that
it can fail in the middle. The database orders text by its bytes, as Go does: with another
collation `ORDER BY node_id` would differ from `less`. Memory has no restart; its counterpart
is a step that keeps the maps (`Reopened`). Times of transfers are stored to the
microsecond and their order is modelled, not their digits.

### NodeService

The service's mutex serves one call at a time, but a call is a transaction on the log, one
per event on the read models, and a replay into memory. `pc` says how far it has come.

| Source | Model |
|---|---|
| `Open`: `recover`, `projection.Open`, `rebuildState` | `Open`, then `Clear` (a table at a time) if the version differs, `ApplyNext` for `CatchUp`, `Opened` |
| `Execute`: the command, `Emit` | `Execute`: `Do` against `State(memory)`, `Sealed`, one transaction |
| `Log.Ingest` of a batch from central | `Ingest`; `Pull` may repeat the envelope before the cursor |
| `Service.apply` | `ApplyNext` per event, `Return` with `rebuildState`, or `FailApply` |
| the process dies, or an opening call fails | `Crash`: the log, the read models and their version are left |
| `State.Apply`, `Set.Apply` | `Apply`, `Project` |
| the arbiter's rejections and forwarding | `Reject`, `Forward`, `ForwardArrival` |

A read model is a function of its keys, so rows pruned at zero are zeroes. `memory` is the
set of events the state was built from: `State` is always a replay in clock order
(`rebuildState`), so the state itself needs no variable. Times are compared as text
(`touchKey`), which puts a whole second behind its own fractions; `TextOrder` does that.
`lost` keeps the events of commands that were recorded and reported failed, for the
properties. A reading `<<wall, counter>>` is one number, and `Counters` = 2 makes the
counter of a millisecond overflow into the wall time in ordinary behaviours.

### Outbound

One node's queue. `Draw` and `Commit` split an insert because `ord` is drawn from a
sequence outside the transaction; with one writer the split is invisible, and the
in-memory store is that case. `ReadCursor`, `ReadPage` and `SendChunk` are `push`;
a chunk may end anywhere, which covers every cut `Chunk` makes by size; after the
last chunk of a page `Above` is read again, as the code does. `ReceiveAck` and
`StoreDelivered` are the end of `Replicate`: an older session's acknowledgement may
be stored after a newer one's. The client's steps are those of `applyDownstream`;
`Ingest` is one transaction of the log, `Apply` one of the projections per envelope,
and a crash or an error may come between. `Restart` is a crash and the next `Open`
with its `CatchUp`, in one step because the node serves nothing until it is done.

### Replication

`Exchange` is one function run by two parties in turn: the responder pushes while the
initiator drains, then the roles swap. Nothing the waiting party does in between
changes anything, so a session is one sequential program: `pusher` says whose turn it
is and `pc` what comes next. What other sessions and commands may do between two steps
is the point: `Version` and `Since` are separate reads (`Snapshot`, `Collect`), and a
batch is merged record by record, each in its own transaction.

| Source | Model |
|---|---|
| `Inventory.append` | `StampCommand` (`clk.Now()` is evaluated before `store.Append` takes its lock), then `AppendRecord` or `Refuse`; `pending` is the holder of `appendMu` |
| `Check`, `insert`, `Project`, commit | one action, one transaction |
| `SyncOnce` | `Dial`, the steps of the exchange, `Finish` once the responder's status is in |
| `sendHello`, `pushAndAck` | `Dial` and `Hello`; `Snapshot`, `Collect` |
| `drain`, `Merge` | `Receive` takes a batch and the store's lock, `Merge` one record; an empty frame queue is the `Ack` |
| a party fails, or the stream does | `Fail`; if the pusher goes, the other may still take frames it had received (`broken`) and then fails as well (`Drop`) |
| `NewInventory` on a new process | `Restart`: balances folded from the log, a clock that has seen nothing |

`Locked` is the SQLite store's mutex, which a batch holds throughout. Central's Postgres
store has none and projects nothing: batches of two exchanges are merged into it record by
record, in any interleaving. `GlobalSum` folds what it holds. `nextSeq` is not a variable: it is the highest own
number held, by `Append` and `Open`. `Fold` counts, because balances are sums and the order of a replay does
not matter to them. Values a session no longer reads are reset. `Valid` rejects a
batch with the receiver's own records; no topology the binaries set up sends one, and
in the checked instances none does.

### CompactingLog

`rows` is the events table, `mark` its watermarks, `snap` the snapshots. The state of an
item is the bag of the events folded into it: any double or missing fold shows, whatever
the CRDT. `Emit` and `Merge` store an event and take a snapshot, as `emit` and
`Node.Merge` do; with a slot the snapshot is only folded, and `SaveSnapshot` stores it
later, so that two can be under way at once. `Compact` purges one SKU after the other in
an order of the code's choosing (`Purged`).

| Source | Model |
|---|---|
| `SyncOnce`, `Session`: Hello, Welcome | `Open` |
| frames of the side that sends | `session[c].frames`: a subset of what is missing, in any order, some of it repeated by an earlier session (`Arriving`) |
| `Merge` of one frame, then the other side's turn | `Merge`, `Push`, `Close` |
| a lost Hello or Ack, a timeout | `Fail` |
| a new process | `Restart`: the clock of the surviving rows |
| `Quiesce` | `Heal`: nothing is lost or reordered from here on, which is more than `Quiesce` does with the reorder fault on; `LabSync` has that case |

`Exclusive` keeps a compaction from running between the fold of a snapshot and its save:
an older snapshot saved over a newer one would lose what was deleted in between. No caller
in the repository compacts a log that is in use, so the runs set it.

### LabSync

What `CompactingLog` takes in one step, here frame by frame. A session is a client in
`SyncOnce`, a goroutine in `Server.Session` and a pipe with a queue each way. Snapshots are
left to `CompactingLog`; a frame carries one event.

| Source | Model |
|---|---|
| `Dial`, Hello, Welcome | `Dial`, `Greet`, `Welcomed`, each with its `VersionVector` |
| `streamEvents` on either side | `Collect`, `ServerStreams`, `ServerAcks`; `ClientStreams`, `ClientAcks`. `rest` is what the iteration has still to send; a party with rows left holds the one connection of its log (`Iterating`, `Free`) |
| `consume` | `ClientMerges`, `Acked`; `ServerMerges`, `ServerReturns` |
| `Injector.Filter` | `Filter`: a blocked link drops, `Copies` repeats the frame before, `held` keeps one back until the next |
| `memPipe` | `ClientSends`, `ServerSends`, `HandOver`; `CloseSend`, `Cancel`; a frame that the filter repeats on a link may belong to the other side, and then fails its receiver (memory.go:113, 188) |
| `SyncPair` and its timeout | `Timeout`; `Break` for a session that fails by itself |
| a server whose client has gone | it runs until it next uses the pipe (`ServerFails`); that is why there are two slots for sessions |
| `Run`: operations, rounds, faults, `Quiesce` | `Operate`, `StartRound`, `Mesh`, `Fire`, `Heal`, `Quiesce`, `EndRound` |
| `runNode` with `--central` and `--listen` | the transport `grpc`: each process serves and, in turn, dials; no harness, no timeout, and a window of one frame per stream |

A schedule is arbitrary, not drawn from a seed, and the choices of the injector are
nondeterministic; the frames it repeats or holds back are bounded by `MaxInjected`, so
that a fault cannot keep every session from succeeding for ever. gRPC's flow control is a window of
one frame: any window fills once enough events wait on both sides.

## 3. Runs

| Run | Instance | Shows |
|---|---|---|
| `arbitration` | 3 nodes (one not registered), up to 2 events each, 2 handlers, 2 failures | Receipts against one order and one note, one session at a time (`Serial`): the order is not overrun, the note is honoured once, a partial compensation never passes for a whole one. Transfers with sessions that overlap, accepted, refused, unknown and misaddressed, and arrivals short, over, of an unknown or undispatched SKU: received never exceeds dispatched, both ends learn of it. In both the books add up (`BooksSound`). |
| `receipts_concurrent` | 2 handlers, 1 failure, node 2 half-open | Acknowledged means decided; one compensation per line; a decision matches log and queue, and is final. Every event is eventually decided, or stuck in the way `unsound_books` shows. |
| `outbound` | 3 envelopes, 2 handlers, pages of 2, 1 failure | No envelope is skipped, all take effect, and the queue refines `Delivery`. |
| `node_service` | six cases (below), up to 4 commands, 2 failures | The read models are a replay's, agree with the state and catch up; own commands overdraw nothing; own events sort last. |
| `replication` | node 1 dials node 2, with 1 failure or restart and time passing once; or both dial central | Log and balances agree, the owned location never goes below zero, the cursor covers only what the peer holds, timestamps follow what was learned, the logs refine `ReplicatedLog` and converge, and central's `GlobalSum` is then what the nodes have. |
| `compaction` | a pair that writes two SKUs, and three nodes in a line | Every read folds everything held once, what is deleted is held by all, the logs refine `ReplicatedLog` and converge once the transport is healed. |
| `store_calls` | groups of calls that touch the same tables, up to 5 calls, failed statements and a restart | Postgres's tables go through the states of Memory's maps, answers agree, what central emits sorts last under a fresh number. |
| `lab` | 2 nodes; partition, one-way partition with crashes, duplicates, reordering; two processes | A session reported done has brought both ends what the other announced; the harness comes to rest with equal logs and no goroutine left; two processes do as well, or wedge. |
| `unsound_books` | six workloads, 1 failure | Violation of `SettledInTheEnd`, by each of them alone. |
| `outbound_gap` | 2 writers, no failure | Violation of `NeverSkipped`. |
| `replication_gap` | node 2's clock is 2 ahead, 2 failures | Violation of `EventuallyReplicated`. |
| `node_drift` | three cases, up to 3 commands, 2 failures | Violation of `StateReflectsReadModels`. |

Bounds, and why they are enough. `MaxSeq` = 2 gives every event a predecessor or a
successor in its batch and its log, and two is what the cursors must tell apart.
Two handlers are the least that race; a third only repeats the interference of the
second, since handlers share nothing but the store. One failure is the least that
leaves a partial effect; two let the retry fail as well. Quantities are chosen
around the order of 4: within, partly over, wholly over. `MaxBatch` = 2 has both
one-event and whole-log batches. A page of 2 with 3 envelopes makes full, partial
and successive pages. `MaxOrd` = 3 lets every envelope be drawn once.
In `replication`, goods are received at node 1, moved to node 2 and issued there, the
shortest history in which a merge decides what a command may do; two records of one
author are what order and gaps take, and a second session is the least that overlaps
with one that was given up. A batch of 2 can be cut halfway.
`MaxFailures` bounds failed calls, lost streams and crashes together. Handler symmetry is used only in
`arbitration`, which checks invariants only.
In `node_service` each case is a `Plan` of MCNode with its own bounds: a receipt that central
may cut or withdraw, with put-away and an item that is delisted meanwhile; picks while central
takes the goods back, across an upgrade with a rebuild; two holds and a pick; a count that
finds more or less, and a pick during it; a transfer sent, rejected or received elsewhere;
a transfer accepted short or over. Two commands with a failure and a crash are what a stale
state or a half-applied batch take; a second version is what `Rebuild` takes. Central's
clock is one ahead, so that what it sends is in the node's future.
In `compaction`, `SnapshotEvery` = 1 takes a snapshot at every event, one node of the pair has
two under way at once and writes twice, so that its frames can leave a gap, and in the line
what one end deletes must have reached the other end through the node between them.
In `store_calls` each workload is a group of calls that read or write the same tables, for calls
that share no table cannot disturb one another; five calls hold a write, its failed or
successful retry, a second writer and the reads between them.
In `lab` each fault of the harness has a setup of its own (one-way partitions and crashes share
one). One node performs two operations and the other one, so that a session has a batch
before its last; one scheduled fault, one injected frame and one round before the last operation are what a fault
needs to meet a session, and the sessions of `Quiesce` follow. Two events on each side are the
fewest that fill a window of one in both directions.

Fairness. `FairSpec` of `Arbiter` is weak fairness of each handler's steps (the Go
scheduler runs every goroutine and every store call returns or fails) and of opening
a session per node (`Client.Run`, client.go:38-59, retries for as long as the process
lives). `FairSpec` of `Outbound` is the same for `push`, for the client's steps and
for connecting. No failure is fair, failures are finite in number, and nothing is
assumed of `Enqueue`. `FairSpec` of `Replication` is weak fairness of dialling
(`Client.Run`, client.go:67-88) and of each session's steps; commands need not come.
`FairSpec` of `NodeService` is weak fairness of the call under way and of starting the
process again, and strong fairness of `Pull`: the client retries for as long as it lives
(client.go:38-59) and the mutex lets it in between commands. That of `CompactingLog` is strong fairness
of opening a session on each link, since `SyncRound` gives every pair its turn
(harness.go:140-171), and weak fairness of the steps of a session and of saving a
snapshot. `EventuallyConverged` assumes that the transport is healed at some time, as
`Quiesce` does; before that it may lose everything. That of `LabSync` is weak fairness of the steps
of each session's two goroutines, of dialling (`runNode` and `SyncRound` are loops), of the
operations, of the harness's end game, and of the timeout of a session whose frames are
dropped: its context expires (harness.go:126-138). Scheduled faults, slow sessions, healing
before the end and rounds in between need not come. `MemoryStore` and `PostgresStore`
are checked for safety only.

Deadlock checking is on in every run but `lab`, where `Run` returns, and where two processes
may stop for ever, which `EventuallyQuiesced` speaks of. Elsewhere `Open`, or `Dial`, is always possible for an idle
node, and a store may always be opened again, so the system never stops. A service that is up may wait for a call (`Wait`); one
that is starting or in a call may not.

### Scope of the properties

`CompensatedOnce`, `DecisionMatchesLog` and `SettledForGood` are stated of `Orderly`
events, those of nodes that open no stream while a handler serves their last. For a
half-open stream they do not hold: both handlers find no compensation
(arbiter.go:121-127) and both emit one. `BooksSound` says that an order is not received
past its quantity (`POWithinOrder`), that a note is honoured once, and that facts and
compensations account for all that was booked (`BooksAgree`). It is checked of transfers
with two sessions, and of receipts with one at a time; so is `PartialSetNeverWhole`. For
receipts with two sessions:

* a note is honoured twice in the same way as an order is overrun: validators.go:78 reads
  before either receipt is on record;
* facts and compensations agree while nothing fails. With a failure, a receipt
  accepted whole may be validated again after a racing receipt took the order's rest,
  and be compensated although its fact counts it whole. validators.go:119-124 argues
  that subtracting the event's own fact makes the verdict the same on every attempt;
  it does for a retry alone;
* `PartialSetNeverWhole` fails when a retry rejects for another reason with as many
  events as the partial set has (arbiter.go:130 compares sizes).

One more case lies outside the properties: a second line of one receipt for one SKU
is rejected as a duplicate of its own receipt (validators.go:82 compares events).

`StampsAfterLearned`, `CursorHonest`, `LogRefined` and `EventuallyReplicated` are checked with
clocks in step, where a restarted node's physical clock is past every timestamp it held; with a
peer's clock ahead by more than a restart takes they fail, all in the way that
`replication_gap` shows.
`StampsAfterLearned` speaks of the timestamp when it is issued. The record may be stored
after a batch that was merged while the command waited for the lock, and then sorts
before a record it depends on: read in clock order, goods may be issued at a location
before the move that brought them. Final balances do not depend on the order.

`LiveIsReplayed` compares open flags, not resolved ones: whether a place dipped below zero on
the way, and was flagged for it, depends on whether a pick or the receipt central withdrew
was applied first, so a rebuild may drop a resolved flag or add one. The test
that read models replay identically (determinism_test.go:14-20) meets no such order. The time
of a flag is the same in every order, but as times are compared as text it need not be the
highest, as the comment on `touchKey` says. `LiveIsReplayed` and
`StateMatchesReadModels` are stated while no command was reported failed; `node_drift` is about
the rest. The state in memory never learns that central failed a transfer (it is folded
as an adjustment only), so `StateMatchesReadModels` takes its `in_flight` for `failed`.

`WriteSortsLast` speaks of surviving rows: after a compaction and a restart with the wall clock
set back, a write may sort before events that were deleted, as the comment on
`recoverClock` concedes.

`ExchangedBothWays` is not stated of sessions under the reorder fault. The injector releases
a held frame after the next one (transport.go:209-213). If that is the Ack, the batch
comes after it and nobody reads it: the session succeeds without it, which the comment at
transport.go:199-208 says cannot happen any more. A later session brings it, as
`EventuallyQuiesced` shows.

`EventuallyQuiesced` allows two processes to be `Wedged`: both stream, which takes the one
connection of their log (sqlite.go:32), and neither can merge what would make room. Without this
allowance the property is violated; the README of eventlog-lab (lines 16 and 79) promises
convergence after every sync. The harness cannot meet it, as its pipes hold 1024 frames.

`docs/limitations.md` describes a dip of central's global sum while goods are on their
way. In the code there is none: a move is one record, and `GlobalSum` applies both its
halves at once.

## 4. Findings

Three of them are violations of `SettledInTheEnd` in `unsound_books`: in the end the books
are sound for good and every event that was sent is decided.

* **The order is overrun**. The read of the total and the insert of the fact are separate
  calls, and nothing serialises sessions.
* **A node stuck for good**. A failure between the two inserts
  of an over-receipt's compensation leaves one; each retry finds an incomplete set and
  ends the session, so the node neither pushes nor receives again.
* **Lines lost from the books**. A dispatch with one unknown SKU fails
  the whole transfer and compensates one line; of two lines with one SKU in a dispatch
  only the last is in transit; of two in an arrival only the first is folded in.
* **A queued row never sent** (`outbound_gap`). A later position acknowledged before
  an earlier one is visible hides the earlier row for good.
* **A record that never replicates** (`replication_gap`). A node merges a record of a
  peer whose clock is ahead and stamps its own first record accordingly; it restarts, and
  its second record gets an earlier timestamp, as the new clock has observed nothing.
  `Since` sends the second first; the stream dies; the peer's vector now covers both.
* **Read models drift** (`node_drift`). `Execute` fails after it has recorded: the next
  successful call takes the events into the state, and only a restart takes them into the
  read models. Until then a retry is checked against the stale state and recorded as well,
  and after it a hold released in between comes back for good. And a rebuild cut short by
  a crash is not noticed if the version that was there before is started again: the
  cleared tables stay empty, as the markers say that all is applied.

## 5. Proofs

Every theorem holds for every value of the constants that satisfies the assumptions of
its module (`StoreAssumption` and `ArbiterAssumption`: node identities are positive
numbers, logs are made of well-typed payloads no longer than `MaxSeq`, a batch holds at
least one event, `NoHandler` is no handler; `NodesFinite`: the registry of nodes is
finite; `OutboundAssumption`; `NodeServiceAssumption` and `TradingAssumption`). TLC evaluates the
assumptions on each run. Where a theorem needs more it says so as a hypothesis, and the
reason is below.

### Central arbitration

**`TypeCorrect`: `Spec => []TypeOK`** (`ArbiterProofs`). `TypeOK` is not inductive. That
a compensation's quantity is positive depends on the line, the rejection and the
phase agreeing. `TypeInv` adds `Fits(session[h])` for each handler: the handler is
placed on an event of its node's log while it arbitrates (`Placed`), the phase is one
for the event's kind (`KindFits`), every loop stays within the event's lines or the
rejection's events (`LineFits`), and a rejection is what the phase says it has come to
(`RejectionFits`: in particular that no more than the line is in excess when a receipt
is recorded). There is one lemma per action. What a step leaves alone is settled by lemmas
about `Become`, `Goto` and the store calls.

**`AckedCorrect`: `Spec => []AckedDecided`** (`ArbiterProofs`). The cursors move to
`high`, a local variable set when the batch is received, before any of the batch is
decided, so the property says nothing about the next step by itself. `AckInv` adds
that each handler vouches for decisions: all sequences up to `last`, and up to `high`
once a batch has been received, are decided except the rest of the batch, `cur` to
`last`. `Decide` and the early return of `ReadDecision` shrink the rest; when it is
empty `StorePushed` and `Ack` may store `high`. Decisions are never withdrawn, so
other handlers, lost streams and failures cannot disturb this. `TypeInv` supplies the
placement of `cur`.

**`SettledCorrect`: `Spec => SettledForGood`** and **`CompensatedOnceCorrect`:
`Spec => []CompensatedOnce`** (`ArbiterProofs`). Both are about nodes whose sessions do
not overlap. `Alone` says that such a node has one handler, and `StillOpen` that what
the handler's lookup found, no decision, is still so in every later phase: the only one
who could decide is itself. So no call that writes for an event meets a decided one. For
`CompensatedOnce`, `Collected` follows the rejection through the loop over the lines
(the events collected concern lines already passed, each once) and `Emitted` follows it
into the log (what is there is the rejection's beginning, up to the line in hand).

**`DecisionMatchesLogCorrect`** (`DecisionProofs`). That an accepted event has no
compensation seems to follow from the order of the calls, and does not: an attempt
that dies after its first compensation is repeated from the beginning, reads receipts,
orders and transfers that other sessions have changed, and might come to accept. The
proof is that it cannot: what justified the rejection justifies it for good. `Grounds`
says what each reason rests on, `DoomInv` that an event with a compensation has such grounds
or its handler is about to meet them (`RejectsAhead`), and one lemma per
kind of call shows that the calls of others leave them standing: totals only
grow, a failed row stays failed, quantities in transit are not raised. `TransferInv`
supplies what an arrival relies on (its dispatch is on record, since the destination
heard of it), and `QueueInv` follows the compensations into the queue. Two hypotheses:

* `OneDispatch`: a transfer is dispatched by one event. The node refuses an identity in
  use (transfer.go:38).
* `LinesApart`: the lines of a dispatch name different SKUs. Nothing in the code sees to
  it. Without it the property is false: of a dispatch of `a: 2, a: 1` the arrival of two
  can be rejected and compensated while the row holds the 1 (the dispatch is being
  redone after a failure) and accepted by a retry when it holds the 2, or the
  other way round: the event is then accepted with a compensation on record. No run has
  this workload; TLC finds the state with those two lines and two failures.

**`TransferFannedOutCorrect`** (`DecisionProofs`). The verdict on a dispatch depends on
the event and reference data only (`Bad`), so all attempts, overlapping ones included,
reach the same; `Judged` follows a handler through the validators to it, `Fanned` says
what `record` and `fanOut` have done by the time compensations are read, and `Told` and
`Failed` are shown to be stable under the steps of every handler. It needs
`OneDispatch`, as a second dispatch of a transfer replaces the rows of the first.

**`TransitBalancedCorrect`: `Spec => []TransitBalanced`** (`DecisionProofs`). The room left in
a row is read in one call, the fold is another, and nothing in the store refuses to fold
in more than was dispatched: only the handler's check does. `BalanceInv` says that what a
handler has found room for is still free (`Room`), and this rests on there being one
handler at the arrivals of a transfer (`OneReceiver`): a transfer has one dispatch, one
destination, which alone heard of it (`SentToDestination`), and arrivals come from a
node that did. A row that is there is not replaced by a retry of its dispatch with another
quantity (`RowsTrue`), and a fold adds to the row what it notes for the arrival
(`Balanced`). The sum over the arrivals needs its law for a set that changes in one member
(`SumGrows`). It is proved without an induction theorem, as the sums of `OwnSortsLastCorrect`
are: the numbers for which the recursion behaves contain 0 and successors (`AllNumbers`,
`Induct`). Besides `OneDispatch` and `LinesApart` it assumes

* `OrderlyDestinations`: the destination of a transfer opens no stream while a handler still
  serves its last. With two handlers, both find the room, and the row is overrun.

**`PartialSetNeverWholeCorrect`: `Spec => []PartialSetNeverWhole`** and
**`ReceiptsWithinOrderCorrect`: `Spec => [](POWithinOrder /\ NoteHonouredOnce)`**
(`DecisionProofs`). `ReadCompensations` takes a set of the right size for this attempt's and
never looks at its reasons; between the attempts, receipts, orders and transfers
have changed. So the first theorem needs that a retry finds the same reason. `ReceiptInv` names it
from the event and the facts alone (`Fated`): unknown SKUs are unknown on every
attempt; transfers and arrivals each have one other reason; a receipt is a duplicate if
another had its note and it was never counted itself, and over its order if it was. Facts
are never deleted, so what is fated stays so. `FactsSound` says what the facts
amount to (one per note and SKU, no order exceeded), `Meant` and `Noted` follow a handler
through the validators, from what it read to the fact it inserts. Both theorems assume

* `ReceiptsInTurn`: in a workload with receipts, sessions do not overlap, though they may fail at
  any step and be retried, by the same node or after others. Nothing in the code sees to
  it; with two sessions at work both statements are false, in the ways that "Scope of the
  properties" lists.

### The service of a node

**`OwnSortsLastCorrect`: `Spec => OwnSortsLast`** (`NodeProofs`), from `NodeServiceAssumption`:
the log to start with is made of events of different numbers, the node's own have no gap in
theirs, and commands are those of the API, with their arguments. The clock is one variable and the log another; a crash forgets
the clock and the last number, so `NodeInv` says that a process that runs has readings at or past
all in its log and that its own numbers are exactly those up to `seq` (`Recovered`), and of
one that is down only that such a reading and such a number exist (`LogSound`): `recover` finds
them (`HighestIs`). What central sends is never this node's own (`QueueSound`), so an ingest
leaves the numbers alone.

What a command seals and what an ingest makes of the clock are recursions: each reading is
`Tick` of the one before, and the clock is folded over the batch with `Merge`. What they
compute is needed here only in part (every reading is past the last; the fold is past every event of
the batch), and this much can be proved without an induction theorem: a set of numbers that has 0
and the successor of each of its members is all of them, for it would lack a least one otherwise
(`AllNumbers`), and with it that the function such a definition chooses exists
(`TicksExist`, `RecursionExists`).

**`TypeCorrect`: `Spec => []TypeOK`** (`NodeProofs`), from the same assumption. A command is
answered from `State(memory)`, a replay of whatever the log held when the state was last
built, so the types of what is recorded next rest on the replay being defined at all. `InOrder`
chooses for each place the event that has as many before it: there is one, because no two events
of a log have one number of one author (`Distinct`) and so none share a place (`InOrderIs`).
`FoldLeft` is then a run from the first event to the last (`ApplyRuns`, and the like for the other
folds), along which the kind of the state is kept by each event (`ApplyTyped`, `StaysIn`). `Distinct`
is kept because what a command records is numbered past the node's own (`RecordedAreNew`, from
`Recovered`), what others send past theirs (`NextSeqIs`), and an ingest stores what was
queued already.

**`NeverOverdrawnCorrect`: `Spec => []NeverOverdrawn`** (`NodeProofs`), from these assumptions
and `TradingAssumption`: a transfer has one destination, whoever tells of it; goods arrive from
the outside and leave a node in a dispatch of its own, as `DoReceiveTransfer` and
`DoDispatchTransfer` of every node write them; the log to start with leaves no place below zero.
A command is checked against a replay of what the log held when the state was last built, and
recorded among events that sort before, between and after those. So what is needed of a
replay is what does not depend on its order: `StateValue` shows that the stock at a place
is `Value`, a sum over the set of events, with an arrival counted if its dispatch is known to
come here. `Matches` is the relation of a state to the set replayed so far, which each event
keeps: a dispatch folds in what arrived before it, an arrival before its dispatch waits
(`DispatchMatches`, `ArriveMatches`). It is here that one destination is needed: of two
dispatches under one id the replay believes the first. Sums are unfolded as the folds are,
along subsets (`TotalLaw`, `Induct`).

The invariant `StockInv` then says what the log may hold that the state has not seen: events
that take nothing, compensations, and events of commands reported failed (`Known`, `Missed`).
By `Grow` these only add to `Backed`, the sum of what is at a place, what central took back there and
what lost commands took. `DoCareful` shows, command by command, that at most one event of a command takes
stock and no more than the state has, so that `Backed` stays at or above zero, although
the log may be ahead of the state (`ExecuteStock`).

### The queue of a node

**`TypeCorrect`, `NeverSkippedCorrect`, `DeliveryCorrect`** (`OutboundProofs`). The types
need no hypothesis. The other two are for one call of `Enqueue` at a time
(`OneWriter`), as in the in-memory store, whose mutex covers the call; with the
transactions of Postgres they fail, which `outbound_gap` shows. The
invariant orders everything that is in flight: rows are numbered apart, the rows the
node has applied are those up to a position, every page a handler holds, every
frame on a stream and every acknowledgement under way begins no later than what the node
has, and an acknowledged or stored position does not pass it. `DeliveryCorrect` shows that
an `Enqueue` that commits is `Delivery`'s enqueue, a row that takes effect its delivery, and every
other step a stutter.

### The replicated logs of localfirst-go

All theorems of `ReplicationProofs` assume `ReplicationAssumption` alone, but for the three
that name `ClocksInStep`.

**`TypeCorrect`, `ProjectionCorrect`, `OwnedCorrect`** need no more, whatever the clocks
show. `TypeInv` adds to the types that logs are finite and hold one record of an author with a
number (`Apart`), that a record moves what its author's commands move, and that the batch
being merged has been validated (`Fits`). For the balances, a record that is stored changes
`Fold` as `Apply` does; one that is there already changes neither. A merge cannot debit the
location of the node that merges, since only the owner's records do and no batch brings
them back: so a command allowed by the balance in memory is still allowed when the
transaction runs.

**`CursorHonestCorrect`, `StampsCorrect`, `LogRefinedCorrect`** assume `ClocksInStep`: the
nodes' clocks show the same time. Without it all three are false (`replication_gap` is a
counterexample of each). `ReplicationInv` has four parts:

* `Timely`: no stamp is ahead of the time, and a clock is past everything that its node
  holds, or the time is. It is what a restart, which forgets the clock, falls back on,
  and where the hypothesis is used: a record of another node is never from the future.
* `LogsSound`: what a site holds of an author is a beginning of the author's own log, in
  which numbers leave nothing out and stamps follow the numbers.
* `Sound(s)` of every exchange: a vector that was sent names records the sender holds
  (`Marked`); whatever an author wrote before a record under way, the drainer has or is sent
  earlier (`Backed`); the record that the client's cursor will stand for is at the peer or
  still under way (`Acknowledged`). The hard step is `Collect`: records leave in clock
  order, cut into batches, while vectors speak of numbers. The two orders agree on one
  author by `LogsSound`; that a sorted sequence has every record, each after all that
  are less, and that batches keep the order, are lemmas about `Sorted` and `Batches`. It
  also matters that a vector may be old when it is used: logs only grow (`Extended`).
* `CursorsSound`: a cursor is the number of a record that the peer holds.

The refinement then follows: a site's records of an author are numbered from 1 without gaps
(`Whole`), so `View` lists them by number, a command is `Write`, and the record a merge stores
is the next one (`Learn`).

### The log of eventlog-lab

All theorems of `CompactingProofs` assume `CompactingAssumption`: identities are naturals, there
are finitely many nodes and SKUs, a cluster has two nodes at least and links none to itself. The
clusters, scripts, wall clocks and the number of snapshots under way are arbitrary.

**`TypeCorrect`, `DeletedHeldCorrect`, `WriteSortsLastCorrect`** need no more. What the
proofs turn on is the frontier (`VersionVector`): a lemma describes it by its two sides,
no gap below and none of the next number (`FrontierFacts`, `FrontierIs`), and another says that more
rows, or a watermark in the place of rows, only move it forward (`FrontierGrows`). A turn of
`Compact` is that exchange (`PurgeShrinks`), and so are all its turns, in any order
(`PurgedShrinks`). Hence no step lowers a frontier (`VectorsAdvance`), and what was
read of the peers when a session began or a compaction chose its floor stays true.
`LogInv` adds that rows and frames are events somebody wrote, that an author gives a number
once, claims all that it wrote (`OwnHeld`), and so gives next what nobody has
(`EmitOwn`); that every watermark is at or below every node's frontier (`MarksHeld`); that
snapshots cover no more than their node holds (`CoversHeld`). `DeletedHeldByAll` is then
that what a node claims and has no row of lies under its watermark (`ClaimedRow`). For
`WriteSortsLast` the invariant is that a clock is past every row at its node (`ClockInv`).

**`ReadsAllHeldOnceCorrect`, `LogRefinedCorrect`** assume `Exclusive`, as the run does: a
compaction does not run while its node takes a snapshot. Without it both are false, for
an older snapshot saved over a newer one forgets what was deleted on the strength of the
newer. `SoundInv` says of every snapshot, saved or under way, that it has folded exactly the events
it covers, and that it covers all that has no row any more. A new snapshot keeps to it
because it folds up to the frontier only, below which everything is a row or was
deleted (`NextSound`); a compaction, because it deletes what the saved snapshot covers
(`CompactSound`), which is where `Exclusive` is used. A read is then the
disjoint union of what is covered and the rows beyond (`ReadsAll`). For the refinement, a
reader's view of an author is a beginning of what the author wrote, as long as the frontier says
(`Exact`): a write makes the author's own longer by one, the merge of one event may
make a node's longer by several, if it closes a gap, but never longer than the author's
(`MergeLearns`), and a compaction leaves every frontier where it is (`CompactStands`).

### A session of eventlog-lab, frame by frame

**`TypeCorrect`, `ExchangedCorrect`** (`LabProofs`) need `LabAssumption` alone: any nodes,
operations, rounds, schedules of faults, crashes and limits of the pipes.

`ExchangedBothWays` is a statement about the moment `SyncOnce` returns. Nothing at that
moment can be read off it: the vectors are old, the pipe may hold frames of
another session, the server may have returned. `SessionInv` therefore follows each session
through its protocol. It has three parts:

* blocked links are the harness's only, and without the reorder fault nothing is held back;
* `Owned(c)`: no two clients have one slot, and the server in a client's slot serves this
  client. A slot is given again only when its server has ended, so what a step of
  one session does to its pipe is invisible to the others (`Apart`, `ApartKeeps`);
* `Progress` of each session that can still succeed, of a view of it that holds both ends,
  their pipe and both logs. It says for each pair of places that the two goroutines can be in
  what is in the log of the reader already, what is carried by the pipe (`Carried`), and what the
  iteration has still to send; together these cover what was announced (`Covers`). Of a session
  on a blocked link the first frame that way, the Hello or the Welcome, is dropped already, and it
  never gets further (`Unread`, `Unheard`): links change between rounds only.

There is one lemma about the view per step of either end, and one per action of the module
that shows its effect on every session. The step that matters is where a log is read
(`Queried`): what `Since` returns and what the other end announced cover together all that
this end announced before, because a frontier that was announced has no gap below it and logs
only grow. Repeated frames (`Copies`) may carry events of the other side's batch or of an earlier
frame, which costs nothing: a log only gains by them, or their reader fails. TLC checked
`SessionInv` on the instances of `lab` before it was proved.

### Central's store

**`TypeCorrect`, `CentralSortsLastCorrect`, `MemoryCorrect`** (`StoreProofs`) need no more than the
assumptions of the modules: any envelopes, rows, workloads and readings of the wall clock.

`TypeOK` says that no table comes to hold a key twice, and is not inductive: a transaction works
on a copy, which its commit puts in the place of the tables. `StoreInv` therefore says what an
open transaction is (`TxFits`): the tables of this moment with the marker of one arrival, of
which no marker was there (`Folding`), or with a node and those of its refusals that are
inserted so far (`Registering`); so nothing that is committed was read before another
call. A number of `outbound.ord` is unused because all are at or below the last one drawn
(`QueueFits`), and a queue names only events that are stored.

For `CentralSortsLast` the number and the clock in the process have to be compared with the
table: `ClockFits` says that both are at or past those of every event of central, and
that a later event of central has a later reading. The last is what a restart rests on:
`recoverCentral` asks for the largest number, the largest wall time and the largest counter of
that wall time in three queries, of which the second and third are about readings only;
`RecoveredFacts` shows that they find the number and the reading of one event, the last.
What is emitted in answer to an event is later than this one too, by `Merge`.

`MemoryImplemented` then is one lemma per call, since `StoreInv` has all that it needs. `Loaded` is
written as a function of the tables, `Maps(db, central)`, table by table; a lemma says which maps
a change of one table changes. Three things make the steps more than a translation:

* A map has one value per key and a table may have several rows. `Upsert` and an insert that
  ignores a conflict are `Put` because the keys hold (`ColumnReplaced`, `PairsReplaced`); a fold
  replaces one row and adds one mark (`FoldMaps`), and the dispatch of a line that is in
  transit already changes the dispatched quantity of one (`RecordDispatchMaps`).
* Ordinals have gaps, for an insert that is ignored draws one, and Memory's have none. `Maps`
  counts rows instead: the place of a row is how many rows there are up to it. Each place of a
  queue is taken by one row, for the ranks are an injection of a finite set into as many numbers
  (`PlaceFacts`). A new row takes the last place and leaves the others where they are (`RowsStay`,
  `QueueGrows`), and it moves no cursor, none of which is past the last ordinal drawn
  (`CursorsStay`).
* A transaction is one step of Memory, its commit. The statements before it, a rollback, an
  arrival without a row and a marker that is there already change nothing
  (`TablesStand`); that the commit is the call, made of the tables of that moment, is `TxFits`.

A restart is `Reopened` by `RecoveredFacts`, and the emission whose insert fails is
`EmitFails`.

### Only checked by TLC

* Liveness, which is out of the prover's reach: `DecidedOrStuck`, `EventuallyApplied`,
  `EventuallyReplicated`, `EventuallyConverged`, `EventuallyQuiesced`, `EventuallyProjected`.
* `BooksSound`, of which two conjuncts are proved (`ReceiptsWithinOrderCorrect`). The third,
  `BooksAgree`, relates the quantities in the facts, in the rows and in the compensations of
  an event, for every kind of event and across its attempts. It is true only of workloads
  without unknown SKUs in a dispatch, without one SKU on two lines, and with
  receipts in turn; for others `unsound_books` refutes it. Its proof needs an invariant on
  every quantity a compensation carries, and has not been attempted.
* `AnswersAgree` compares what queries return, sorted (`SetToSortSeq`), cut and summed: again
  recursions, whose unfolding needs induction over data.
* `LiveIsReplayed` and `StateMatchesReadModels` of `NodeService` compare the read models,
  applied as events came, with a replay in the order of timestamps. Stock would be a sum in both,
  but for arrivals that an unknown dispatch turns away; holds, transfers and flags depend on the
  order, and the properties are claims about the orders the plans allow.

## 6. Plan

1. Proofs: the part of `StateMatchesReadModels` that is about stock, over the sums of
   `NodeProofs`.
2. Restored backups (localfirst-go): a node whose database is an older copy reuses
   sequence numbers, and is sent its own records, which `ValidatePeerRecord` refuses,
   while docs/architecture.md:140-142 calls a regressed vector harmless.
3. `applyBootstrap` over the central store, with a crash between its calls.

The models to come replace no definition of the present ones. The order is that of
how much data a mistake would lose.
