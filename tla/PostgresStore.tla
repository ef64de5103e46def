---------------------------- MODULE PostgresStore ----------------------------
(***************************************************************************)
(* What warehouse-node's central server persists, as central.Postgres keeps *)
(* it: tables, and a connection that commits each statement by itself       *)
(* unless a transaction is open.  The process beside it holds central's     *)
(* sequence and clock, and may die between any two statements.  One caller  *)
(* is served at a time: what overlaps in the server is in Arbiter and in    *)
(* Outbound.  The database orders text as Go does, by its bytes.            *)
(***************************************************************************)
EXTENDS StoreCalls

CONSTANTS
    Workloads,   \* sets of calls that touch the same tables, by their names
    MaxCalls     \* bound on the calls made

ASSUME PostgresStoreAssumption == MaxCalls \in Nat

VARIABLES
    db,         \* the tables, and the last value drawn from the sequence of ord
    central,    \* centralN and centralHL of the process
    tx,         \* the open transaction: its copy of the tables, what is left to do
    workload,   \* the calls of this run
    calls       \* the calls made so far

vars == <<db, central, tx, workload, calls>>

Schema ==
    [events |-> {}, cursors |-> {}, outbound |-> {}, drawn |-> 0,
     items |-> {}, purchase_orders |-> {}, nodes |-> {}, node_rejects |-> {},
     receipts |-> {}, in_transit |-> {}, transfer_receipts |-> {}, decisions |-> {}]

NoTx == [of |-> "none", tables |-> Schema, arrival |-> {}, node |-> CentralNode, rejects |-> {}]

Init ==
    /\ db = Schema
    /\ central = [seq |-> 0, hl |-> 0]
    /\ tx = NoTx
    /\ workload \in Workloads
    /\ calls = 0

-----------------------------------------------------------------------------
(* Statements *)

Conflicting(table, row, key) == {r \in table : \A column \in key : r[column] = row[column]}

\* Mutant of InsertNew: the table has no such key.
InsertAnyhow(table, row, key) == table \cup {row}

\* INSERT ... ON CONFLICT (key) DO NOTHING
InsertNew(table, row, key) ==
    IF Conflicting(table, row, key) = {} THEN table \cup {row} ELSE table

\* INSERT ... ON CONFLICT (key) DO UPDATE SET the columns of set
Upsert(table, row, key, set) ==
    LET old == Conflicting(table, row, key)
    IN IF old = {} THEN table \cup {row}
       ELSE (table \ old) \cup
            {[column \in DOMAIN r |-> IF column \in set THEN row[column] ELSE r[column]] : r \in old}

\* UPDATE ... SET column = column + qty
Added(rows, qty) == {[r EXCEPT !.received = @ + qty] : r \in rows}

Largest(S) == CHOOSE x \in S \cup {0} : \A y \in S : y <= x

-----------------------------------------------------------------------------
(* Calls: one that is a single statement, and what it leaves alone *)

Call(name) ==
    /\ name \in workload
    /\ calls < MaxCalls
    /\ calls' = calls + 1
    /\ tx = NoTx
    /\ UNCHANGED workload

Statement(name) == Call(name) /\ UNCHANGED <<central, tx>>

-----------------------------------------------------------------------------
(* The log *)

EventRow(env) == [node_id |-> env.id[1], seq |-> env.id[2], hlc |-> env.at,
                  causation_node |-> env.cause[1], causation_seq |-> env.cause[2]]
Envelope(r) == [id |-> <<r.node_id, r.seq>>, at |-> r.hlc,
                cause |-> <<r.causation_node, r.causation_seq>>]
Stored == {Envelope(r) : r \in db.events}

InsertEvent(env) == InsertNew(db.events, EventRow(env), {"node_id", "seq"})

AppendEvent(env) ==
    /\ Statement("Append")
    /\ db' = [db EXCEPT !.events = InsertEvent(env)]

Events == SetToSortSeq(Stored, Before)
CompensationsOf(id) ==
    SetToSortSeq({Envelope(r) : r \in {r \in db.events :
        r.causation_node = id[1] /\ r.causation_seq = id[2]}}, Before)

\* The reading of an event in the log, the zero reading for one that is not.
HlcOf(id) == Largest({e.at : e \in {e \in Stored : e.id = id}})

\* Mutant of NextReading: a compensation is stamped like any other event.
NextReadingUnmerged(cause, now) == Tick(central.hl, now)

NextReading(cause, now) ==
    IF cause = NoEvent THEN Tick(central.hl, now) ELSE Merge(central.hl, HlcOf(cause), now)

\* Central compensates an event it has stored, or tells of a change of its own.
\* When the insert fails, the sequence and the clock have moved on.
EmitCentral(cause, now) ==
    LET env == [id |-> <<CentralNode, central.seq + 1>>, at |-> NextReading(cause, now),
                cause |-> cause]
    IN /\ Call("EmitCentral")
       /\ central' = [seq |-> central.seq + 1, hl |-> env.at]
       /\ db' \in {db, [db EXCEPT !.events = InsertEvent(env)]}
       /\ UNCHANGED tx

\* recoverCentral: the largest sequence, the largest wall time, and the largest
\* counter of that wall time.
Recovered ==
    LET own == {r \in db.events : r.node_id = CentralNode}
        wall == Largest({Wall(r.hlc) : r \in own})
    IN [seq |-> Largest({r.seq : r \in own}),
        hl |-> wall * Counters
               + Largest({r.hlc % Counters : r \in {r \in own : Wall(r.hlc) = wall}})]

-----------------------------------------------------------------------------
(* Cursors and queues *)

Cursor(n, column) == Largest({r[column] : r \in {r \in db.cursors : r.node_id = n}})
PushedSeq(n) == Cursor(n, "pushed_seq")
DeliveredOrd(n) == Cursor(n, "delivered_ord")

SetCursor(n, column, row) ==
    db' = [db EXCEPT !.cursors = Upsert(@, row, {"node_id"}, {column})]

SetPushedSeq(n, seq) ==
    /\ Statement("SetPushedSeq")
    /\ SetCursor(n, "pushed_seq", [node_id |-> n, pushed_seq |-> seq, delivered_ord |-> 0])

SetDeliveredOrd(n, ord) ==
    /\ Statement("SetDeliveredOrd")
    /\ SetCursor(n, "delivered_ord", [node_id |-> n, pushed_seq |-> 0, delivered_ord |-> ord])

\* A position is drawn whether or not the row is new.
Enqueue(target, env) ==
    /\ Statement("Enqueue")
    /\ db' = [db EXCEPT !.drawn = @ + 1,
                        !.outbound = InsertNew(@,
          [ord |-> db.drawn + 1, target_node |-> target, node_id |-> env.id[1], seq |-> env.id[2]],
          {"target_node", "node_id", "seq"})]

Queued(n) == {r \in db.outbound : r.target_node = n}
ByOrd(r, s) == r.ord < s.ord

\* A row joins the event it names.
Outbound(n, after, limit) ==
    LET joined == {p \in Queued(n) \X Stored :
            p[2].id = <<p[1].node_id, p[1].seq>> /\ p[1].ord > after}
        rows == SetToSortSeq({[ord |-> p[1].ord, env |-> p[2]] : p \in joined}, ByOrd)
    IN SubSeq(rows, 1, IF limit < Len(rows) THEN limit ELSE Len(rows))

-----------------------------------------------------------------------------
(* Reference data *)

UpsertItem(item) ==
    /\ Statement("UpsertItem")
    /\ db' = [db EXCEPT !.items = Upsert(@, item, {"sku"}, DOMAIN item \ {"sku"})]

Item(sku) == {r \in db.items : r.sku = sku}

UpsertPurchaseOrder(line) ==
    /\ Statement("UpsertPurchaseOrder")
    /\ db' = [db EXCEPT !.purchase_orders = Upsert(@, line, {"po", "sku"}, {"qty"})]

PurchaseOrder(po, sku) ==
    {r.qty : r \in {r \in db.purchase_orders : r.po = po /\ r.sku = sku}}

\* RegisterNode, in a transaction: the node, none of its rejects, then each.
RegisterNode(n, refused) ==
    /\ Call("RegisterNode")
    /\ tx' = [NoTx EXCEPT !.of = "RegisterNode", !.node = n, !.rejects = refused,
              !.tables = [db EXCEPT !.nodes = @ \cup {n},
                                    !.node_rejects = {r \in @ : r.node_id # n}]]
    /\ UNCHANGED <<db, central>>

InsertReject ==
    /\ tx.of = "RegisterNode" /\ tx.rejects # {}
    /\ \E sku \in tx.rejects :
          tx' = [tx EXCEPT !.rejects = @ \ {sku},
                           !.tables.node_rejects = @ \cup {[node_id |-> tx.node, sku |-> sku]}]
    /\ UNCHANGED <<db, central, workload, calls>>

NodeConfig(n) ==
    IF n \in db.nodes THEN {{r.sku : r \in {r \in db.node_rejects : r.node_id = n}}} ELSE {}

-----------------------------------------------------------------------------
(* Receipts *)

RecordReceipt(f) ==
    /\ Statement("RecordReceipt")
    /\ db' = [db EXCEPT !.receipts = InsertNew(@, f, {"event"})]

Receipt(id) == {r \in db.receipts : r.event = id}

ReceivedAgainstPO(po, sku) ==
    MapThenSumSet(LAMBDA r : r.qty, {r \in db.receipts : r.po = po /\ r.sku = sku})

\* Mutant of DeliveryNoteFirstSeen: ordered by the sequence alone.
FirstBySequence(note, sku) ==
    LET keyed == {r.event : r \in {r \in db.receipts : r.note = note /\ r.sku = sku}}
    IN IF keyed = {} THEN NoEvent ELSE CHOOSE a \in keyed : \A b \in keyed : a[2] <= b[2]

\* ORDER BY event_node, event_seq LIMIT 1
DeliveryNoteFirstSeen(note, sku) ==
    LET keyed == {r.event : r \in {r \in db.receipts : r.note = note /\ r.sku = sku}}
    IN IF keyed = {} THEN NoEvent ELSE SetToSortSeq(keyed, Less)[1]

-----------------------------------------------------------------------------
(* Transfers *)

TransitKey == {"transfer", "sku"}

RecordDispatch(row) ==
    /\ Statement("RecordDispatch")
    /\ db' = [db EXCEPT !.in_transit = Upsert(@, row, TransitKey, {"dispatched"})]

\* AddReceived, in a transaction: the marker of the fold, nothing more if it is
\* there already; then the row, and an error if there is none.
MarkReceived(a) ==
    LET mark == [event |-> a.event, sku |-> a.sku, qty |-> a.qty]
    IN /\ Call("AddReceived")
       /\ tx' = IF Conflicting(db.transfer_receipts, mark, {"event", "sku"}) # {} THEN NoTx
                ELSE [NoTx EXCEPT !.of = "AddReceived", !.arrival = {a},
                        !.tables = [db EXCEPT !.transfer_receipts = @ \cup {mark}]]
       /\ UNCHANGED <<db, central>>

\* Mutant of AddToRow: the marker stays when there is no row.
AddToRowOrMark ==
    /\ tx.of = "AddReceived"
    /\ \E a \in tx.arrival :
          LET rows == Conflicting(db.in_transit, a, TransitKey)
          IN db' = [tx.tables EXCEPT !.in_transit = (@ \ rows) \cup Added(rows, a.qty)]
    /\ tx' = NoTx
    /\ UNCHANGED <<central, workload, calls>>

AddToRow ==
    /\ tx.of = "AddReceived"
    /\ \E a \in tx.arrival :
          LET rows == Conflicting(db.in_transit, a, TransitKey)
          IN db' = IF rows = {} THEN db
                   ELSE [tx.tables EXCEPT !.in_transit = (@ \ rows) \cup Added(rows, a.qty)]
    /\ tx' = NoTx
    /\ UNCHANGED <<central, workload, calls>>

ReceivedFromEvent(id, sku) ==
    MapThenSumSet(LAMBDA r : r.qty, {r \in db.transfer_receipts : r.event = id /\ r.sku = sku})

InTransit(transfer, sku) ==
    {r \in db.in_transit : r.transfer = transfer /\ r.sku = sku}

FailTransfer(transfer) ==
    /\ Statement("FailTransfer")
    /\ db' = [db EXCEPT !.in_transit =
          {IF r.transfer = transfer THEN [r EXCEPT !.failed = TRUE] ELSE r : r \in @}]

OpenTransfers(before) ==
    SetToSortSeq({r \in db.in_transit : /\ r.failed = FALSE
                                        /\ r.dispatched - r.received > 0
                                        /\ r.on < before}, ReportedBefore)

-----------------------------------------------------------------------------
(* Decisions *)

RecordDecision(d) ==
    /\ Statement("RecordDecision")
    /\ db' = [db EXCEPT !.decisions = Upsert(@, d, {"event"}, {"verdict", "comp"})]

Decision(id) == {r \in db.decisions : r.event = id}

-----------------------------------------------------------------------------
(* Transactions end, and the process restarts *)

CommitRegistration ==
    /\ tx.of = "RegisterNode" /\ tx.rejects = {}
    /\ db' = tx.tables
    /\ tx' = NoTx
    /\ UNCHANGED <<central, workload, calls>>

\* A statement fails, or the connection is lost: the caller gets an error.
Rollback ==
    /\ tx # NoTx
    /\ tx' = NoTx
    /\ UNCHANGED <<db, central, workload, calls>>

\* The process dies; OpenPostgres.
Restart ==
    /\ tx' = NoTx
    /\ central' = Recovered
    /\ UNCHANGED <<db, workload, calls>>

Write ==
    \/ \E env \in Sent : AppendEvent(env)
    \/ \E cause \in {e.id : e \in Stored \cap Sent} \cup {NoEvent}, now \in Walls :
          EmitCentral(cause, now)
    \/ \E n \in Nodes :
          \/ \E seq \in 1..Cardinality(Sent) : SetPushedSeq(n, seq)
          \/ \E r \in Queued(n) : SetDeliveredOrd(n, r.ord)
          \/ \E env \in Stored : Enqueue(n, env)
          \/ \E refused \in Refusals : RegisterNode(n, refused)
    \/ \E item \in Master : UpsertItem(item)
    \/ \E line \in Orders : UpsertPurchaseOrder(line)
    \/ \E f \in Facts : RecordReceipt(f)
    \/ \E row \in Dispatched : RecordDispatch(row) \/ FailTransfer(row.transfer)
    \/ \E a \in Arrived : MarkReceived(a)
    \/ \E d \in Outcomes : RecordDecision(d)

Next == Write \/ InsertReject \/ CommitRegistration \/ AddToRow \/ Rollback \/ Restart

Spec == Init /\ [][Next]_vars
=============================================================================
