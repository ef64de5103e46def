--------------------------- MODULE StoreProperties ---------------------------
(***************************************************************************)
(* PostgresStore implements MemoryStore: what its tables hold is what the   *)
(* maps would, and every read gives the same answer.                        *)
(***************************************************************************)
EXTENDS PostgresStore

Unique(table, key) == \A r, s \in table : (\A column \in key : r[column] = s[column]) => r = s

\* Rows belong to what is asked of the store, and no table holds a key twice,
\* whatever is retried (the primary keys of schema.sql).
TypeOK ==
    /\ {Envelope(r) : r \in {r \in db.events : r.node_id # CentralNode}} \subseteq Sent
    /\ Unique(db.events, {"node_id", "seq"})
    /\ Unique(db.cursors, {"node_id"})
    /\ Unique(db.outbound, {"ord"}) /\ Unique(db.outbound, {"target_node", "node_id", "seq"})
    /\ \A r \in db.outbound : r.ord \in 1..db.drawn
    /\ Unique(db.items, {"sku"}) /\ db.items \subseteq Master
    /\ Unique(db.purchase_orders, {"po", "sku"}) /\ db.purchase_orders \subseteq Orders
    /\ db.nodes \subseteq Nodes /\ \A r \in db.node_rejects : r.node_id \in db.nodes
    /\ Unique(db.receipts, {"event"}) /\ db.receipts \subseteq Facts
    /\ Unique(db.in_transit, TransitKey)
    /\ Unique(db.transfer_receipts, {"event", "sku"})
    /\ Unique(db.decisions, {"event"}) /\ db.decisions \subseteq Outcomes
    /\ central \in [seq : Nat, hl : Nat]
    /\ tx.of \in {"none", "AddReceived", "RegisterNode"}
    /\ workload \in Workloads
    /\ calls \in 0..MaxCalls

-----------------------------------------------------------------------------
(* The maps the tables stand for *)

\* Positions drawn for an event that was queued already are not used: a position
\* counts the rows up to it.
Rank(ord) == Cardinality({r \in db.outbound : r.ord <= ord})
Ranked(rows) == [i \in DOMAIN rows |-> [rows[i] EXCEPT !.ord = Rank(@)]]

\* The rows of a node in their order: the i-th is the one up to which there are i.
Place(r) == Cardinality({s \in Queued(r.target_node) : s.ord <= r.ord})
EventOf(r) == CHOOSE e \in Stored : e.id = <<r.node_id, r.seq>>
InOrder(n) ==
    [i \in 1..Cardinality(Queued(n)) |->
        LET r == CHOOSE r \in Queued(n) : Place(r) = i
        IN [ord |-> Rank(r.ord), env |-> EventOf(r)]]

\* The map of a table: its rows, or one column of them, by key.
ByKey(table, Key(_), Value(_)) ==
    [k \in {Key(r) : r \in table} |-> Value(CHOOSE r \in table : Key(r) = k)]
Whole(r) == r

Loaded ==
    [events |-> ByKey(Stored, LAMBDA e : e.id, Whole),
     centralHL |-> central.hl, centralN |-> central.seq,
     pushed |-> [n \in Nodes |-> PushedSeq(n)],
     delivered |-> [n \in Nodes |-> Rank(DeliveredOrd(n))],
     queue |-> [n \in Nodes |-> InOrder(n)],
     nextOrd |-> Cardinality(db.outbound),
     enqueued |-> {<<r.target_node, <<r.node_id, r.seq>>>> : r \in db.outbound},
     items |-> ByKey(db.items, LAMBDA r : r.sku, Whole),
     orders |-> ByKey(db.purchase_orders, LAMBDA r : <<r.po, r.sku>>, LAMBDA r : r.qty),
     nodes |-> ByKey(db.nodes, Whole,
                     LAMBDA n : {r.sku : r \in {r \in db.node_rejects : r.node_id = n}}),
     receipts |-> ByKey(db.receipts, LAMBDA r : r.event, Whole),
     transit |-> ByKey(db.in_transit, LAMBDA r : <<r.transfer, r.sku>>, Whole),
     folded |-> ByKey(db.transfer_receipts, LAMBDA r : <<r.event, r.sku>>, LAMBDA r : r.qty),
     decisions |-> ByKey(db.decisions, LAMBDA r : r.event, Whole)]

Memory == INSTANCE MemoryStore WITH m <- Loaded

\* A Memory never restarts.  What a restart promises: nothing stored is lost, and
\* the sequence and the clock go on from the last event central has stored.
Reopened ==
    LET own == {e \in Stored : e.id[1] = CentralNode}
        last == IF own = {} THEN [id |-> NoEvent, at |-> 0]
                ELSE CHOOSE e \in own : \A f \in own : f.id[2] <= e.id[2]
    IN Loaded' = [Loaded EXCEPT !.centralN = last.id[2], !.centralHL = last.at]

\* Whatever is called, retried, rolled back or cut short by a crash, the tables go
\* through states that Memory's maps go through: what tests of the arbiter and of
\* sync see on Memory holds on Postgres (runStoreContract, store.go:6-9).
MemoryImplemented == Memory!Init /\ [][Memory!Next \/ Reopened]_Loaded

\* The queries and the loops over maps give the same answers to all that is read.
AnswersAgree ==
    LET ids == {e.id : e \in Sent} \cup {f.event : f \in Facts}
        lines == {<<f.po, f.sku>> : f \in Facts} \cup {<<r.po, r.sku>> : r \in Orders}
        rows == {<<r.transfer, r.sku>> : r \in Dispatched \cup Arrived}
    IN /\ Events = Memory!Events
       /\ \A id \in ids :
             /\ CompensationsOf(id) = Memory!CompensationsOf(id)
             /\ Receipt(id) = Memory!Receipt(id)
             /\ Decision(id) = Memory!Decision(id)
             /\ \A row \in rows :
                   ReceivedFromEvent(id, row[2]) = Memory!ReceivedFromEvent(id, row[2])
       /\ \A n \in Nodes :
             /\ NodeConfig(n) = Memory!NodeConfig(n)
             /\ \A after \in 0..db.drawn, limit \in {1, 2} :
                   Ranked(Outbound(n, after, limit)) = Memory!Outbound(n, Rank(after), limit)
       /\ \A item \in Master : Item(item.sku) = Memory!Item(item.sku)
       /\ \A line \in lines :
             /\ PurchaseOrder(line[1], line[2]) = Memory!PurchaseOrder(line[1], line[2])
             /\ ReceivedAgainstPO(line[1], line[2]) = Memory!ReceivedAgainstPO(line[1], line[2])
       /\ \A f \in Facts :
             DeliveryNoteFirstSeen(f.note, f.sku) = Memory!DeliveryNoteFirstSeen(f.note, f.sku)
       /\ \A row \in rows :
             InTransit(row[1], row[2]) = Memory!InTransit(row[1], row[2])
       /\ \A r \in Dispatched, late \in {0, 1} :
             OpenTransfers(r.on + late) = Memory!OpenTransfers(r.on + late)

-----------------------------------------------------------------------------
\* What central emits sorts after all it emitted before and after what it answers,
\* under a sequence number never stored before, though its wall clock is set back,
\* an insert fails and the process restarts (EmitCentral, recoverCentral).
CentralSortsLast ==
    [][\A e \in Stored' \ Stored : e.id[1] = CentralNode =>
          \A f \in Stored :
             /\ f.id[1] = CentralNode => f.id[2] < e.id[2] /\ f.at < e.at
             /\ f.id = e.cause => f.at < e.at]_vars
=============================================================================
