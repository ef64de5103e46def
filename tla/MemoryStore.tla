----------------------------- MODULE MemoryStore -----------------------------
(***************************************************************************)
(* What warehouse-node's central server persists, as central.Memory keeps   *)
(* it: maps, and one critical section per call.  A batch is the calls of    *)
(* its envelopes one after the other.  Tests run on this store and          *)
(* deployments on PostgresStore, which is shown to implement it.            *)
(***************************************************************************)
EXTENDS StoreCalls

VARIABLE m   \* the fields of Memory

NewMemory ==
    [events |-> <<>>, centralHL |-> 0, centralN |-> 0,
     pushed |-> [n \in Nodes |-> 0], delivered |-> [n \in Nodes |-> 0],
     queue |-> [n \in Nodes |-> <<>>], nextOrd |-> 0, enqueued |-> {},
     items |-> <<>>, orders |-> <<>>, nodes |-> <<>>,
     receipts |-> <<>>, transit |-> <<>>, folded |-> <<>>, decisions |-> <<>>]

\* Maps: set a key; what a key is set to, if it is; all that is in a map.
Put(f, k, v) == [x \in DOMAIN f \cup {k} |-> IF x = k THEN v ELSE f[x]]
Has(f, k) == k \in DOMAIN f
Get(f, k) == IF Has(f, k) THEN {f[k]} ELSE {}
Values(f) == {f[k] : k \in DOMAIN f}

-----------------------------------------------------------------------------
(* The log *)

AppendEvent(env) ==
    m' = IF Has(m.events, env.id) THEN m ELSE [m EXCEPT !.events = Put(@, env.id, env)]

Events == SetToSortSeq(Values(m.events), Before)
CompensationsOf(id) == SelectSeq(Events, LAMBDA e : e.cause = id)

\* The reading of central's next event, after the event that caused it if any.
NextReading(cause, now) ==
    IF cause = NoEvent THEN Tick(m.centralHL, now)
    ELSE Merge(m.centralHL, IF Has(m.events, cause) THEN m.events[cause].at ELSE 0, now)

EmitCentral(cause, now) ==
    LET env == [id |-> <<CentralNode, m.centralN + 1>>, at |-> NextReading(cause, now),
                cause |-> cause]
    IN m' = [m EXCEPT !.centralN = @ + 1, !.centralHL = env.at,
                      !.events = Put(@, env.id, env)]

\* The event cannot be sealed: what was drawn for it is lost.
EmitFails(cause, now) ==
    m' = [m EXCEPT !.centralN = @ + 1, !.centralHL = NextReading(cause, now)]

-----------------------------------------------------------------------------
(* Cursors and queues *)

PushedSeq(n) == m.pushed[n]
SetPushedSeq(n, seq) == m' = [m EXCEPT !.pushed[n] = seq]
DeliveredOrd(n) == m.delivered[n]
SetDeliveredOrd(n, ord) == m' = [m EXCEPT !.delivered[n] = ord]

Enqueue(target, env) ==
    m' = IF <<target, env.id>> \in m.enqueued THEN m
         ELSE [m EXCEPT !.enqueued = @ \cup {<<target, env.id>>}, !.nextOrd = @ + 1,
                        !.queue[target] = Append(@, [ord |-> m.nextOrd + 1, env |-> env])]

Outbound(target, after, limit) ==
    LET rows == SelectSeq(m.queue[target], LAMBDA r : r.ord > after)
    IN SubSeq(rows, 1, IF limit < Len(rows) THEN limit ELSE Len(rows))

-----------------------------------------------------------------------------
(* Reference data *)

UpsertItem(item) == m' = [m EXCEPT !.items = Put(@, item.sku, item)]
Item(sku) == Get(m.items, sku)

UpsertPurchaseOrder(line) == m' = [m EXCEPT !.orders = Put(@, <<line.po, line.sku>>, line.qty)]
PurchaseOrder(po, sku) == Get(m.orders, <<po, sku>>)

RegisterNode(n, refused) == m' = [m EXCEPT !.nodes = Put(@, n, refused)]
NodeConfig(n) == Get(m.nodes, n)

-----------------------------------------------------------------------------
(* Receipts *)

RecordReceipt(f) ==
    m' = IF Has(m.receipts, f.event) THEN m ELSE [m EXCEPT !.receipts = Put(@, f.event, f)]
Receipt(id) == Get(m.receipts, id)

ReceivedAgainstPO(po, sku) ==
    MapThenSumSet(LAMBDA f : f.qty, {f \in Values(m.receipts) : f.po = po /\ f.sku = sku})

\* The least identity, whatever arrived first.
DeliveryNoteFirstSeen(note, sku) ==
    LET keyed == {f.event : f \in {f \in Values(m.receipts) : f.note = note /\ f.sku = sku}}
    IN IF keyed = {} THEN NoEvent
       ELSE CHOOSE a \in keyed : \A b \in keyed \ {a} : Less(a, b)

-----------------------------------------------------------------------------
(* Transfers *)

RecordDispatch(row) ==
    LET key == <<row.transfer, row.sku>>
    IN m' = [m EXCEPT !.transit =
              IF Has(@, key) THEN [@ EXCEPT ![key].dispatched = row.dispatched]
              ELSE Put(@, key, row)]

\* An arrival of what was not dispatched is an error; a second fold does nothing.
AddReceived(a) ==
    LET key == <<a.transfer, a.sku>>
        fold == <<a.event, a.sku>>
    IN m' = IF ~ Has(m.transit, key) \/ Has(m.folded, fold) THEN m
            ELSE [m EXCEPT !.folded = Put(@, fold, a.qty), !.transit[key].received = @ + a.qty]

ReceivedFromEvent(id, sku) == IF Has(m.folded, <<id, sku>>) THEN m.folded[<<id, sku>>] ELSE 0
InTransit(transfer, sku) == Get(m.transit, <<transfer, sku>>)

FailTransfer(transfer) ==
    m' = [m EXCEPT !.transit =
            [key \in DOMAIN @ |-> IF key[1] = transfer THEN [@[key] EXCEPT !.failed = TRUE]
                                  ELSE @[key]]]

OpenTransfers(before) ==
    SetToSortSeq({r \in Values(m.transit) : /\ ~ r.failed
                                            /\ r.dispatched - r.received > 0
                                            /\ r.on < before}, ReportedBefore)

-----------------------------------------------------------------------------
(* Decisions *)

RecordDecision(d) == m' = [m EXCEPT !.decisions = Put(@, d.event, d)]
Decision(id) == Get(m.decisions, id)

-----------------------------------------------------------------------------
Init == m = NewMemory

Next ==
    \/ \E env \in Sent : AppendEvent(env)
    \/ \E cause \in DOMAIN m.events \cup {NoEvent}, now \in Walls :
          EmitCentral(cause, now) \/ EmitFails(cause, now)
    \/ \E n \in Nodes :
          \/ \E seq \in 0..Cardinality(Sent) : SetPushedSeq(n, seq)
          \/ \E ord \in 1..m.nextOrd : SetDeliveredOrd(n, ord)
          \/ \E env \in Values(m.events) : Enqueue(n, env)
          \/ \E refused \in Refusals : RegisterNode(n, refused)
    \/ \E item \in Master : UpsertItem(item)
    \/ \E line \in Orders : UpsertPurchaseOrder(line)
    \/ \E f \in Facts : RecordReceipt(f)
    \/ \E row \in Dispatched : RecordDispatch(row) \/ FailTransfer(row.transfer)
    \/ \E a \in Arrived : AddReceived(a)
    \/ \E d \in Outcomes : RecordDecision(d)

Spec == Init /\ [][Next]_m
=============================================================================
