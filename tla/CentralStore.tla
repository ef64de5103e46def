---------------------------- MODULE CentralStore ----------------------------
(***************************************************************************)
(* What the central server of warehouse-node persists, and the calls of    *)
(* internal/central.Store as the arbiter sees them.  Every call is one     *)
(* autocommitted statement (Postgres) or one critical section (Memory), so *)
(* each operator below is one atomic step; nothing spans two calls.        *)
(*                                                                         *)
(* A SKU stands for one SKU/lot, quantities are whole numbers, and an      *)
(* event is named by the pair <<node, seq>> its row is keyed by.           *)
(***************************************************************************)
EXTENDS Integers, Sequences, FiniteSets

CONSTANTS
    Nodes,      \* warehouse identities; numbers, to keep the order of the ids
    MaxSeq,     \* the longest log of a node
    SKUs,       \* every SKU (with its lot) an event may name
    POs,        \* purchase order references
    Notes,      \* supplier delivery notes
    Transfers,  \* transfer identities
    Items,      \* the SKUs the live item master has and has not deleted
    Ordered,    \* <<po, sku>> |-> ordered quantity, for the orders central has
    Rejects     \* registered node |-> the SKUs it refuses to stock

ASSUME StoreAssumption ==
    /\ Nodes \subseteq Nat \ {0}
    /\ MaxSeq \in Nat
    /\ Items \subseteq SKUs
    /\ DOMAIN Ordered \subseteq POs \X SKUs
    /\ \A line \in DOMAIN Ordered : Ordered[line] \in Nat
    /\ DOMAIN Rejects \subseteq Nodes

\* The registry of nodes is a table: there are finitely many warehouses.
ASSUME NodesFinite == IsFiniteSet(Nodes)

Ids == Nodes \X (1..MaxSeq)
LineItem == [sku : SKUs, qty : Nat \ {0}]
Lines == Seq(LineItem) \ {<<>>}
OneLine == {lines \in Lines : Len(lines) = 1}

\* The payloads that matter to central, and one that stands for all the others.
\* A GoodsReceived is one line of a receipt.
Receipts   == [kind : {"GoodsReceived"}, receipt : Nat, note : Notes, po : POs,
               lines : OneLine]
Dispatches == [kind : {"TransferDispatched"}, transfer : Transfers, to : Nodes, lines : Lines]
Arrivals   == [kind : {"TransferReceived"}, transfer : Transfers, lines : Lines]
Others     == [kind : {"Other"}, lines : {<<>>}]
Payloads   == Receipts \cup Dispatches \cup Arrivals \cup Others

Reasons == {"unknown_sku", "duplicate_receipt", "po_overreceipt",
            "transfer_rejected", "transfer_overreceipt"}
Verdicts == Reasons \cup {"undecided", "accepted"}

\* A compensating event: what it reverses of which line, and whether it is the
\* StockAdjusted or the negative ReceiptLineRecorded.
Compensation == [reason : Reasons, line : Nat, qty : Nat \ {0}, paper : BOOLEAN]

\* An envelope in a queue: the event itself (k = 0) or its k-th compensation.
Envelopes == [of : Ids, k : Nat]
EventRef(id) == [of |-> id, k |-> 0]
CompRef(id, k) == [of |-> id, k |-> k]

NotRecorded == -1
NoRow == [from |-> 0, to |-> 0, dispatched |-> 0, received |-> 0, failed |-> FALSE]

VARIABLES
    events,     \* ids of the node events in central's log
    comps,      \* per event, the central events caused by it, in log order
    decisions,  \* the audit record: undecided, accepted, or why rejected
    receipts,   \* quantity of the receipt fact of an event, or NotRecorded
    poTotal,    \* <<po, sku>> |-> sum of the receipt facts against it
    transit,    \* <<transfer, sku>> |-> its in-transit row, or NoRow
    folded,     \* <<event, sku>> |-> quantity folded into a row for it, 0 if none
    outbound,   \* node |-> the envelopes queued for it
    pushed      \* node |-> highest sequence central claims to hold

storeVars == <<events, comps, decisions, receipts, poTotal, transit, folded,
               outbound, pushed>>
logVars     == <<events, comps, decisions>>
receiptVars == <<receipts, poTotal>>
transitVars == <<transit, folded>>
queueVars   == <<outbound, pushed>>

StoreTypeOK ==
    /\ events \subseteq Ids
    /\ comps \in [Ids -> Seq(Compensation)]
    /\ decisions \in [Ids -> Verdicts]
    /\ receipts \in [Ids -> Nat \cup {NotRecorded}]
    /\ poTotal \in [POs \X SKUs -> Nat]
    /\ transit \in [Transfers \X SKUs ->
            [from : Nat, to : Nat, dispatched : Nat, received : Nat, failed : BOOLEAN]]
    /\ folded \in [Ids \X SKUs -> Nat]
    /\ outbound \in [Nodes -> SUBSET Envelopes]
    /\ pushed \in [Nodes -> Nat]

StoreInit ==
    /\ events = {}
    /\ comps = [id \in Ids |-> <<>>]
    /\ decisions = [id \in Ids |-> "undecided"]
    /\ receipts = [id \in Ids |-> NotRecorded]
    /\ poTotal = [line \in POs \X SKUs |-> 0]
    /\ transit = [row \in Transfers \X SKUs |-> NoRow]
    /\ folded = [fold \in Ids \X SKUs |-> 0]
    /\ outbound = [n \in Nodes |-> {}]
    /\ pushed = [n \in Nodes |-> 0]

-----------------------------------------------------------------------------
(* Reads *)

Decided(id) == decisions[id] # "undecided"
CompensationsOf(id) == comps[id]

\* The facts are insert-only, so their sum per order line is kept as a total.
ReceivedAgainstPO(po, sku) == poTotal[<<po, sku>>]

Receipt(id) == IF receipts[id] = NotRecorded THEN 0 ELSE receipts[id]

\* The identity order: by node, then by sequence.
Less(a, b) == a[1] < b[1] \/ (a[1] = b[1] /\ a[2] < b[2])

\* The first event to have keyed a note among the recorded ones (Keyed): the
\* least id of them, not the earliest arrival.
DeliveryNoteFirstSeen(Keyed) ==
    CHOOSE a \in Keyed : \A b \in Keyed \ {a} : Less(a, b)

InTransit(tid, sku) == transit[<<tid, sku>>]

ReceivedFromEvent(id, sku) == folded[<<id, sku>>]

-----------------------------------------------------------------------------
(* Writes *)

\* Idempotent by (node, seq).
AppendEvent(id) == events' = events \cup {id}

\* One insert of EmitCentral: central's next event, caused by id.
InsertCompensation(id, c) == comps' = [comps EXCEPT ![id] = Append(@, c)]

\* Mutant of RecordReceipt: the conflict is not ignored, a retry counts again.
RecordReceiptAgain(id, po, sku, qty) ==
    /\ receipts' = [receipts EXCEPT ![id] = qty]
    /\ poTotal' = [poTotal EXCEPT ![<<po, sku>>] = @ + qty]

\* Idempotent per event: the second insert conflicts and does nothing.
RecordReceipt(id, po, sku, qty) ==
    IF receipts[id] = NotRecorded
      THEN /\ receipts' = [receipts EXCEPT ![id] = qty]
           /\ poTotal' = [poTotal EXCEPT ![<<po, sku>>] = @ + qty]
      ELSE UNCHANGED receiptVars

\* Mutant of RecordDispatch: the upsert replaces the whole row.
RecordDispatchAfresh(tid, from, to, line) ==
    transit' = [transit EXCEPT ![<<tid, line.sku>>] =
        [from |-> from, to |-> to, dispatched |-> line.qty, received |-> 0, failed |-> FALSE]]

\* Upsert: an existing row keeps everything but its dispatched quantity.
RecordDispatch(tid, from, to, line) ==
    transit' = [transit EXCEPT ![<<tid, line.sku>>] =
        IF @ = NoRow
          THEN [from |-> from, to |-> to, dispatched |-> line.qty,
                received |-> 0, failed |-> FALSE]
          ELSE [@ EXCEPT !.dispatched = line.qty]]

\* Idempotent per (event, sku): the marker and the balance move together.
AddReceived(id, tid, sku, qty) ==
    IF folded[<<id, sku>>] # 0
      THEN UNCHANGED transitVars
      ELSE /\ folded' = [folded EXCEPT ![<<id, sku>>] = qty]
           /\ transit' = [transit EXCEPT ![<<tid, sku>>].received = @ + qty]

FailTransfer(tid) ==
    transit' = [key \in DOMAIN transit |->
        IF key[1] = tid /\ transit[key] # NoRow
          THEN [transit[key] EXCEPT !.failed = TRUE]
          ELSE transit[key]]

RecordDecision(id, verdict) == decisions' = [decisions EXCEPT ![id] = verdict]

\* Idempotent per (target, envelope).
Enqueue(target, env) == outbound' = [outbound EXCEPT ![target] = @ \cup {env}]

SetPushedSeq(n, seq) == pushed' = [pushed EXCEPT ![n] = seq]
=============================================================================
