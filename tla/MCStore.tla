------------------------------ MODULE MCStore ------------------------------
(* A small instance of StoreProperties for TLC. *)
EXTENDS StoreProperties

\* SKUs and transfers are numbers, to keep the order of their names.
a == 1
b == 2
t == 1
u == 2

Env(n, seq, at) == [id |-> <<n, seq>>, at |-> at, cause |-> NoEvent]
Receive(n, seq, note, sku, qty) ==
    [event |-> <<n, seq>>, node |-> n, po |-> "po", note |-> note, sku |-> sku, qty |-> qty]
Row(transfer, sku, qty, on) ==
    [transfer |-> transfer, sku |-> sku, from |-> 1, to |-> 2,
     dispatched |-> qty, received |-> 0, on |-> on, failed |-> FALSE]
Arrival(seq, transfer, sku, qty) ==
    [event |-> <<2, seq>>, transfer |-> transfer, sku |-> sku, qty |-> qty]
Decide(n, seq, verdict, comp) == [event |-> <<n, seq>>, verdict |-> verdict, comp |-> comp]

\* Two nodes, one ahead of central's clock; their events tie, and sort against the
\* order they arrive in.
MCSent == {Env(1, 1, 2), Env(1, 2, 5), Env(2, 1, 2)}
MCFacts == {Receive(1, 2, "n", a, 2), Receive(2, 1, "n", a, 3), Receive(1, 1, "n", b, 1)}

\* A dispatch sent again, and one of the same transfer with another quantity.
MCDispatched == {Row(t, a, 3, 1), Row(t, a, 2, 1), Row(u, b, 1, 2)}
MCArrived == {Arrival(1, t, a, 2), Arrival(2, t, a, 1), Arrival(2, u, b, 1)}
MCOutcomes == {Decide(1, 1, "accepted", NoEvent), Decide(1, 1, "rejected", <<CentralNode, 1>>)}

MCMaster == {[sku |-> a, deleted |-> FALSE], [sku |-> a, deleted |-> TRUE],
             [sku |-> b, deleted |-> FALSE]}
MCOrders == {[po |-> "po", sku |-> a, qty |-> 2], [po |-> "po", sku |-> a, qty |-> 4],
             [po |-> "po", sku |-> b, qty |-> 1]}
MCRefusals == {{}, {a}, {a, b}}

\* Calls that touch the same tables; the others do not tell of them.
MCWorkloads ==
    { {"Append", "EmitCentral", "RecordDecision"},
      {"Append", "Enqueue", "SetPushedSeq", "SetDeliveredOrd"},
      {"UpsertItem", "UpsertPurchaseOrder", "RegisterNode"},
      {"RecordReceipt", "UpsertPurchaseOrder"},
      {"RecordDispatch", "AddReceived", "FailTransfer"} }
=============================================================================
