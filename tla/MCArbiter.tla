------------------------------ MODULE MCArbiter ------------------------------
(* Small instances of ArbiterProperties for TLC. *)
EXTENDS ArbiterProperties, TLC

\* Handlers are interchangeable; used for safety only.
HandlerSymmetry == Permutations(Handlers)

Goods(receipt, note, po, sku, qty) ==
    [kind |-> "GoodsReceived", receipt |-> receipt, note |-> note, po |-> po,
     lines |-> <<[sku |-> sku, qty |-> qty]>>]
Ship(tid, to, lines) ==
    [kind |-> "TransferDispatched", transfer |-> tid, to |-> to, lines |-> lines]
Arrive(tid, lines) == [kind |-> "TransferReceived", transfer |-> tid, lines |-> lines]
Other == [kind |-> "Other", lines |-> <<>>]
L(sku, qty) == [sku |-> sku, qty |-> qty]

\* Node 3 is not registered; node 2 refuses sku "b"; the master lacks sku "x".
MCNodes == {1, 2}
MCSKUs == {"a", "b", "x"}
MCItems == {"a", "b"}
MCOrdered == (<<"po", "a">> :> 4)
MCRejects == (1 :> {}) @@ (2 :> {"b"})
MCThreeNodes == {1, 2, 3}

\* Two nodes receive against one order and one note, in the quantities that make
\* the second receipt fit, overrun in part, overrun whole, or repeat the note.
ReceiptWorkloads ==
    { (1 :> <<Goods(1, "n1", "po", "a", q1), Other>>) @@
      (2 :> <<Goods(2, n, "po", "a", q2), Goods(3, "n3", "po", s, 2)>>) @@ (3 :> <<>>)
        : q1 \in {3, 5}, q2 \in {1, 2}, n \in {"n1", "n2"}, s \in {"a", "x"} }

\* The ones where the races matter: order and note contended by both nodes.
RacingWorkloads ==
    { (1 :> <<Goods(1, "n1", "po", "a", q1)>>) @@
      (2 :> <<Goods(2, "n1", "po", "a", 3), Goods(3, "n3", "po", s, 2)>>)
        : <<q1, s>> \in {<<5, "a">>, <<3, "x">>} }

\* A transfer between two warehouses: accepted, and received short, over, with an
\* unknown or an undispatched SKU; or rejected for one of its SKUs or its
\* destination.  A node stops receiving once everything dispatched has arrived.
TransferWorkloads ==
    LET between(source, destination, shipped, arrived) ==
          [n \in MCThreeNodes |->
             CASE n = source      -> <<Ship("t", destination, shipped)>>
               [] n = destination -> arrived
               [] OTHER           -> <<>>]
    IN { between(1, 2, <<L("a", 3)>>, <<Arrive("t", <<L("a", 2)>>), Arrive("t", <<L("a", 2)>>)>>),
         between(1, 2, <<L("a", 3)>>,
                 <<Arrive("t", <<L("a", 2), L("x", 1)>>), Arrive("t", <<L("b", 1)>>)>>),
         between(2, 1, <<L("a", 2), L("b", 2)>>,
                 <<Arrive("t", <<L("a", 3), L("b", 1)>>), Arrive("t", <<L("b", 1)>>)>>),
         between(1, 2, <<L("a", 1), L("b", 2)>>, <<Other>>),
         between(1, 3, <<L("a", 2)>>, <<>>),
         between(1, 2, <<L("x", 1)>>, <<Other>>) }

\* Receipts in turn, and transfers by sessions that overlap.
MCWorkloads == ReceiptWorkloads \cup TransferWorkloads
NoWorkloads == {}

-----------------------------------------------------------------------------
(* Instances that show where the code departs from what it says. *)

\* A receipt over its order at the only node that sends anything.
OverOrderWorkloads ==
    { (1 :> <<Goods(1, "n1", "po", "a", 5)>>) @@ (2 :> <<>>) }

\* A dispatch of two SKUs one of which central does not know; a dispatch, and an
\* arrival, with two lines of one SKU.
OddLinesWorkloads ==
    { (1 :> <<Ship("t", 2, <<L("a", 2), L("x", 1)>>)>>) @@ (2 :> <<>>),
      (1 :> <<Ship("t", 2, <<L("a", 2), L("a", 1)>>)>>) @@ (2 :> <<>>),
      (1 :> <<Ship("t", 2, <<L("a", 4)>>)>>) @@
      (2 :> <<Arrive("t", <<L("a", 2), L("a", 1)>>)>>) }

\* Those, and the receipts that race.
UnsoundWorkloads == OverOrderWorkloads \cup OddLinesWorkloads \cup RacingWorkloads
=============================================================================
