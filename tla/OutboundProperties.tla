------------------------- MODULE OutboundProperties -------------------------
(***************************************************************************)
(* What the downstream queue is meant to guarantee, and its refinement of   *)
(* Delivery.                                                                *)
(***************************************************************************)
EXTENDS Outbound

\* The position a node acknowledged, and the one it keeps itself, never pass a row
\* that has not taken effect there: neither a lost session, a crash between the log
\* and the projections, nor a late acknowledgement of an older session makes central
\* skip an envelope (applyDownstream, SetDeliveredOrd).
NeverSkipped ==
    \A r \in rows : r.ord <= delivered \/ r.ord <= pulled => r.env \in applied

\* Everything queued takes effect at the node in the end, once sessions stop failing;
\* with finitely many envelopes the queue stops growing too (push, Run).
EventuallyApplied == <>[](EnvsOf(rows) \subseteq applied)

\* The queue as a sequence: at each place the row with that many positions up to its
\* own (Enqueue's serial key, Outbound's ORDER BY).
Place(r) == Cardinality({q \in rows : q.ord <= r.ord})
QueueOf == [i \in 1..Cardinality(rows) |-> (CHOOSE r \in rows : Place(r) = i).env]

\* The queue, its cursors and the node together are a reliable FIFO queue: whatever
\* is applied is a prefix of what was queued, at every step of every batch (push,
\* Ingest and the applied markers).
AbstractQueue == INSTANCE Delivery WITH queue <- QueueOf
DeliveryRefined == AbstractQueue!Spec
=============================================================================
