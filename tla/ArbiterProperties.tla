-------------------------- MODULE ArbiterProperties --------------------------
(***************************************************************************)
(* What central arbitration is meant to guarantee.                         *)
(***************************************************************************)
EXTENDS Arbiter, FiniteSetsExt

IsRejected(id) == decisions[id] \in Reasons
LinesOf(id) == DOMAIN Payload(id).lines
\* The events of nodes that open no stream while a handler still serves their last.
Orderly == {id \in Ids : id[1] \notin HalfOpen}
Recorded == {id \in Ids : id[2] <= Len(log[id[1]])}
OfKind(kind) == {id \in Recorded : Payload(id).kind = kind}

\* The quantity of a SKU an event booked at its node.
Booked(id, sku) ==
    LET lines == Payload(id).lines
    IN MapThenSumSet(LAMBDA i : lines[i].qty, {i \in DOMAIN lines : lines[i].sku = sku})

\* How much of it the compensations of the event have reversed.
Reversed(id, sku) ==
    MapThenSumSet(LAMBDA k : comps[id][k].qty,
        {k \in DOMAIN comps[id] :
            /\ Payload(id).lines[comps[id][k].line].sku = sku
            /\ ~ comps[id][k].paper})

\* How much of it central's own books count for the event.
Counted(id, sku) ==
    LET p == Payload(id)
    IN CASE p.kind = "GoodsReceived"      -> Receipt(id)
         [] p.kind = "TransferReceived"   -> folded[<<id, sku>>]
         [] p.kind = "TransferDispatched" ->
              LET row == transit[<<p.transfer, sku>>]
              IN IF row.failed THEN 0 ELSE row.dispatched

-----------------------------------------------------------------------------
(* Safety *)

\* An event whose sequence central or its node has been told is stored has a
\* decision: no cursor ever jumps over an event whose arbitration failed or was
\* lost half way (receive and SetPushedSeq in server.go, pushBacklog in client.go).
AckedDecided ==
    \A n \in Nodes : \A i \in 1..MaxSeq :
        i <= cursor[n] \/ i <= pushed[n] => Decided(<<n, i>>)

\* However often Arbitrate is retried, no line of an event is compensated twice, if no
\* two attempts overlap: EmitCentral is not idempotent and only the causation lookup
\* guards it.
CompensatedOnce ==
    \A id \in Orderly : \A j, k \in DOMAIN comps[id] :
        comps[id][j].line = comps[id][k].line /\ comps[id][j].paper = comps[id][k].paper
            => j = k

\* The decision tells the truth about the log and the queue: an accepted event has
\* no compensation, a rejected one has some, and all of them are queued for the
\* node that produced it before the decision is on record (the last part of Arbitrate).
DecisionMatchesLog ==
    \A id \in Orderly :
        /\ decisions[id] = "accepted" => comps[id] = <<>>
        /\ IsRejected(id) =>
             /\ comps[id] # <<>>
             /\ \A k \in DOMAIN comps[id] : CompRef(id, k) \in outbound[id[1]]

\* The compensations on record for a rejected event are those of the rejection
\* decided, never what an earlier attempt left of another one: a partial set must
\* be surfaced, not taken for the whole rejection.
PartialSetNeverWhole ==
    \A id \in Ids : IsRejected(id) =>
        \A k \in DOMAIN comps[id] : comps[id][k].reason = decisions[id]

\* Of what an event booked at its node of a SKU, central's own books count one part
\* and the compensations reverse the rest, once the event is decided: nothing is
\* counted and reversed, and nothing is lost, whatever the retries (record and the
\* validators of arbiter/).
BooksAgree ==
    \A id \in Recorded : Decided(id) =>
        \A i \in LinesOf(id) :
            LET sku == Payload(id).lines[i].sku
            IN Counted(id, sku) + Reversed(id, sku) = Booked(id, sku)

\* No purchase order line is received past its ordered quantity (poOverReceipt).
POWithinOrder ==
    \A line \in DOMAIN Ordered : ReceivedAgainstPO(line[1], line[2]) <= Ordered[line]

\* A supplier delivery note is honoured for one receipt line per SKU: of two
\* decided receipts with the same note and SKU, at most one was not a duplicate.
NoteHonouredOnce ==
    \A a, b \in OfKind("GoodsReceived") :
        /\ Payload(a).note = Payload(b).note
        /\ Payload(a).lines[1].sku = Payload(b).lines[1].sku
        /\ {decisions[a], decisions[b]} \subseteq {"accepted", "po_overreceipt"}
        => a = b

\* Central's books are sound: they account for all that was booked, stay within the
\* orders and honour a note once.  It is central that holds what a warehouse cannot
\* know (README.md:15-17).
BooksSound == BooksAgree /\ POWithinOrder /\ NoteHonouredOnce

\* What has arrived of a transfer line never exceeds what was dispatched, and it is
\* the sum of what central folded in per arrival (AddReceived and its marker).
TransitBalanced ==
    \A tid \in Transfers, sku \in SKUs :
        LET row == transit[<<tid, sku>>]
            arrivals == {id \in OfKind("TransferReceived") : Payload(id).transfer = tid}
        IN /\ row.received <= row.dispatched
           /\ row.received = MapThenSumSet(LAMBDA id : folded[<<id, sku>>], arrivals)

\* Both ends of a transfer learn of it, and of a dead one the destination never
\* does: a decided dispatch is in the destination's queue exactly if it was
\* accepted, otherwise its rows are all failed; a decided arrival of dispatched
\* goods is in the source's queue (fanOut).
TransferFannedOut ==
    /\ \A id \in OfKind("TransferDispatched") : Decided(id) =>
        LET p == Payload(id)
        IN /\ EventRef(id) \in outbound[p.to] <=> decisions[id] = "accepted"
           /\ IsRejected(id) => \A i \in LinesOf(id) :
                transit[<<p.transfer, p.lines[i].sku>>].failed
    /\ \A id \in OfKind("TransferReceived") : Decided(id) =>
        \A i \in LinesOf(id) :
            LET row == transit[<<Payload(id).transfer, Payload(id).lines[i].sku>>]
            IN row # NoRow => EventRef(id) \in outbound[row.from]

-----------------------------------------------------------------------------
(* Action properties *)

\* A decision settles an event for good: no later step, a retry or a resent batch
\* included, changes the decision or adds a compensation, a receipt or an arrival
\* for it (the check Arbitrate starts with).
SettledForGood ==
    [][\A id \in Orderly : Decided(id) =>
          /\ decisions'[id] = decisions[id]
          /\ comps'[id] = comps[id]
          /\ receipts'[id] = receipts[id]
          /\ \A sku \in SKUs : folded'[<<id, sku>>] = folded[<<id, sku>>]]_vars

-----------------------------------------------------------------------------
(* Liveness *)

\* The events of a node that it can have recorded by now.
Backlog(n) == {<<n, i>> : i \in {j \in 1..Len(log[n]) :
                 \A k \in 1..j : CanRecord(n, log[n][k])}}

\* Once sessions stop failing, every event of a node is decided and the books are
\* sound: a session that dies halfway costs nothing but a retry (server.go:47-49).
SettledInTheEnd ==
    <>[](BooksSound /\ \A n \in Nodes : \A id \in Backlog(n) : Decided(id))

\* Every event of a node is eventually decided, unless one of its events is stuck:
\* undecided with compensations in the log already.  No other hazard (a lost
\* session, a resent batch, a race with another node) stops a node's stream.
DecidedOrStuck ==
    \A n \in Nodes :
        \/ <>[](\A id \in Backlog(n) : Decided(id))
        \/ <>[](\E id \in Backlog(n) : ~ Decided(id) /\ comps[id] # <<>>)
=============================================================================
