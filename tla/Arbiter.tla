------------------------------- MODULE Arbiter -------------------------------
(***************************************************************************)
(* Central arbitration in warehouse-node: the upstream half of sync        *)
(* sessions, each served by a handler (a goroutine of the gRPC server)     *)
(* that arbitrates the events of a batch one after the other.  Arbitrate   *)
(* is a sequence of independent store calls, so a handler takes one step   *)
(* per call on state some other handler may change, and may fail between   *)
(* any two of them.  Calls that read reference data, which no handler      *)
(* changes, are folded into the step before the next such call.            *)
(***************************************************************************)
EXTENDS CentralStore

CONSTANTS
    Handlers,    \* the goroutines serving sessions; bounds how many overlap
    NoHandler,   \* no goroutine
    Workloads,   \* the logs the nodes may have: a set of functions on Nodes
    MaxBatch,    \* most events of one EventBatch
    MaxFailures, \* bound on failed and lost sessions
    HalfOpen,    \* nodes that may give up a stream whose handler lives on
    Serial       \* the workloads in which sessions do not overlap

ASSUME ArbiterAssumption ==
    /\ NoHandler \notin Handlers
    /\ MaxBatch \in Nat \ {0}
    /\ MaxFailures \in Nat
    /\ HalfOpen \subseteq Nodes
    /\ Serial \subseteq Workloads
    /\ \A w \in Workloads :
          /\ w \in [Nodes -> Seq(Payloads)]
          /\ \A n \in Nodes : Len(w[n]) <= MaxSeq

VARIABLES
    log,      \* node |-> its own events, as they will be recorded
    cursor,   \* node |-> CursorPushed of its own log
    client,   \* node |-> the handler at the other end of its stream
    session,  \* handler |-> the local variables of Replicate and Arbitrate
    failures  \* failed and lost sessions so far

vars == <<storeVars, log, cursor, client, session, failures>>
nodeVars == <<log, cursor>>

Phases == {"idle", "receive", "decision", "append", "items", "note", "total",
           "own", "destination", "transit", "folded", "record", "row", "fold",
           "fail", "forward", "comps", "emit", "enqueue", "decide",
           "setpushed", "ack"}

NoRejection == [reason |-> "accepted", events |-> <<>>, excess |-> 0]
IdleSession == [pc |-> "idle", node |-> 0, cur |-> 0, last |-> 0, high |-> 0,
                line |-> 1, seen |-> 0, rej |-> NoRejection, queue |-> {}]

Rejections == [reason : Reasons \cup {"accepted"}, events : Seq(Compensation), excess : Nat]
Sessions == [pc : Phases, node : Nodes \cup {0}, cur : Nat, last : Nat, high : Nat,
             line : Nat, seen : Int, rej : Rejections, queue : SUBSET Nat]

TypeOK ==
    /\ StoreTypeOK
    /\ log \in Workloads
    /\ cursor \in [Nodes -> Nat]
    /\ client \in [Nodes -> Handlers \cup {NoHandler}]
    /\ session \in [Handlers -> Sessions]
    /\ failures \in Nat

Init ==
    /\ StoreInit
    /\ log \in Workloads
    /\ cursor = [n \in Nodes |-> 0]
    /\ client = [n \in Nodes |-> NoHandler]
    /\ session = [h \in Handlers |-> IdleSession]
    /\ failures = 0

-----------------------------------------------------------------------------
(* The event a handler is working on, and where it goes next *)

Payload(id) == log[id[1]][id[2]]
Current(h) == <<session[h].node, session[h].cur>>
P(h) == Payload(Current(h))
Line(h) == P(h).lines[session[h].line]
At(h, pc) == session[h].pc = pc
Rejected(h) == session[h].rej.reason # "accepted"

Min2(a, b) == IF a < b THEN a ELSE b
Max2(a, b) == IF a < b THEN b ELSE a

Become(h, t) == session' = [session EXCEPT ![h] = t]
Goto(h, pc) == Become(h, [session[h] EXCEPT !.pc = pc])

\* The loop over lines: to pc at the next line, or to done at the first again.
NextLine(h, s, pc, done) ==
    IF s.line < Len(P(h).lines)
      THEN [s EXCEPT !.line = s.line + 1, !.seen = 0, !.pc = pc]
      ELSE [s EXCEPT !.line = 1, !.seen = 0, !.pc = done]

\* Arbitrate has returned: on to the next event of the batch.
NextEvent(h) ==
    LET s == session[h]
    IN Become(h, [IdleSession EXCEPT
          !.node = s.node, !.cur = s.cur + 1, !.last = s.last, !.high = s.high,
          !.pc = IF s.cur < s.last THEN "decision" ELSE "setpushed"])

\* Step h from pc, with what the step leaves alone besides the store.
Step(h, pc) ==
    /\ At(h, pc)
    /\ UNCHANGED <<nodeVars, client, failures>>

-----------------------------------------------------------------------------
(* Sessions *)

\* A node records an arrival only once it has learned of the dispatch, which
\* central forwards through the node's queue.
CanRecord(n, p) ==
    p.kind = "TransferReceived" =>
        \E id \in Ids :
            /\ EventRef(id) \in outbound[n]
            /\ Payload(id).kind = "TransferDispatched"
            /\ Payload(id).transfer = p.transfer

HasNext(n, last) == last < Len(log[n]) /\ CanRecord(n, log[n][last + 1])

\* Mutant of Resume: the first event to send is taken for the last one stored.
ResumePast(n) == Min2(cursor[n], pushed[n]) + 1

\* The lower of the two cursors, the node's own and the one of central's Welcome.
Resume(n) == Min2(cursor[n], pushed[n])

\* Hello and Welcome.
Open(h, n) ==
    /\ At(h, "idle")
    /\ client[n] = NoHandler
    /\ n \in HalfOpen \/ \A g \in Handlers : session[g].node # n
    /\ log \in Serial => \A g \in Handlers : At(g, "idle")
    /\ client' = [client EXCEPT ![n] = h]
    /\ Become(h, [IdleSession EXCEPT !.pc = "receive", !.node = n, !.last = Resume(n)])
    /\ UNCHANGED <<storeVars, nodeVars, failures>>

\* The client sends its next batch, an empty one when it has nothing to send,
\* and the handler reads PushedSeq before it arbitrates the first event.
ReceiveBatch(h) ==
    LET s == session[h]
        n == s.node
    IN /\ Step(h, "receive")
       /\ client[n] = h
       /\ \/ \E k \in 1..MaxBatch :
                /\ s.last + k <= Len(log[n])
                /\ \A i \in s.last + 1 .. s.last + k : CanRecord(n, log[n][i])
                /\ Become(h, [s EXCEPT !.pc = "decision", !.cur = s.last + 1,
                                       !.last = s.last + k,
                                       !.high = Max2(pushed[n], s.last + k)])
          \/ /\ ~ HasNext(n, s.last)
             /\ Become(h, [s EXCEPT !.pc = "setpushed", !.cur = s.last + 1,
                                    !.high = pushed[n]])
       /\ UNCHANGED storeVars

StorePushed(h) ==
    /\ Step(h, "setpushed")
    /\ SetPushedSeq(session[h].node, session[h].high)
    /\ Goto(h, "ack")
    /\ UNCHANGED <<logVars, receiptVars, transitVars, outbound>>

\* The client stores the acknowledged sequence and sends the next batch, or the
\* session moves on to its downstream half and leaves this module.
Ack(h) ==
    LET s == session[h]
        n == s.node
    IN /\ At(h, "ack")
       /\ client[n] = h
       /\ cursor' = [cursor EXCEPT ![n] = IF s.high > 0 THEN s.high ELSE @]
       /\ \/ /\ HasNext(n, s.last)
             /\ Goto(h, "receive")
             /\ UNCHANGED client
          \/ /\ Become(h, IdleSession)
             /\ client' = [client EXCEPT ![n] = NoHandler]
       /\ UNCHANGED <<storeVars, log, failures>>

\* A store call or the stream fails: Replicate returns, and with it the client's
\* Session.  A crash of central is this step of every handler.
End(h) ==
    /\ Become(h, IdleSession)
    /\ client' = [n \in Nodes |-> IF client[n] = h THEN NoHandler ELSE client[n]]
    /\ UNCHANGED <<storeVars, nodeVars>>

Fail(h) ==
    /\ ~ At(h, "idle")
    /\ failures < MaxFailures
    /\ failures' = failures + 1
    /\ End(h)

\* The client gives up; the handler has yet to notice and keeps arbitrating.
Detach(n) ==
    /\ n \in HalfOpen
    /\ client[n] # NoHandler
    /\ failures < MaxFailures
    /\ failures' = failures + 1
    /\ client' = [client EXCEPT ![n] = NoHandler]
    /\ UNCHANGED <<storeVars, nodeVars, session>>

\* The handler notices when it next turns to the stream.
Notice(h) ==
    /\ At(h, "receive") \/ At(h, "ack")
    /\ client[session[h].node] # h
    /\ End(h)
    /\ UNCHANGED failures

-----------------------------------------------------------------------------
(* Arbitrate: the retry check, the log and the validator chain *)

\* A validator adds one StockAdjusted that reverses qty of the current line.
Reversal(reason, i, qty) ==
    [reason |-> reason, line |-> i, qty |-> qty, paper |-> FALSE]
Reject(s, reason, qty) ==
    [s EXCEPT !.rej =
        [reason |-> reason,
         events |-> Append(s.rej.events, Reversal(reason, s.line, qty)),
         excess |-> s.rej.excess + qty]]

\* Mutant of ReadDecision: an event in the log already is taken for arbitrated.
ReadStored(h) ==
    /\ Step(h, "decision")
    /\ IF Current(h) \in events THEN NextEvent(h) ELSE Goto(h, "append")
    /\ UNCHANGED storeVars

\* Mutant of ReadDecision: no decision is looked up.
ArbitrateAgain(h) ==
    /\ Step(h, "decision")
    /\ Goto(h, "append")
    /\ UNCHANGED storeVars

ReadDecision(h) ==
    /\ Step(h, "decision")
    /\ IF Decided(Current(h)) THEN NextEvent(h) ELSE Goto(h, "append")
    /\ UNCHANGED storeVars

StoreEvent(h) ==
    /\ Step(h, "append")
    /\ AppendEvent(Current(h))
    /\ Goto(h, IF P(h).kind = "Other" THEN "decide" ELSE "items")
    /\ UNCHANGED <<comps, decisions, receiptVars, transitVars, queueVars>>

\* unknownSKU, one line of the event at a time.
AfterItems(kind, rejected) ==
    CASE kind = "TransferReceived"   -> IF rejected THEN "row" ELSE "transit"
      [] kind = "TransferDispatched" -> IF rejected THEN "record" ELSE "destination"
      [] kind = "GoodsReceived"      -> IF rejected THEN "record" ELSE "note"

CheckItem(h) ==
    LET s == IF Line(h).sku \in Items THEN session[h]
             ELSE Reject(session[h], "unknown_sku", Line(h).qty)
    IN /\ Step(h, "items")
       /\ Become(h, NextLine(h, s, "items",
                             AfterItems(P(h).kind, s.rej.reason # "accepted")))
       /\ UNCHANGED storeVars

\* The recorded receipts that keyed this note for this SKU.
KeyedLike(p) ==
    {o \in Ids : /\ receipts[o] # NotRecorded
                 /\ Payload(o).note = p.note
                 /\ Payload(o).lines[1].sku = p.lines[1].sku}

\* A receipt that keyed no note again is checked against its order, if it has one.
NoteFirst(h) ==
    Goto(h, IF <<P(h).po, Line(h).sku>> \in DOMAIN Ordered THEN "total" ELSE "record")
NoteAgain(h) ==
    Become(h, [Reject(session[h], "duplicate_receipt", Line(h).qty) EXCEPT !.pc = "record"])

\* Mutant of CheckNote: a retry takes its own receipt for another one.
CheckNoteOfAny(h) ==
    /\ Step(h, "note")
    /\ IF KeyedLike(P(h)) # {} THEN NoteAgain(h) ELSE NoteFirst(h)
    /\ UNCHANGED storeVars

\* duplicateDeliveryNote: whether another recorded receipt keyed the note first.
CheckNote(h) ==
    LET keyed == KeyedLike(P(h))
    IN /\ Step(h, "note")
       /\ IF keyed # {} /\ DeliveryNoteFirstSeen(keyed) # Current(h)
            THEN NoteAgain(h) ELSE NoteFirst(h)
       /\ UNCHANGED storeVars

\* poOverReceipt reads the total and then the event's own fact, if it has one.
ReadTotal(h) ==
    /\ Step(h, "total")
    /\ Become(h, [session[h] EXCEPT !.pc = "own",
                                    !.seen = ReceivedAgainstPO(P(h).po, Line(h).sku)])
    /\ UNCHANGED storeVars

Excess(seen, own, qty, ordered) == Min2(seen - own + qty - ordered, qty)

CheckOrder(h) ==
    LET excess == Excess(session[h].seen, Receipt(Current(h)), Line(h).qty,
                         Ordered[<<P(h).po, Line(h).sku>>])
        stock == Reversal("po_overreceipt", 1, excess)
    IN /\ Step(h, "own")
       /\ IF excess <= 0
            THEN Goto(h, "record")
            ELSE Become(h, [session[h] EXCEPT !.pc = "record",
                    !.rej = [reason |-> "po_overreceipt",
                             events |-> <<stock, [stock EXCEPT !.paper = TRUE]>>,
                             excess |-> excess]])
       /\ UNCHANGED storeVars

\* transferDestination: an unknown node, or a node that refuses one of the SKUs.
Refused(p) ==
    \/ p.to \notin DOMAIN Rejects
    \/ \E i \in DOMAIN p.lines : p.lines[i].sku \in Rejects[p.to]

CheckDestination(h) ==
    LET p == P(h)
    IN /\ Step(h, "destination")
       /\ IF ~ Refused(p)
            THEN Goto(h, "record")
            ELSE Become(h, [session[h] EXCEPT !.pc = "record",
                    !.rej = [reason |-> "transfer_rejected",
                             events |-> [i \in 1..Len(p.lines) |->
                                          Reversal("transfer_rejected", i, p.lines[i].qty)],
                             excess |-> 0]])
       /\ UNCHANGED storeVars

\* transferOverReceipt reads the row of each line and what this event already
\* folded into it; with no row nothing remains to be received.
CheckTransit(h) ==
    LET s == session[h]
        row == InTransit(P(h).transfer, Line(h).sku)
    IN /\ Step(h, "transit")
       /\ Become(h, IF row = NoRow
                      THEN NextLine(h, Reject(s, "transfer_overreceipt", Line(h).qty),
                                    "transit", "row")
                      ELSE [s EXCEPT !.pc = "folded",
                                     !.seen = row.dispatched - row.received])
       /\ UNCHANGED storeVars

\* Mutant of Surplus: a line received short is compensated too.
RejectShort(s, over) == Reject(s, "transfer_overreceipt", over)

Surplus(s, over) == IF over > 0 THEN Reject(s, "transfer_overreceipt", over) ELSE s

CheckFolded(h) ==
    LET s == session[h]
        over == Line(h).qty - (s.seen + ReceivedFromEvent(Current(h), Line(h).sku))
    IN /\ Step(h, "folded")
       /\ Become(h, NextLine(h, Surplus(s, over), "transit", "row"))
       /\ UNCHANGED storeVars

-----------------------------------------------------------------------------
(* Arbitrate: record and fanOut *)

\* Only the accepted portion counts; a duplicate or an unknown SKU counts nothing.
RecordFact(h) ==
    LET s == session[h]
    IN /\ Step(h, "record")
       /\ P(h).kind = "GoodsReceived"
       /\ IF s.rej.reason \in {"accepted", "po_overreceipt"}
            THEN RecordReceipt(Current(h), P(h).po, Line(h).sku, Line(h).qty - s.rej.excess)
            ELSE UNCHANGED receiptVars
       /\ Goto(h, IF Rejected(h) THEN "comps" ELSE "decide")
       /\ UNCHANGED <<logVars, transitVars, queueVars>>

RecordDispatchLine(h) ==
    /\ Step(h, "record")
    /\ P(h).kind = "TransferDispatched"
    /\ RecordDispatch(P(h).transfer, session[h].node, P(h).to, Line(h))
    /\ Become(h, NextLine(h, session[h], "record",
                          IF Rejected(h) THEN "fail" ELSE "forward"))
    /\ UNCHANGED <<logVars, receiptVars, folded, queueVars>>

KillTransfer(h) ==
    /\ Step(h, "fail")
    /\ FailTransfer(P(h).transfer)
    /\ Goto(h, "comps")
    /\ UNCHANGED <<logVars, receiptVars, folded, queueVars>>

\* What a line of an arrival adds is cut to what the row, read again, has left.
ReadRow(h) ==
    LET s == session[h]
        row == InTransit(P(h).transfer, Line(h).sku)
        accepted == Min2(Line(h).qty, row.dispatched - row.received)
    IN /\ Step(h, "row")
       /\ Become(h, IF row = NoRow \/ accepted <= 0
                      THEN NextLine(h, s, "row", "forward")
                      ELSE [s EXCEPT !.pc = "fold", !.seen = accepted])
       /\ UNCHANGED storeVars

FoldLine(h) ==
    /\ Step(h, "fold")
    /\ AddReceived(Current(h), P(h).transfer, Line(h).sku, session[h].seen)
    /\ Become(h, NextLine(h, session[h], "row", "forward"))
    /\ UNCHANGED <<logVars, receiptVars, queueVars>>

\* The destination learns of an accepted dispatch.
ForwardDispatch(h) ==
    /\ Step(h, "forward")
    /\ P(h).kind = "TransferDispatched"
    /\ Enqueue(P(h).to, EventRef(Current(h)))
    /\ Goto(h, "decide")
    /\ UNCHANGED <<logVars, receiptVars, transitVars, pushed>>

\* Mutant of ForwardArrival: a rejected arrival is kept from the source.
ForwardAccepted(h) ==
    /\ Step(h, "forward")
    /\ P(h).kind = "TransferReceived"
    /\ IF Rejected(h) THEN UNCHANGED outbound
       ELSE \E i \in DOMAIN P(h).lines :
              Enqueue(InTransit(P(h).transfer, P(h).lines[i].sku).from, EventRef(Current(h)))
    /\ Goto(h, IF Rejected(h) THEN "comps" ELSE "decide")
    /\ UNCHANGED <<logVars, receiptVars, transitVars, pushed>>

\* The source learns of an arrival, rejected or not.  Rows are never deleted and
\* keep their source, so the read and the insert are one step.
ForwardArrival(h) ==
    LET known == {i \in DOMAIN P(h).lines :
                    InTransit(P(h).transfer, P(h).lines[i].sku) # NoRow}
    IN /\ Step(h, "forward")
       /\ P(h).kind = "TransferReceived"
       /\ IF known = {} THEN UNCHANGED outbound
          ELSE \E i \in known :
                 /\ \A j \in known : i <= j
                 /\ Enqueue(InTransit(P(h).transfer, P(h).lines[i].sku).from,
                            EventRef(Current(h)))
       /\ Goto(h, IF Rejected(h) THEN "comps" ELSE "decide")
       /\ UNCHANGED <<logVars, receiptVars, transitVars, pushed>>

-----------------------------------------------------------------------------
(* Arbitrate: compensation and decision *)

\* Mutant of ReadCompensations: nothing is looked up.
EmitAgain(h) ==
    /\ Step(h, "comps")
    /\ Goto(h, "emit")
    /\ UNCHANGED storeVars

\* Mutant of ReadCompensations: what is in the log is taken for queued.
ReplayUnqueued(h) ==
    /\ Step(h, "comps")
    /\ Goto(h, IF CompensationsOf(Current(h)) = <<>> THEN "emit" ELSE "decide")
    /\ UNCHANGED storeVars

\* An earlier attempt's compensations are replayed; a set of another size than
\* this attempt's is an error that ends the session.
ReadCompensations(h) ==
    LET s == session[h]
        k == Len(CompensationsOf(Current(h)))
    IN /\ At(h, "comps")
       /\ \/ /\ k = 0
             /\ Goto(h, "emit")
             /\ UNCHANGED <<storeVars, nodeVars, client>>
          \/ /\ k > 0 /\ k = Len(s.rej.events)
             /\ Become(h, [s EXCEPT !.pc = "enqueue", !.queue = 1..k])
             /\ UNCHANGED <<storeVars, nodeVars, client>>
          \/ /\ k > 0 /\ k # Len(s.rej.events)
             /\ End(h)
       /\ UNCHANGED failures

\* EmitCentral holds the store's mutex from its first insert to its last.
Emit(h) ==
    LET s == session[h]
        id == Current(h)
    IN /\ Step(h, "emit")
       /\ \A g \in Handlers \ {h} : At(g, "emit") => session[g].queue = {}
       /\ InsertCompensation(id, s.rej.events[s.line])
       /\ Become(h, [s EXCEPT
             !.queue = s.queue \cup {Len(comps[id]) + 1},
             !.line = IF s.line < Len(s.rej.events) THEN s.line + 1 ELSE 1,
             !.pc = IF s.line < Len(s.rej.events) THEN "emit" ELSE "enqueue"])
       /\ UNCHANGED <<events, decisions, receiptVars, transitVars, queueVars>>

\* Back to the node that produced the event, one insert at a time.
EnqueueCompensation(h) ==
    LET s == session[h]
    IN /\ Step(h, "enqueue")
       /\ \E k \in s.queue :
             /\ \A j \in s.queue : k <= j
             /\ Enqueue(s.node, CompRef(Current(h), k))
             /\ Become(h, [s EXCEPT
                   !.queue = s.queue \ {k},
                   !.pc = IF s.queue = {k} THEN "decide" ELSE "enqueue"])
       /\ UNCHANGED <<logVars, receiptVars, transitVars, pushed>>

Decide(h) ==
    /\ Step(h, "decide")
    /\ RecordDecision(Current(h), session[h].rej.reason)
    /\ NextEvent(h)
    /\ UNCHANGED <<events, comps, receiptVars, transitVars, queueVars>>

-----------------------------------------------------------------------------
Validate(h) ==
    \/ CheckItem(h) \/ CheckNote(h) \/ ReadTotal(h) \/ CheckOrder(h)
    \/ CheckDestination(h) \/ CheckTransit(h) \/ CheckFolded(h)

Record(h) ==
    \/ RecordFact(h) \/ RecordDispatchLine(h) \/ KillTransfer(h)
    \/ ReadRow(h) \/ FoldLine(h) \/ ForwardDispatch(h) \/ ForwardArrival(h)

Settle(h) ==
    \/ ReadCompensations(h) \/ Emit(h) \/ EnqueueCompensation(h) \/ Decide(h)

HandlerStep(h) ==
    \/ ReceiveBatch(h) \/ ReadDecision(h) \/ StoreEvent(h)
    \/ Validate(h) \/ Record(h) \/ Settle(h)
    \/ StorePushed(h) \/ Ack(h) \/ Notice(h)

Next ==
    \/ \E h \in Handlers, n \in Nodes : Open(h, n)
    \/ \E h \in Handlers : HandlerStep(h) \/ Fail(h)
    \/ \E n \in Nodes : Detach(n)

Spec == Init /\ [][Next]_vars

\* The scheduler runs every handler, and a node's Run loop never stops retrying.
FairSpec ==
    /\ Spec
    /\ \A h \in Handlers : WF_vars(HandlerStep(h))
    /\ \A n \in Nodes : WF_vars(\E h \in Handlers : Open(h, n))
=============================================================================
