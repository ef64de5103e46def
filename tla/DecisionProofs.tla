---------------------------- MODULE DecisionProofs ----------------------------
(***************************************************************************)
(* Proofs that a decision tells the truth about the log and the queue, and *)
(* that both ends of a transfer learn of it: the destination of an accepted *)
(* dispatch and of no other, the source of every arrival of goods that were *)
(* dispatched.  The heart of the matter is that a verdict of rejection is   *)
(* final although it is reached anew by every retry, from data other        *)
(* sessions are changing meanwhile: what justified it once justifies it for *)
(* good; and what an earlier attempt announced is never taken back.  Then   *)
(* that the rows of a transfer balance: they hold what its arrivals folded. *)
(* Last, what holds where receipts are arbitrated one after the other: an   *)
(* event has one reason to be rejected, orders and notes are honoured.      *)
(***************************************************************************)
EXTENDS ArbiterProofs, FiniteSetTheorems, WellFoundedInduction

\* A transfer is dispatched by one event: a node refuses an identity that is in use
\* (transfer.go:38).
DispatchIn(w, id) == id[2] <= Len(w[id[1]]) /\ w[id[1]][id[2]].kind = "TransferDispatched"
OneDispatch ==
    \A w \in Workloads : \A a, b \in Ids :
        /\ DispatchIn(w, a) /\ DispatchIn(w, b)
        /\ w[a[1]][a[2]].transfer = w[b[1]][b[2]].transfer
        => a = b

\* The lines of a dispatch name different SKUs.  Nothing in the code sees to it, and
\* where they do not, a retried dispatch lets an arrival be rejected once and accepted
\* next, between the writes of its two quantities to one row.
LinesApart ==
    \A w \in Workloads : \A id \in Ids : DispatchIn(w, id) =>
        \A i, j \in DOMAIN w[id[1]][id[2]].lines :
            w[id[1]][id[2]].lines[i].sku = w[id[1]][id[2]].lines[j].sku => i = j

-----------------------------------------------------------------------------
(* Transfers *)

\* The row of the i-th line of a transfer event.
RowOf(id, i) == InTransit(Payload(id).transfer, Payload(id).lines[i].sku)

\* A row was made by a dispatch of its transfer, for no empty line.
MadeBy(key, id) ==
    /\ Payload(id).kind = "TransferDispatched"
    /\ Payload(id).transfer = key[1]
    /\ transit[key].from = id[1]
RowsReal ==
    \A key \in DOMAIN transit :
        transit[key] # NoRow => transit[key].dispatched > 0 /\ \E id \in Recorded : MadeBy(key, id)

\* A line of a dispatch is on record as its event has it.
LineShipped(id, i) ==
    /\ RowOf(id, i) # NoRow
    /\ LinesApart => RowOf(id, i).dispatched = Payload(id).lines[i].qty
    /\ RowOf(id, i).from = id[1]
Shipped(id) == \A i \in LinesOf(id) : LineShipped(id, i)

\* A dispatch is announced only when all of it is on record.
AnnouncedShipped ==
    \A n \in Nodes : \A id \in Ids :
        EventRef(id) \in outbound[n] =>
            /\ id \in Recorded
            /\ Payload(id).kind = "TransferDispatched" => Shipped(id)

\* The destination of an arrival had learned of its dispatch.
Known(id) == CanRecord(id[1], Payload(id))

\* How far a handler has come with a transfer.
Ships(s) ==
    LET id == <<s.node, s.cur>>
    IN /\ s.pc = "record" /\ E(s).kind = "TransferDispatched" =>
             \A i \in LinesOf(id) : i < s.line => LineShipped(id, i)
       /\ s.pc \in {"fail", "forward"} /\ E(s).kind = "TransferDispatched" => Shipped(id)
       /\ s.pc = "forward" /\ E(s).kind = "TransferDispatched" => s.rej.reason = "accepted"
       /\ s.pc \in {"folded", "fold"} => RowOf(id, s.line) # NoRow
       /\ s.pc \in Arbitrating => \A i \in s.cur..s.last : Known(<<s.node, i>>)
       /\ s.queue \subseteq Nat \ {0}

TransferInv ==
    /\ RowsReal
    /\ AnnouncedShipped
    /\ \A h \in Handlers : Ships(session[h])

-----------------------------------------------------------------------------
(* Why an event is rejected *)

Unknown(id) == \E i \in LinesOf(id) : Payload(id).lines[i].sku \notin Items

\* Another receipt keyed the note first.
NoteTaken(id) ==
    LET keyed == KeyedLike(Payload(id))
    IN keyed # {} /\ DeliveryNoteFirstSeen(keyed) # id

\* The other receipts leave less of the order than this one brings.
OrderLine(id) == <<Payload(id).po, Payload(id).lines[1].sku>>
OverOrder(id) ==
    /\ OrderLine(id) \in DOMAIN Ordered
    /\ poTotal[OrderLine(id)] - Receipt(id) + Payload(id).lines[1].qty > Ordered[OrderLine(id)]

\* The other arrivals leave less of the row than this one brings.
Remaining(id, i) ==
    RowOf(id, i).dispatched - RowOf(id, i).received + folded[<<id, Payload(id).lines[i].sku>>]
Short(id, i) == RowOf(id, i) = NoRow \/ Payload(id).lines[i].qty > Remaining(id, i)

Grounds(id, reason) ==
    \/ reason = "unknown_sku" /\ Unknown(id)
    \/ reason = "duplicate_receipt" /\ Payload(id).kind = "GoodsReceived" /\ NoteTaken(id)
    \/ reason = "po_overreceipt" /\ Payload(id).kind = "GoodsReceived" /\ OverOrder(id)
    \/ /\ reason = "transfer_rejected" /\ Payload(id).kind = "TransferDispatched"
       /\ Refused(Payload(id))
    \/ /\ reason = "transfer_overreceipt" /\ Payload(id).kind = "TransferReceived"
       /\ \E i \in LinesOf(id) : Short(id, i)

\* A compensated event has to be rejected again, by whoever arbitrates it next.
Doomed(id) == id \in Recorded /\ Known(id) /\ \E reason \in Reasons : Grounds(id, reason)

\* What a handler has read that the validator's next step relies on.
ReadsHold(s) ==
    LET id == <<s.node, s.cur>>
    IN /\ s.pc = "own" => s.seen <= poTotal[OrderLine(id)]
       /\ s.pc = "folded" => s.seen >= RowOf(id, s.line).dispatched - RowOf(id, s.line).received

\* If the event was compensated before, a validator has rejected it or is going to.
RejectsAhead(s) ==
    LET id == <<s.node, s.cur>>
        p == E(s)
        later(reason) == Grounds(id, reason)
    IN \/ s.rej.reason # "accepted"
       \/ s.pc = "append"
       \/ /\ s.pc = "items"
          /\ \/ \E i \in LinesOf(id) : i >= s.line /\ p.lines[i].sku \notin Items
             \/ \E reason \in Reasons \ {"unknown_sku"} : later(reason)
       \/ s.pc = "note" /\ (later("duplicate_receipt") \/ later("po_overreceipt"))
       \/ s.pc = "total" /\ later("po_overreceipt")
       \/ /\ s.pc = "own"
          /\ s.seen - Receipt(id) + p.lines[1].qty > Ordered[OrderLine(id)]
       \/ s.pc = "destination" /\ later("transfer_rejected")
       \/ s.pc = "transit" /\ \E i \in LinesOf(id) : i >= s.line /\ Short(id, i)
       \/ /\ s.pc = "folded"
          /\ \/ \E i \in LinesOf(id) : i > s.line /\ Short(id, i)
             \/ p.lines[s.line].qty > s.seen + folded[<<id, p.lines[s.line].sku>>]

Reasoned(s) ==
    LET id == <<s.node, s.cur>>
    IN Sole(s) =>
         /\ ReadsHold(s)
         /\ s.rej.reason # "accepted" => Grounds(id, s.rej.reason)
         /\ comps[id] # <<>> => RejectsAhead(s)

DoomInv ==
    /\ \A id \in Orderly : comps[id] # <<>> => Doomed(id)
    /\ \A h \in Handlers : Reasoned(session[h])

-----------------------------------------------------------------------------
(* What becomes of the compensations *)

Queues(s) ==
    LET id == <<s.node, s.cur>>
    IN /\ s.pc \notin {"emit", "enqueue"} => s.queue = {}
       /\ Sole(s) =>
            /\ s.pc = "emit" => s.queue = DOMAIN comps[id]
            /\ s.pc = "enqueue" \/ (s.pc = "decide" /\ s.rej.reason # "accepted") =>
                 /\ comps[id] # <<>>
                 /\ \A k \in DOMAIN comps[id] :
                       k \in s.queue \/ CompRef(id, k) \in outbound[id[1]]
            /\ s.pc \in {"comps", "emit", "enqueue"} => s.rej.reason # "accepted"

QueueInv == DecisionMatchesLog /\ \A h \in Handlers : Queues(session[h])
-----------------------------------------------------------------------------
(* What each step does to the record of its handler *)

\* The handler stays at its event.
Stays(s, t) == t.node = s.node /\ t.cur = s.cur /\ t.last = s.last

\* The others, and the logs, are not its business.
LEMMA Alongside ==
    ASSUME TypeInv, NEW h \in Handlers, HandlerStep(h) \/ Fail(h)
    PROVE  /\ log' = log
           /\ \A g \in Handlers \ {h} : session'[g] = session[g]
  <1>1. \E t : Become(h, t)
    BY NodeKept
  <1>. QED
    BY <1>1 DEF HandlerStep, ReceiveBatch, ReadDecision, StoreEvent, Validate, CheckItem,
       CheckNote, ReadTotal, CheckOrder, CheckDestination, CheckTransit, CheckFolded, Record,
       RecordFact, RecordDispatchLine, KillTransfer, ReadRow, FoldLine, ForwardDispatch,
       ForwardArrival, Settle, ReadCompensations, Emit, EnqueueCompensation, Decide,
       StorePushed, Ack, Notice, Fail, End, Step, nodeVars, Become, TypeInv, TypeOK

LEMMA Becomes ==
    ASSUME TypeInv, NEW h \in Handlers, NEW t, Become(h, t)
    PROVE  session'[h] = t
  BY DEF Become, TypeInv, TypeOK

LEMMA GotoDoes ==
    ASSUME TypeInv, NEW h \in Handlers, NEW pc, Goto(h, pc),
           NEW s, s = session[h], NEW t, t = session'[h]
    PROVE  /\ Stays(s, t) /\ t.pc = pc
           /\ t.line = s.line /\ t.seen = s.seen /\ t.rej = s.rej /\ t.queue = s.queue
  <1>1. DOMAIN s = Fields
    BY SessionFields DEF TypeInv, TypeOK
  <1>2. t = [s EXCEPT !.pc = pc]
    BY Becomes DEF Goto
  <1>. QED
    BY <1>1, <1>2 DEF Fields, Stays

LEMMA NextLineDoes ==
    ASSUME TypeInv, NEW h \in Handlers, NEW r, DOMAIN r = Fields, NEW pc, NEW done,
           Become(h, NextLine(h, r, pc, done)), NEW t, t = session'[h]
    PROVE  /\ Stays(r, t) /\ t.rej = r.rej /\ t.queue = r.queue
           /\ \/ r.line < Len(P(h).lines) /\ t.line = r.line + 1 /\ t.pc = pc
              \/ ~ (r.line < Len(P(h).lines)) /\ t.line = 1 /\ t.pc = done
  <1>1. t = NextLine(h, r, pc, done)
    BY Becomes
  <1>. QED
    BY <1>1 DEF NextLine, Fields, Stays

LEMMA RejectDoes ==
    ASSUME NEW s, DOMAIN s = Fields, NEW reason, NEW qty, NEW r, r = Reject(s, reason, qty)
    PROVE  /\ Stays(s, r) /\ DOMAIN r = Fields /\ r.pc = s.pc /\ r.line = s.line
           /\ r.rej.reason = reason /\ r.queue = s.queue
  BY DEF Reject, Fields, Stays

LEMMA NextEventDoes ==
    ASSUME TypeInv, NEW h \in Handlers, NextEvent(h),
           NEW s, s = session[h], NEW t, t = session'[h]
    PROVE  /\ t.node = s.node /\ t.cur = s.cur + 1 /\ t.last = s.last
           /\ t.pc \in {"decision", "setpushed"}
           /\ t.rej = NoRejection /\ t.queue = {}
  <1>. DEFINE next == IF s.cur < s.last THEN "decision" ELSE "setpushed"
  <1>1. t = [IdleSession EXCEPT !.node = s.node, !.cur = s.cur + 1, !.last = s.last,
                                !.high = s.high, !.pc = next]
    BY Becomes DEF NextEvent
  <1>2. next \in {"decision", "setpushed"}
    OBVIOUS
  <1>. HIDE DEF next
  <1>. QED
    BY <1>1, <1>2 DEF IdleSession

LEMMA ReceiveBatchDoes ==
    ASSUME TypeInv, NEW h \in Handlers, ReceiveBatch(h),
           NEW s, s = session[h], NEW t, t = session'[h]
    PROVE  /\ s.pc = "receive" /\ UNCHANGED storeVars
           /\ t.node = s.node /\ t.rej = s.rej /\ t.queue = s.queue /\ t.line = s.line
           /\ \/ /\ t.pc = "decision"
                 /\ \A i \in t.cur..t.last : CanRecord(t.node, log[t.node][i])
              \/ t.pc = "setpushed"
  <1>1. DOMAIN s = Fields
    BY SessionFields DEF TypeInv, TypeOK
  <1>. DEFINE batch(cur, last, high) == [s EXCEPT !.pc = "decision", !.cur = cur,
                                                  !.last = last, !.high = high]
              empty(cur, high) == [s EXCEPT !.pc = "setpushed", !.cur = cur, !.high = high]
  <1>2. s.pc = "receive" /\ UNCHANGED storeVars
    BY DEF ReceiveBatch, Step, At
  <1>3. \A cur, last, high :
           /\ batch(cur, last, high).pc = "decision" /\ batch(cur, last, high).node = s.node
           /\ batch(cur, last, high).cur = cur /\ batch(cur, last, high).last = last
           /\ batch(cur, last, high).rej = s.rej /\ batch(cur, last, high).queue = s.queue
           /\ batch(cur, last, high).line = s.line
    BY <1>1 DEF Fields
  <1>4. \A cur, high :
           /\ empty(cur, high).pc = "setpushed" /\ empty(cur, high).node = s.node
           /\ empty(cur, high).rej = s.rej /\ empty(cur, high).queue = s.queue
           /\ empty(cur, high).line = s.line
    BY <1>1 DEF Fields
  <1>5. \/ \E cur, last, high :
             /\ Become(h, batch(cur, last, high))
             /\ \A i \in cur..last : CanRecord(s.node, log[s.node][i])
        \/ \E cur, high : Become(h, empty(cur, high))
    BY DEF ReceiveBatch
  <1>. HIDE DEF batch, empty
  <1>6. CASE \E cur, last, high :
             /\ Become(h, batch(cur, last, high))
             /\ \A i \in cur..last : CanRecord(s.node, log[s.node][i])
    <2>1. PICK cur, last, high :
             /\ Become(h, batch(cur, last, high))
             /\ \A i \in cur..last : CanRecord(s.node, log[s.node][i])
      BY <1>6
    <2>2. t = batch(cur, last, high)
      BY <2>1, Becomes
    <2>. QED
      BY <1>2, <1>3, <2>1, <2>2
  <1>7. CASE \E cur, high : Become(h, empty(cur, high))
    BY <1>2, <1>4, <1>7, Becomes
  <1>. QED
    BY <1>5, <1>6, <1>7

LEMMA StoreEventDoes ==
    ASSUME TypeInv, NEW h \in Handlers, StoreEvent(h),
           NEW s, s = session[h], NEW t, t = session'[h]
    PROVE  /\ UNCHANGED <<comps, decisions, receiptVars, transitVars, queueVars>>
           /\ s.pc = "append" /\ Stays(s, t) /\ t.line = 1 /\ t.rej = NoRejection
           /\ t.queue = s.queue
           /\ t.pc = IF P(h).kind = "Other" THEN "decide" ELSE "items"
  <1>1. s.pc = "append" /\ s.line = 1 /\ s.rej = NoRejection
    BY DEF StoreEvent, Step, At, TypeInv, Fits, LineFits, RejectionFits
  <1>. QED
    BY <1>1, GotoDoes DEF StoreEvent

LEMMA CheckItemDoes ==
    ASSUME TypeInv, NEW h \in Handlers, CheckItem(h),
           NEW s, s = session[h], NEW t, t = session'[h]
    PROVE  /\ UNCHANGED storeVars
           /\ s.pc = "items" /\ Stays(s, t) /\ t.queue = s.queue
           /\ \/ s.line < Len(P(h).lines) /\ t.line = s.line + 1 /\ t.pc = "items"
              \/ /\ ~ (s.line < Len(P(h).lines)) /\ t.line = 1
                 /\ t.pc = AfterItems(P(h).kind, t.rej.reason # "accepted")
           /\ IF Line(h).sku \in Items THEN t.rej = s.rej ELSE t.rej.reason = "unknown_sku"
  <1>. DEFINE r == IF Line(h).sku \in Items THEN s ELSE Reject(s, "unknown_sku", Line(h).qty)
              done == AfterItems(P(h).kind, r.rej.reason # "accepted")
  <1>1. DOMAIN s = Fields
    BY SessionFields DEF TypeInv, TypeOK
  <1>2. /\ Stays(s, r) /\ DOMAIN r = Fields /\ r.line = s.line /\ r.queue = s.queue
        /\ IF Line(h).sku \in Items THEN r.rej = s.rej ELSE r.rej.reason = "unknown_sku"
    BY <1>1, RejectDoes DEF Stays
  <1>3. s.pc = "items" /\ UNCHANGED storeVars /\ Become(h, NextLine(h, r, "items", done))
    BY DEF CheckItem, Step, At
  <1>. HIDE DEF r
  <1>4. /\ Stays(r, t) /\ t.rej = r.rej /\ t.queue = r.queue
        /\ \/ r.line < Len(P(h).lines) /\ t.line = r.line + 1 /\ t.pc = "items"
           \/ ~ (r.line < Len(P(h).lines)) /\ t.line = 1 /\ t.pc = done
    BY <1>2, <1>3, NextLineDoes
  <1>. QED
    BY <1>2, <1>3, <1>4 DEF Stays

LEMMA CheckNoteDoes ==
    ASSUME TypeInv, NEW h \in Handlers, CheckNote(h),
           NEW s, s = session[h], NEW t, t = session'[h]
    PROVE  /\ UNCHANGED storeVars
           /\ s.pc = "note" /\ Stays(s, t) /\ t.queue = s.queue /\ t.line = s.line
           /\ IF KeyedLike(P(h)) # {} /\ DeliveryNoteFirstSeen(KeyedLike(P(h))) # Current(h)
                THEN t.pc = "record" /\ t.rej.reason = "duplicate_receipt"
                ELSE /\ t.rej = s.rej
                     /\ t.pc = IF <<P(h).po, Line(h).sku>> \in DOMAIN Ordered
                                 THEN "total" ELSE "record"
  <1>1. DOMAIN s = Fields /\ s.pc = "note" /\ UNCHANGED storeVars
    BY SessionFields DEF TypeInv, TypeOK, CheckNote, Step, At
  <1>2. ASSUME NoteAgain(h)
        PROVE  /\ Stays(s, t) /\ t.queue = s.queue /\ t.line = s.line
               /\ t.pc = "record" /\ t.rej.reason = "duplicate_receipt"
    <2>. DEFINE r == Reject(s, "duplicate_receipt", Line(h).qty)
    <2>1. /\ Stays(s, r) /\ DOMAIN r = Fields /\ r.line = s.line /\ r.queue = s.queue
          /\ r.rej.reason = "duplicate_receipt"
      BY <1>1, RejectDoes
    <2>2. t = [r EXCEPT !.pc = "record"]
      BY <1>2, Becomes DEF NoteAgain
    <2>. HIDE DEF r
    <2>. QED
      BY <2>1, <2>2 DEF Stays, Fields
  <1>3. ASSUME NoteFirst(h)
        PROVE  /\ Stays(s, t) /\ t.queue = s.queue /\ t.line = s.line /\ t.rej = s.rej
               /\ t.pc = IF <<P(h).po, Line(h).sku>> \in DOMAIN Ordered
                           THEN "total" ELSE "record"
    BY <1>3, GotoDoes DEF NoteFirst
  <1>. QED
    BY <1>1, <1>2, <1>3 DEF CheckNote

LEMMA ReadTotalDoes ==
    ASSUME TypeInv, NEW h \in Handlers, ReadTotal(h),
           NEW s, s = session[h], NEW t, t = session'[h]
    PROVE  /\ UNCHANGED storeVars
           /\ s.pc = "total" /\ Stays(s, t) /\ t.queue = s.queue /\ t.line = s.line
           /\ t.pc = "own" /\ t.rej = s.rej /\ t.seen = poTotal[<<P(h).po, Line(h).sku>>]
  <1>1. DOMAIN s = Fields
    BY SessionFields DEF TypeInv, TypeOK
  <1>. QED
    BY <1>1, Becomes DEF ReadTotal, Step, At, Fields, Stays, ReceivedAgainstPO

LEMMA CheckOrderDoes ==
    ASSUME TypeInv, NEW h \in Handlers, CheckOrder(h),
           NEW s, s = session[h], NEW t, t = session'[h]
    PROVE  /\ UNCHANGED storeVars
           /\ s.pc = "own" /\ Stays(s, t) /\ t.queue = s.queue /\ t.line = s.line
           /\ t.pc = "record"
           /\ LET excess == Excess(s.seen, Receipt(Current(h)), Line(h).qty,
                                   Ordered[<<P(h).po, Line(h).sku>>])
              IN IF excess <= 0 THEN t.rej = s.rej ELSE t.rej.reason = "po_overreceipt"
  <1>. DEFINE excess == Excess(s.seen, Receipt(Current(h)), Line(h).qty,
                               Ordered[<<P(h).po, Line(h).sku>>])
  <1>1. DOMAIN s = Fields /\ s.pc = "own" /\ UNCHANGED storeVars
    BY SessionFields DEF TypeInv, TypeOK, CheckOrder, Step, At
  <1>2. CASE excess <= 0 /\ Goto(h, "record")
    BY <1>1, <1>2, GotoDoes
  <1>3. CASE /\ ~ (excess <= 0)
             /\ \E events1 : Become(h, [s EXCEPT !.pc = "record",
                   !.rej = [reason |-> "po_overreceipt", events |-> events1,
                            excess |-> excess]])
    <2>. HIDE DEF excess
    <2>1. PICK events1 : t = [s EXCEPT !.pc = "record",
                   !.rej = [reason |-> "po_overreceipt", events |-> events1,
                            excess |-> excess]]
      BY <1>3, Becomes
    <2>2. Stays(s, t) /\ t.queue = s.queue /\ t.line = s.line /\ t.pc = "record"
          /\ t.rej.reason = "po_overreceipt"
      BY <1>1, <2>1 DEF Fields, Stays
    <2>. QED
      BY <1>1, <1>3, <2>2 DEF excess
  <1>. QED
    BY <1>2, <1>3 DEF CheckOrder

LEMMA CheckDestinationDoes ==
    ASSUME TypeInv, NEW h \in Handlers, CheckDestination(h),
           NEW s, s = session[h], NEW t, t = session'[h]
    PROVE  /\ UNCHANGED storeVars
           /\ s.pc = "destination" /\ Stays(s, t) /\ t.queue = s.queue /\ t.line = s.line
           /\ t.pc = "record"
           /\ IF ~ Refused(P(h)) THEN t.rej = s.rej ELSE t.rej.reason = "transfer_rejected"
  <1>1. DOMAIN s = Fields /\ s.pc = "destination" /\ UNCHANGED storeVars
    BY SessionFields DEF TypeInv, TypeOK, CheckDestination, Step, At
  <1>2. CASE ~ Refused(P(h)) /\ Goto(h, "record")
    BY <1>1, <1>2, GotoDoes
  <1>3. CASE /\ Refused(P(h))
             /\ \E events1 : Become(h, [s EXCEPT !.pc = "record",
                   !.rej = [reason |-> "transfer_rejected", events |-> events1, excess |-> 0]])
    <2>1. PICK events1 : t = [s EXCEPT !.pc = "record",
                   !.rej = [reason |-> "transfer_rejected", events |-> events1, excess |-> 0]]
      BY <1>3, Becomes
    <2>. QED
      BY <1>1, <1>3, <2>1 DEF Fields, Stays
  <1>. QED
    BY <1>2, <1>3 DEF CheckDestination

LEMMA CheckTransitDoes ==
    ASSUME TypeInv, NEW h \in Handlers, CheckTransit(h),
           NEW s, s = session[h], NEW t, t = session'[h]
    PROVE  LET row == InTransit(P(h).transfer, Line(h).sku)
           IN /\ UNCHANGED storeVars
              /\ s.pc = "transit" /\ Stays(s, t) /\ t.queue = s.queue
              /\ \/ /\ row # NoRow /\ t.rej = s.rej /\ t.pc = "folded" /\ t.line = s.line
                    /\ t.seen = row.dispatched - row.received
                 \/ /\ row = NoRow /\ t.rej.reason = "transfer_overreceipt"
                    /\ \/ /\ s.line < Len(P(h).lines) /\ t.line = s.line + 1
                          /\ t.pc = "transit"
                       \/ ~ (s.line < Len(P(h).lines)) /\ t.line = 1 /\ t.pc = "row"
  <1>. DEFINE row == InTransit(P(h).transfer, Line(h).sku)
              r == Reject(s, "transfer_overreceipt", Line(h).qty)
  <1>1. DOMAIN s = Fields /\ s.pc = "transit" /\ UNCHANGED storeVars
    BY SessionFields DEF TypeInv, TypeOK, CheckTransit, Step, At
  <1>2. /\ Stays(s, r) /\ DOMAIN r = Fields /\ r.line = s.line /\ r.queue = s.queue
        /\ r.rej.reason = "transfer_overreceipt"
    BY <1>1, RejectDoes
  <1>. HIDE DEF r
  <1>3. CASE row = NoRow
    <2>1. Become(h, NextLine(h, r, "transit", "row"))
      BY <1>3 DEF CheckTransit, r
    <2>2. /\ Stays(r, t) /\ t.rej = r.rej /\ t.queue = r.queue
          /\ \/ r.line < Len(P(h).lines) /\ t.line = r.line + 1 /\ t.pc = "transit"
             \/ ~ (r.line < Len(P(h).lines)) /\ t.line = 1 /\ t.pc = "row"
      BY <1>2, <2>1, NextLineDoes
    <2>. QED
      BY <1>1, <1>2, <1>3, <2>2 DEF Stays
  <1>4. CASE row # NoRow
    <2>1. t = [s EXCEPT !.pc = "folded", !.seen = row.dispatched - row.received]
      BY <1>4, Becomes DEF CheckTransit
    <2>. HIDE DEF row
    <2>2. /\ Stays(s, t) /\ t.queue = s.queue /\ t.rej = s.rej /\ t.pc = "folded"
          /\ t.line = s.line /\ t.seen = row.dispatched - row.received
      BY <1>1, <2>1 DEF Fields, Stays
    <2>. QED
      BY <1>1, <1>4, <2>2 DEF row
  <1>. QED
    BY <1>3, <1>4

LEMMA CheckFoldedDoes ==
    ASSUME TypeInv, NEW h \in Handlers, CheckFolded(h),
           NEW s, s = session[h], NEW t, t = session'[h]
    PROVE  /\ UNCHANGED storeVars
           /\ s.pc = "folded" /\ Stays(s, t) /\ t.queue = s.queue
           /\ \/ s.line < Len(P(h).lines) /\ t.line = s.line + 1 /\ t.pc = "transit"
              \/ ~ (s.line < Len(P(h).lines)) /\ t.line = 1 /\ t.pc = "row"
           /\ IF Line(h).qty - (s.seen + folded[<<Current(h), Line(h).sku>>]) > 0
                THEN t.rej.reason = "transfer_overreceipt" ELSE t.rej = s.rej
  <1>. DEFINE over == Line(h).qty - (s.seen + ReceivedFromEvent(Current(h), Line(h).sku))
              r == Surplus(s, over)
  <1>1. DOMAIN s = Fields /\ s.pc = "folded" /\ UNCHANGED storeVars
        /\ Become(h, NextLine(h, r, "transit", "row"))
    BY SessionFields DEF TypeInv, TypeOK, CheckFolded, Step, At
  <1>2. over = Line(h).qty - (s.seen + folded[<<Current(h), Line(h).sku>>])
    BY DEF ReceivedFromEvent
  <1>. HIDE DEF over
  <1>3. /\ Stays(s, r) /\ DOMAIN r = Fields /\ r.line = s.line /\ r.queue = s.queue
        /\ IF over > 0 THEN r.rej.reason = "transfer_overreceipt" ELSE r.rej = s.rej
    BY <1>1, RejectDoes DEF Surplus, Stays
  <1>. HIDE DEF r
  <1>4. /\ Stays(r, t) /\ t.rej = r.rej /\ t.queue = r.queue
        /\ \/ r.line < Len(P(h).lines) /\ t.line = r.line + 1 /\ t.pc = "transit"
           \/ ~ (r.line < Len(P(h).lines)) /\ t.line = 1 /\ t.pc = "row"
    BY <1>1, <1>3, NextLineDoes
  <1>. QED
    BY <1>1, <1>2, <1>3, <1>4 DEF Stays

LEMMA RecordFactDoes ==
    ASSUME TypeInv, NEW h \in Handlers, RecordFact(h),
           NEW s, s = session[h], NEW t, t = session'[h]
    PROVE  /\ UNCHANGED <<logVars, transitVars, queueVars>>
           /\ s.pc = "record" /\ P(h).kind = "GoodsReceived"
           /\ IF s.rej.reason \in {"accepted", "po_overreceipt"}
                THEN RecordReceipt(Current(h), P(h).po, Line(h).sku,
                                   Line(h).qty - s.rej.excess)
                ELSE UNCHANGED receiptVars
           /\ Stays(s, t) /\ t.queue = s.queue /\ t.rej = s.rej
           /\ t.pc = IF s.rej.reason # "accepted" THEN "comps" ELSE "decide"
  BY GotoDoes DEF RecordFact, Step, At, Rejected

LEMMA RecordDispatchLineDoes ==
    ASSUME TypeInv, NEW h \in Handlers, RecordDispatchLine(h),
           NEW s, s = session[h], NEW t, t = session'[h]
    PROVE  /\ UNCHANGED <<logVars, receiptVars, folded, queueVars>>
           /\ s.pc = "record" /\ P(h).kind = "TransferDispatched"
           /\ RecordDispatch(P(h).transfer, s.node, P(h).to, Line(h))
           /\ Stays(s, t) /\ t.queue = s.queue /\ t.rej = s.rej
           /\ \/ s.line < Len(P(h).lines) /\ t.line = s.line + 1 /\ t.pc = "record"
              \/ /\ ~ (s.line < Len(P(h).lines)) /\ t.line = 1
                 /\ t.pc = IF s.rej.reason # "accepted" THEN "fail" ELSE "forward"
  <1>1. DOMAIN s = Fields
    BY SessionFields DEF TypeInv, TypeOK
  <1>. QED
    BY <1>1, NextLineDoes DEF RecordDispatchLine, Step, At, Rejected

LEMMA KillTransferDoes ==
    ASSUME TypeInv, NEW h \in Handlers, KillTransfer(h),
           NEW s, s = session[h], NEW t, t = session'[h]
    PROVE  /\ UNCHANGED <<logVars, receiptVars, folded, queueVars>>
           /\ s.pc = "fail" /\ FailTransfer(P(h).transfer)
           /\ Stays(s, t) /\ t.queue = s.queue /\ t.rej = s.rej /\ t.pc = "comps"
  BY GotoDoes DEF KillTransfer, Step, At

LEMMA ReadRowDoes ==
    ASSUME TypeInv, NEW h \in Handlers, ReadRow(h),
           NEW s, s = session[h], NEW t, t = session'[h]
    PROVE  /\ UNCHANGED storeVars
           /\ s.pc = "row" /\ Stays(s, t) /\ t.queue = s.queue /\ t.rej = s.rej
           /\ \/ /\ t.pc = "fold" /\ t.line = s.line
                 /\ InTransit(P(h).transfer, Line(h).sku) # NoRow
              \/ s.line < Len(P(h).lines) /\ t.line = s.line + 1 /\ t.pc = "row"
              \/ ~ (s.line < Len(P(h).lines)) /\ t.line = 1 /\ t.pc = "forward"
  <1>. DEFINE row == InTransit(P(h).transfer, Line(h).sku)
              fold(seen) == [s EXCEPT !.pc = "fold", !.seen = seen]
  <1>1. DOMAIN s = Fields /\ s.pc = "row" /\ UNCHANGED storeVars
    BY SessionFields DEF TypeInv, TypeOK, ReadRow, Step, At
  <1>2. \/ Become(h, NextLine(h, s, "row", "forward"))
        \/ row # NoRow /\ \E seen : Become(h, fold(seen))
    BY DEF ReadRow
  <1>3. \A seen : /\ Stays(s, fold(seen)) /\ fold(seen).queue = s.queue
                  /\ fold(seen).rej = s.rej /\ fold(seen).pc = "fold"
                  /\ fold(seen).line = s.line
    BY <1>1 DEF Fields, Stays
  <1>. HIDE DEF fold, row
  <1>4. CASE Become(h, NextLine(h, s, "row", "forward"))
    BY <1>1, <1>4, NextLineDoes
  <1>5. CASE row # NoRow /\ \E seen : Become(h, fold(seen))
    BY <1>1, <1>3, <1>5, Becomes DEF row
  <1>. QED
    BY <1>2, <1>4, <1>5

LEMMA FoldLineDoes ==
    ASSUME TypeInv, NEW h \in Handlers, FoldLine(h),
           NEW s, s = session[h], NEW t, t = session'[h]
    PROVE  /\ UNCHANGED <<logVars, receiptVars, queueVars>>
           /\ s.pc = "fold" /\ AddReceived(Current(h), P(h).transfer, Line(h).sku, s.seen)
           /\ Stays(s, t) /\ t.queue = s.queue /\ t.rej = s.rej
           /\ \/ s.line < Len(P(h).lines) /\ t.line = s.line + 1 /\ t.pc = "row"
              \/ ~ (s.line < Len(P(h).lines)) /\ t.line = 1 /\ t.pc = "forward"
  <1>1. DOMAIN s = Fields
    BY SessionFields DEF TypeInv, TypeOK
  <1>. QED
    BY <1>1, NextLineDoes DEF FoldLine, Step, At

LEMMA ForwardDispatchDoes ==
    ASSUME TypeInv, NEW h \in Handlers, ForwardDispatch(h),
           NEW s, s = session[h], NEW t, t = session'[h]
    PROVE  /\ UNCHANGED <<logVars, receiptVars, transitVars, pushed>>
           /\ s.pc = "forward" /\ P(h).kind = "TransferDispatched"
           /\ Enqueue(P(h).to, EventRef(Current(h)))
           /\ Stays(s, t) /\ t.queue = s.queue /\ t.rej = s.rej /\ t.pc = "decide"
  BY GotoDoes DEF ForwardDispatch, Step, At

LEMMA ForwardArrivalDoes ==
    ASSUME TypeInv, NEW h \in Handlers, ForwardArrival(h),
           NEW s, s = session[h], NEW t, t = session'[h]
    PROVE  /\ UNCHANGED <<logVars, receiptVars, transitVars, pushed>>
           /\ s.pc = "forward" /\ P(h).kind = "TransferReceived"
           /\ \/ /\ outbound' = outbound
                 /\ \A i \in DOMAIN P(h).lines :
                       InTransit(P(h).transfer, P(h).lines[i].sku) = NoRow
              \/ \E i \in DOMAIN P(h).lines :
                    /\ InTransit(P(h).transfer, P(h).lines[i].sku) # NoRow
                    /\ Enqueue(InTransit(P(h).transfer, P(h).lines[i].sku).from,
                               EventRef(Current(h)))
           /\ Stays(s, t) /\ t.queue = s.queue /\ t.rej = s.rej
           /\ t.pc = IF s.rej.reason # "accepted" THEN "comps" ELSE "decide"
  BY GotoDoes DEF ForwardArrival, Step, At, Rejected

LEMMA ReadCompensationsDoes ==
    ASSUME TypeInv, NEW h \in Handlers, ReadCompensations(h),
           NEW s, s = session[h], NEW t, t = session'[h]
    PROVE  /\ UNCHANGED storeVars
           /\ s.pc = "comps"
           /\ \/ End(h)
              \/ /\ Stays(s, t) /\ t.rej = s.rej
                 /\ \/ /\ comps[Current(h)] = <<>>
                       /\ t.pc = "emit" /\ t.line = 1 /\ t.queue = s.queue
                    \/ /\ comps[Current(h)] # <<>>
                       /\ t.pc = "enqueue" /\ t.queue = DOMAIN comps[Current(h)]
  <1>. DEFINE k == Len(CompensationsOf(Current(h)))
  <1>1. DOMAIN s = Fields /\ s.pc = "comps"
    BY SessionFields DEF TypeInv, TypeOK, ReadCompensations, At
  <1>2. s.line = 1 /\ Current(h) \in Ids
    BY <1>1, Here, PhaseKinds DEF Fits, LineFits
  <1>3. comps[Current(h)] \in Seq(Compensation)
    BY <1>2 DEF TypeInv, TypeOK, StoreTypeOK
  <1>4. CASE k = 0 /\ Goto(h, "emit") /\ UNCHANGED storeVars
    <2>1. comps[Current(h)] = <<>>
      BY <1>3, <1>4 DEF CompensationsOf
    <2>. QED
      BY <1>1, <1>2, <1>4, <2>1, GotoDoes
  <1>5. CASE /\ k > 0 /\ Become(h, [s EXCEPT !.pc = "enqueue", !.queue = 1..k])
             /\ UNCHANGED storeVars
    <2>1. comps[Current(h)] # <<>> /\ 1..k = DOMAIN comps[Current(h)]
      BY <1>3, <1>5 DEF CompensationsOf
    <2>2. t = [s EXCEPT !.pc = "enqueue", !.queue = 1..k]
      BY <1>5, Becomes
    <2>. HIDE DEF k
    <2>. QED
      BY <1>1, <1>5, <2>1, <2>2 DEF Fields, Stays
  <1>6. CASE End(h)
    BY <1>1, <1>6 DEF End
  <1>. QED
    BY <1>4, <1>5, <1>6 DEF ReadCompensations

LEMMA EmitDoes ==
    ASSUME TypeInv, NEW h \in Handlers, Emit(h),
           NEW s, s = session[h], NEW t, t = session'[h]
    PROVE  /\ UNCHANGED <<events, decisions, receiptVars, transitVars, queueVars>>
           /\ s.pc = "emit" /\ Current(h) \in Ids
           /\ comps' = [comps EXCEPT ![Current(h)] = Append(@, s.rej.events[s.line])]
           /\ Stays(s, t) /\ t.rej = s.rej
           /\ t.queue = s.queue \cup {Len(comps[Current(h)]) + 1}
           /\ \/ s.line < Len(s.rej.events) /\ t.pc = "emit" /\ t.line = s.line + 1
              \/ ~ (s.line < Len(s.rej.events)) /\ t.pc = "enqueue" /\ t.line = 1
  <1>. DEFINE more == s.line < Len(s.rej.events)
              line == IF more THEN s.line + 1 ELSE 1
              pc == IF more THEN "emit" ELSE "enqueue"
              queue == s.queue \cup {Len(comps[Current(h)]) + 1}
  <1>1. DOMAIN s = Fields /\ s.pc = "emit"
    BY SessionFields DEF TypeInv, TypeOK, Emit, Step, At
  <1>2. Current(h) \in Ids
    BY <1>1, Here, PhaseKinds
  <1>3. t = [s EXCEPT !.queue = queue, !.line = line, !.pc = pc]
    BY Becomes DEF Emit
  <1>4. /\ UNCHANGED <<events, decisions, receiptVars, transitVars, queueVars>>
        /\ comps' = [comps EXCEPT ![Current(h)] = Append(@, s.rej.events[s.line])]
    BY DEF Emit, InsertCompensation
  <1>5. \/ more /\ pc = "emit" /\ line = s.line + 1
        \/ ~ more /\ pc = "enqueue" /\ line = 1
    OBVIOUS
  <1>. HIDE DEF queue, line, pc
  <1>6. Stays(s, t) /\ t.rej = s.rej /\ t.queue = queue /\ t.line = line /\ t.pc = pc
    BY <1>1, <1>3 DEF Fields, Stays
  <1>. QED
    BY <1>1, <1>2, <1>4, <1>5, <1>6 DEF queue

LEMMA EnqueueCompensationDoes ==
    ASSUME TypeInv, NEW h \in Handlers, EnqueueCompensation(h),
           NEW s, s = session[h], NEW t, t = session'[h]
    PROVE  /\ UNCHANGED <<logVars, receiptVars, transitVars, pushed>>
           /\ s.pc = "enqueue" /\ Stays(s, t) /\ t.rej = s.rej
           /\ \E k \in s.queue :
                 /\ Enqueue(s.node, CompRef(Current(h), k))
                 /\ t.queue = s.queue \ {k}
                 /\ \/ t.pc = "enqueue"
                    \/ t.pc = "decide" /\ t.queue = {}
  <1>1. DOMAIN s = Fields /\ s.pc = "enqueue"
    BY SessionFields DEF TypeInv, TypeOK, EnqueueCompensation, Step, At
  <1>2. PICK k \in s.queue :
          /\ Enqueue(s.node, CompRef(Current(h), k))
          /\ Become(h, [s EXCEPT !.queue = s.queue \ {k},
                                 !.pc = IF s.queue = {k} THEN "decide" ELSE "enqueue"])
    BY DEF EnqueueCompensation
  <1>. DEFINE pc == IF s.queue = {k} THEN "decide" ELSE "enqueue"
  <1>3. t = [s EXCEPT !.queue = s.queue \ {k}, !.pc = pc]
    BY <1>2, Becomes
  <1>4. pc = "enqueue" \/ (pc = "decide" /\ s.queue = {k})
    OBVIOUS
  <1>. HIDE DEF pc
  <1>5. Stays(s, t) /\ t.rej = s.rej /\ t.queue = s.queue \ {k} /\ t.pc = pc
    BY <1>1, <1>3 DEF Fields, Stays
  <1>6. UNCHANGED <<logVars, receiptVars, transitVars, pushed>>
    BY DEF EnqueueCompensation
  <1>. QED
    BY <1>1, <1>2, <1>4, <1>5, <1>6

LEMMA ReadDecisionDoes ==
    ASSUME TypeInv, NEW h \in Handlers, ReadDecision(h),
           NEW s, s = session[h], NEW t, t = session'[h]
    PROVE  /\ UNCHANGED storeVars
           /\ s.pc = "decision"
           /\ \/ NextEvent(h)
              \/ /\ Stays(s, t) /\ t.pc = "append" /\ t.rej = s.rej
                 /\ t.line = s.line /\ t.queue = s.queue
  BY GotoDoes DEF ReadDecision, Step, At

LEMMA DecideDoes ==
    ASSUME TypeInv, NEW h \in Handlers, Decide(h)
    PROVE  /\ UNCHANGED <<events, comps, receiptVars, transitVars, queueVars>>
           /\ session[h].pc = "decide" /\ NextEvent(h)
           /\ decisions' = [decisions EXCEPT ![Current(h)] = session[h].rej.reason]
  BY DEF Decide, Step, At, RecordDecision

\* The end of an upstream half, of a session, or of the stream.
LEMMA LeaveDoes ==
    ASSUME TypeInv, NEW h \in Handlers, StorePushed(h) \/ Ack(h) \/ End(h),
           NEW s, s = session[h], NEW t, t = session'[h]
    PROVE  /\ UNCHANGED <<logVars, receiptVars, transitVars, outbound>>
           /\ \/ t = IdleSession
              \/ /\ s.pc \in {"setpushed", "ack"} /\ t.pc \in {"ack", "receive"}
                 /\ Stays(s, t) /\ t.rej = s.rej /\ t.queue = s.queue /\ t.line = s.line
  <1>1. CASE StorePushed(h) \/ Ack(h)
    <2>1. \/ t = IdleSession
          \/ \E pc \in {"ack", "receive"} : Goto(h, pc)
      BY <1>1, Becomes DEF StorePushed, Ack
    <2>2. UNCHANGED <<logVars, receiptVars, transitVars, outbound>>
          /\ s.pc \in {"setpushed", "ack"}
      BY <1>1 DEF StorePushed, Ack, Step, At, storeVars, logVars, receiptVars, transitVars
    <2>. QED
      BY <2>1, <2>2, GotoDoes
  <1>2. CASE End(h)
    BY <1>2, Becomes DEF End, storeVars, logVars, receiptVars, transitVars
  <1>. QED
    BY <1>1, <1>2

-----------------------------------------------------------------------------
(* Rows and queues after a step *)

\* What a step of h does to the row of a transfer line.
Redispatched(h, key) ==
    /\ RecordDispatchLine(h)
    /\ key = <<P(h).transfer, Line(h).sku>>
    /\ transit'[key].dispatched = Line(h).qty
    /\ transit'[key].from = IF transit[key] = NoRow THEN session[h].node ELSE transit[key].from
    /\ transit'[key].received = transit[key].received
    /\ transit'[key].failed = transit[key].failed
Killed(h, key) ==
    /\ KillTransfer(h)
    /\ key[1] = P(h).transfer
    /\ transit[key] # NoRow
    /\ transit'[key].dispatched = transit[key].dispatched
    /\ transit'[key].from = transit[key].from
    /\ transit'[key].received = transit[key].received
    /\ transit'[key].failed
Refolded(h, key) ==
    /\ FoldLine(h)
    /\ key = <<P(h).transfer, Line(h).sku>>
    /\ transit[key] # NoRow
    /\ transit'[key].dispatched = transit[key].dispatched
    /\ transit'[key].from = transit[key].from
    /\ transit'[key].received = transit[key].received + session[h].seen
    /\ transit'[key].failed = transit[key].failed
    /\ folded[<<Current(h), Line(h).sku>>] = 0
    /\ folded' = [folded EXCEPT ![<<Current(h), Line(h).sku>>] = session[h].seen]

\* A line that is being folded has a row.
FoldReady(h) == session[h].pc = "fold" => InTransit(P(h).transfer, Line(h).sku) # NoRow

LEMMA DispatchWrites ==
    ASSUME TypeInv, NEW h \in Handlers, RecordDispatchLine(h),
           NEW key \in Transfers \X SKUs, key = <<P(h).transfer, Line(h).sku>>
    PROVE  Redispatched(h, key)
  <1>. DEFINE fresh == [from |-> session[h].node, to |-> P(h).to, dispatched |-> Line(h).qty,
                        received |-> 0, failed |-> FALSE]
              again == [transit[key] EXCEPT !.dispatched = Line(h).qty]
              row == IF transit[key] = NoRow THEN fresh ELSE again
  <1>1. transit \in [Transfers \X SKUs -> Rows] /\ transit[key] \in Rows
    BY DEF TypeInv, TypeOK, StoreTypeOK, Rows
  <1>2. transit'[key] = row
    BY <1>1 DEF RecordDispatchLine, RecordDispatch
  <1>3. /\ again.dispatched = Line(h).qty /\ again.from = transit[key].from
        /\ again.received = transit[key].received /\ again.failed = transit[key].failed
    BY <1>1 DEF Rows
  <1>4. NoRow.received = 0 /\ NoRow.failed = FALSE
    BY DEF NoRow
  <1>5. /\ row.dispatched = Line(h).qty
        /\ row.from = IF transit[key] = NoRow THEN session[h].node ELSE transit[key].from
        /\ row.received = transit[key].received /\ row.failed = transit[key].failed
    BY <1>3, <1>4
  <1>. HIDE DEF row
  <1>. QED
    BY <1>2, <1>5 DEF Redispatched

LEMMA RowAfter ==
    ASSUME TypeInv, NEW h \in Handlers, FoldReady(h), HandlerStep(h) \/ Fail(h),
           NEW key \in Transfers \X SKUs
    PROVE  \/ transit'[key] = transit[key]
           \/ Redispatched(h, key) \/ Killed(h, key) \/ Refolded(h, key)
  <1>1. transit \in [Transfers \X SKUs -> Rows] /\ transit[key] \in Rows
    BY DEF TypeInv, TypeOK, StoreTypeOK, Rows
  <1>2. CASE RecordDispatchLine(h)
    <2>1. key # <<P(h).transfer, Line(h).sku>> => transit'[key] = transit[key]
      BY <1>1, <1>2 DEF RecordDispatchLine, RecordDispatch
    <2>. QED
      BY <1>2, <2>1, DispatchWrites
  <1>3. CASE KillTransfer(h)
    <2>. DEFINE dead == [transit[key] EXCEPT !.failed = TRUE]
    <2>1. transit'[key] = IF key[1] = P(h).transfer /\ transit[key] # NoRow
                            THEN dead ELSE transit[key]
      BY <1>1, <1>3 DEF KillTransfer, FailTransfer
    <2>2. /\ dead.dispatched = transit[key].dispatched /\ dead.from = transit[key].from
          /\ dead.received = transit[key].received /\ dead.failed
      BY <1>1 DEF Rows
    <2>. HIDE DEF dead
    <2>. QED
      BY <1>3, <2>1, <2>2 DEF Killed
  <1>4. CASE FoldLine(h)
    <2>. DEFINE sum == [transit[key] EXCEPT !.received = transit[key].received + session[h].seen]
    <2>1. /\ sum.dispatched = transit[key].dispatched /\ sum.from = transit[key].from
          /\ sum.failed = transit[key].failed
          /\ sum.received = transit[key].received + session[h].seen
      BY <1>1 DEF Rows
    <2>2. key # <<P(h).transfer, Line(h).sku>> => transit'[key] = transit[key]
      BY <1>1, <1>4 DEF FoldLine, AddReceived, transitVars
    <2>3. folded[<<Current(h), Line(h).sku>>] # 0 => transit'[key] = transit[key]
      BY <1>4 DEF FoldLine, AddReceived, transitVars
    <2>4. ASSUME key = <<P(h).transfer, Line(h).sku>>, folded[<<Current(h), Line(h).sku>>] = 0
          PROVE  /\ transit'[key] = sum
                 /\ folded' = [folded EXCEPT ![<<Current(h), Line(h).sku>>] = session[h].seen]
      BY <1>1, <1>4, <2>4 DEF FoldLine, AddReceived
    <2>5. key = <<P(h).transfer, Line(h).sku>> => transit[key] # NoRow
      BY <1>4 DEF FoldReady, FoldLine, Step, At, InTransit
    <2>. HIDE DEF sum
    <2>. QED
      BY <1>4, <2>1, <2>2, <2>3, <2>4, <2>5 DEF Refolded
  <1>5. CASE ~ (RecordDispatchLine(h) \/ KillTransfer(h) \/ FoldLine(h))
    BY <1>5 DEF HandlerStep, ReceiveBatch, ReadDecision, StoreEvent, Validate, CheckItem,
       CheckNote, ReadTotal, CheckOrder, CheckDestination, CheckTransit, CheckFolded, Record,
       RecordFact, ReadRow, ForwardDispatch, ForwardArrival, Settle, ReadCompensations, Emit,
       EnqueueCompensation, Decide, StorePushed, Ack, Notice, Fail, End, storeVars, transitVars
  <1>. QED
    BY <1>2, <1>3, <1>4, <1>5

\* An envelope a step of h adds to a queue, if it adds any.
Announces(h) ==
    \E n \in Nodes \cup Nat, env \in Envelopes :
        /\ Enqueue(n, env)
        /\ \/ env = EventRef(Current(h)) /\ session[h].pc = "forward"
           \/ \E k \in session[h].queue : env = CompRef(Current(h), k)

LEMMA OutboundAfter ==
    ASSUME TypeInv, NEW h \in Handlers, HandlerStep(h) \/ Fail(h)
    PROVE  outbound' = outbound \/ Announces(h)
  <1>1. session[h] \in Sessions /\ 0 \in Nat
    BY DEF TypeInv, TypeOK
  <1>2. session[h].pc \in Arbitrating =>
          /\ Current(h) \in Ids /\ P(h) \in Payloads /\ session[h].node \in Nodes
          /\ EventRef(Current(h)) \in Envelopes
          /\ \A k \in session[h].queue : CompRef(Current(h), k) \in Envelopes
    BY <1>1, Here DEF Envelopes, EventRef, CompRef, Sessions
  <1>3. CASE ForwardDispatch(h)
    <2>1. P(h).to \in Nodes /\ session[h].pc = "forward" /\ session[h].pc \in Arbitrating
      BY <1>2, <1>3, PayloadFields, PhaseKinds DEF ForwardDispatch, Step, At, Dispatches
    <2>. QED
      BY <1>2, <1>3, <2>1 DEF ForwardDispatch, Announces
  <1>4. CASE ForwardArrival(h)
    <2>1. session[h].pc = "forward" /\ session[h].pc \in Arbitrating
      BY <1>4, PhaseKinds DEF ForwardArrival, Step, At
    <2>2. ASSUME NEW i \in DOMAIN P(h).lines
          PROVE  InTransit(P(h).transfer, P(h).lines[i].sku).from \in Nat
      <3>1. P(h).transfer \in Transfers /\ P(h).lines[i].sku \in SKUs
        BY <1>2, <1>4, <2>1, <2>2, PayloadFields, LineType DEF ForwardArrival, Arrivals
      <3>2. transit[<<P(h).transfer, P(h).lines[i].sku>>] \in Rows
        BY <3>1 DEF TypeInv, TypeOK, StoreTypeOK, Rows
      <3>. QED
        BY <3>2 DEF InTransit, Rows
    <2>. QED
      BY <1>2, <1>4, <2>1, <2>2, ForwardArrivalDoes DEF Announces
  <1>5. CASE EnqueueCompensation(h)
    <2>1. session[h].pc \in Arbitrating
      BY <1>5, PhaseKinds DEF EnqueueCompensation, Step, At
    <2>. QED
      BY <1>2, <1>5, <2>1 DEF EnqueueCompensation, Announces
  <1>6. CASE ~ (ForwardDispatch(h) \/ ForwardArrival(h) \/ EnqueueCompensation(h))
    BY <1>6 DEF HandlerStep, ReceiveBatch, ReadDecision, StoreEvent, Validate, CheckItem,
       CheckNote, ReadTotal, CheckOrder, CheckDestination, CheckTransit, CheckFolded, Record,
       RecordFact, RecordDispatchLine, KillTransfer, ReadRow, FoldLine, Settle,
       ReadCompensations, Emit, Decide, StorePushed, Ack, Notice, Fail, End, storeVars, queueVars
  <1>. QED
    BY <1>3, <1>4, <1>5, <1>6

-----------------------------------------------------------------------------
(* What is on record of a transfer stays on record *)

LEMMA DispatchLines ==
    ASSUME TypeInv, NEW id \in Recorded, NEW i \in LinesOf(id),
           Payload(id).kind \in {"TransferDispatched", "TransferReceived"}
    PROVE  /\ <<Payload(id).transfer, Payload(id).lines[i].sku>> \in Transfers \X SKUs
           /\ Payload(id).lines[i].qty \in Nat \ {0}
           /\ i \in Nat
  <1>1. id \in Ids /\ id[1] \in Nodes /\ id[2] \in 1..MaxSeq /\ id[2] <= Len(log[id[1]])
    BY DEF Recorded, Ids
  <1>2. log[id[1]] \in Seq(Payloads)
    BY <1>1, ArbiterAssumption DEF TypeInv, TypeOK
  <1>3. Payload(id) \in Payloads
    BY <1>1, <1>2, StoreAssumption DEF Payload
  <1>4. Payload(id).transfer \in Transfers
    BY <1>3, PayloadFields DEF Dispatches, Arrivals
  <1>. QED
    BY <1>3, <1>4, LineType DEF LinesOf

LEMMA HereRecorded ==
    ASSUME TypeInv, NEW h \in Handlers, session[h].pc \in Arbitrating
    PROVE  Current(h) \in Recorded /\ Payload(Current(h)) = P(h)
           /\ Current(h)[1] = session[h].node /\ Current(h)[2] = session[h].cur
  <1>1. /\ session[h].cur \in 1..session[h].last /\ Current(h) \in Ids
        /\ session[h].last <= Len(log[session[h].node])
        /\ session[h].last \in Nat
        /\ Len(log[session[h].node]) \in Nat
    <2>1. session[h].node \in Nodes /\ session[h] \in Sessions
      BY Here
    <2>2. log[session[h].node] \in Seq(Payloads)
      BY <2>1, ArbiterAssumption DEF TypeInv, TypeOK
    <2>. QED
      BY <2>1, <2>2, Here DEF Sessions
  <1>. QED
    BY <1>1 DEF Recorded, Current, P

LEMMA LineHere ==
    ASSUME TypeInv, NEW h \in Handlers,
           session[h].pc \in {"items", "note", "total", "own", "transit", "folded", "record",
                              "row", "fold"}
    PROVE  session[h].line \in LinesOf(Current(h)) /\ session[h].line \in 1..Len(P(h).lines)
  <1>1. session[h].pc \in Arbitrating
    BY PhaseKinds
  <1>2. session[h].line \in DOMAIN P(h).lines /\ P(h) \in Payloads
    BY <1>1, Here DEF Fits, LineFits
  <1>. QED
    BY <1>2, LineType DEF LinesOf, P

LEMMA FoldsReady ==
    ASSUME TransferInv, NEW h \in Handlers
    PROVE  FoldReady(h)
  BY DEF TransferInv, Ships, FoldReady, RowOf, Line, P, Current

\* A row stays, and keeps its source.
LEMMA RowStays ==
    ASSUME TypeInv, TransferInv, NEW h \in Handlers, HandlerStep(h) \/ Fail(h),
           NEW key \in Transfers \X SKUs, transit[key] # NoRow
    PROVE  transit'[key] # NoRow /\ transit'[key].from = transit[key].from
  <1>1. transit[key].dispatched > 0 /\ NoRow.dispatched = 0
    BY DEF TransferInv, RowsReal, TypeInv, TypeOK, StoreTypeOK, NoRow
  <1>2. CASE Redispatched(h, key)
    <2>1. Line(h).qty \in Nat \ {0}
      BY <1>2, LineHere, HereRecorded, DispatchLines, PhaseKinds
         DEF Redispatched, RecordDispatchLine, Step, At, Line, P
    <2>. QED
      BY <1>1, <1>2, <2>1 DEF Redispatched
  <1>3. CASE Killed(h, key) \/ Refolded(h, key)
    BY <1>1, <1>3 DEF Killed, Refolded
  <1>. QED
    BY <1>2, <1>3, RowAfter, FoldsReady

LEMMA RowsStayReal ==
    ASSUME TypeInv, TransferInv, NEW h \in Handlers, HandlerStep(h) \/ Fail(h)
    PROVE  RowsReal'
  <1>. SUFFICES ASSUME NEW key \in DOMAIN transit', transit'[key] # NoRow
                PROVE  /\ transit'[key].dispatched > 0
                       /\ (\E id \in Recorded : MadeBy(key, id))'
    BY DEF RowsReal
  <1>1. TypeInv'
    BY TypeInvNext DEF Next
  <1>2. key \in Transfers \X SKUs /\ key \in DOMAIN transit
    BY <1>1 DEF TypeInv, TypeOK, StoreTypeOK
  <1>3. transit[key] # NoRow =>
          transit[key].dispatched > 0 /\ \E id \in Recorded : MadeBy(key, id)
    BY <1>2 DEF TransferInv, RowsReal
  <1>4. log' = log /\ Recorded' = Recorded
    BY Alongside DEF Recorded
  <1>5. ASSUME transit[key] # NoRow, transit'[key].from = transit[key].from
        PROVE  (\E id \in Recorded : MadeBy(key, id))'
    BY <1>3, <1>4, <1>5 DEF MadeBy, Payload
  <1>6. CASE Redispatched(h, key)
    <2>1. /\ Current(h) \in Recorded /\ Payload(Current(h)) = P(h)
          /\ Current(h)[1] = session[h].node
          /\ session[h].line \in LinesOf(Current(h))
          /\ P(h).kind = "TransferDispatched"
      BY <1>6, LineHere, HereRecorded, PhaseKinds
         DEF Redispatched, RecordDispatchLine, Step, At
    <2>2. Line(h).qty \in Nat \ {0}
      BY <2>1, DispatchLines DEF Line
    <2>3. CASE transit[key] = NoRow
      <3>1. PICK id : id = Current(h)
        OBVIOUS
      <3>2. MadeBy(key, id)'
        BY <1>4, <1>6, <2>1, <2>3, <3>1 DEF MadeBy, Redispatched, Payload
      <3>. QED
        BY <1>4, <1>6, <2>1, <2>2, <3>1, <3>2 DEF Redispatched
    <2>. QED
      BY <1>5, <1>6, <2>2, <2>3 DEF Redispatched
  <1>7. CASE transit'[key] = transit[key] \/ Killed(h, key) \/ Refolded(h, key)
    BY <1>3, <1>5, <1>7 DEF Killed, Refolded
  <1>. QED
    BY <1>2, <1>6, <1>7, RowAfter, FoldsReady

\* Nobody else writes the dispatched quantity of the row of a dispatch.
LEMMA LineStaysShipped ==
    ASSUME TypeInv, TransferInv, OneDispatch, NEW h \in Handlers, HandlerStep(h) \/ Fail(h),
           NEW id \in Recorded, Payload(id).kind = "TransferDispatched", NEW i \in LinesOf(id),
           LineShipped(id, i)
    PROVE  LineShipped(id, i)'
  <1>. DEFINE key == <<Payload(id).transfer, Payload(id).lines[i].sku>>
  <1>1. key \in Transfers \X SKUs /\ log' = log
    BY DispatchLines, Alongside
  <1>2. transit[key] # NoRow
    BY DEF LineShipped, RowOf, InTransit
  <1>3. transit'[key] # NoRow /\ transit'[key].from = transit[key].from
    BY <1>1, <1>2, RowStays
  <1>4. ASSUME LinesApart PROVE transit'[key].dispatched = transit[key].dispatched
    <2>1. CASE Redispatched(h, key)
      <3>1. /\ Current(h) \in Recorded /\ P(h).kind = "TransferDispatched"
            /\ Payload(Current(h)) = P(h)
            /\ session[h].line \in LinesOf(Current(h))
        BY <2>1, HereRecorded, LineHere, PhaseKinds
           DEF Redispatched, RecordDispatchLine, Step, At
      <3>2. DispatchIn(log, Current(h)) /\ DispatchIn(log, id) /\ log \in Workloads
            /\ Current(h) \in Ids /\ id \in Ids
        BY <3>1 DEF DispatchIn, Recorded, Payload, TypeInv, TypeOK
      <3>3. P(h).transfer = Payload(id).transfer /\ Line(h).sku = Payload(id).lines[i].sku
        BY <2>1 DEF Redispatched
      <3>4. log[Current(h)[1]][Current(h)[2]].transfer = log[id[1]][id[2]].transfer
        BY <3>1, <3>3 DEF Payload
      <3>5. Current(h) = id
        BY <3>2, <3>4 DEF OneDispatch
      <3>6. Payload(id).lines[session[h].line].sku = Payload(id).lines[i].sku
        BY <3>1, <3>3, <3>5 DEF Line
      <3>7. session[h].line = i
        BY <1>4, <3>1, <3>2, <3>5, <3>6 DEF LinesApart, Payload, LinesOf
      <3>. QED
        BY <1>4, <2>1, <3>1, <3>5, <3>7 DEF Redispatched, LineShipped, RowOf, InTransit, Line
    <2>. QED
      BY <1>1, <2>1, RowAfter, FoldsReady DEF Killed, Refolded
  <1>. QED
    BY <1>1, <1>3, <1>4 DEF LineShipped, RowOf, InTransit, Payload

\* Nothing leaves a queue, so what a node can have learned of stays learned.
LEMMA OutboundGrows ==
    ASSUME TypeInv, NEW h \in Handlers, HandlerStep(h) \/ Fail(h), NEW n \in Nodes
    PROVE  outbound[n] \subseteq outbound'[n]
  <1>1. n \in DOMAIN outbound
    BY DEF TypeInv, TypeOK, StoreTypeOK
  <1>. QED
    BY <1>1, OutboundAfter DEF Announces, Enqueue

LEMMA KnownStays ==
    ASSUME TypeInv, NEW h \in Handlers, HandlerStep(h) \/ Fail(h), NEW id, id[1] \in Nodes,
           Known(id)
    PROVE  Known(id)'
  <1>1. log' = log /\ outbound[id[1]] \subseteq outbound'[id[1]]
    BY Alongside, OutboundGrows
  <1>. QED
    BY <1>1 DEF Known, CanRecord, Payload

LEMMA ShippedStays ==
    ASSUME TypeInv, TransferInv, OneDispatch, NEW h \in Handlers, HandlerStep(h) \/ Fail(h),
           NEW id \in Recorded, Payload(id).kind = "TransferDispatched", Shipped(id)
    PROVE  Shipped(id)'
  <1>1. log' = log
    BY Alongside
  <1>2. \A i \in LinesOf(id) : LineShipped(id, i)'
    BY LineStaysShipped DEF Shipped
  <1>. QED
    BY <1>1, <1>2 DEF Shipped, LinesOf, Payload

LEMMA ShipsOfOthers ==
    ASSUME TypeInv, TransferInv, OneDispatch, NEW h \in Handlers, HandlerStep(h) \/ Fail(h),
           NEW g \in Handlers \ {h}
    PROVE  Ships(session[g])'
  <1>1. PICK s, id : s = session[g] /\ id = <<s.node, s.cur>>
    OBVIOUS
  <1>2. log' = log /\ session'[g] = s /\ id = Current(g)
    BY <1>1, Alongside DEF Current
  <1>3. Ships(s) /\ s.queue \subseteq Nat \ {0}
    BY <1>1 DEF TransferInv, Ships
  <1>4. CASE s.pc \notin Arbitrating
    BY <1>2, <1>3, <1>4, PhaseKinds DEF Ships
  <1>5. CASE s.pc \in Arbitrating
    <2>1. id \in Recorded /\ id[1] = s.node /\ s.node \in Nodes /\ E(s) = Payload(id)
      BY <1>1, <1>2, <1>5, HereRecorded, Here DEF E
    <2>2. E(s)' = E(s) /\ LinesOf(id)' = LinesOf(id)
      BY <1>2 DEF E, Payload, LinesOf
    <2>3. s.pc = "record" /\ E(s).kind = "TransferDispatched" =>
            \A i \in LinesOf(id) : i < s.line => LineShipped(id, i)'
      BY <1>1, <1>3, <2>1, LineStaysShipped DEF Ships
    <2>4. s.pc \in {"fail", "forward"} /\ E(s).kind = "TransferDispatched" => Shipped(id)'
      BY <1>1, <1>3, <2>1, ShippedStays DEF Ships
    <2>5. s.pc \in {"folded", "fold"} => (RowOf(id, s.line) # NoRow)'
      <3>1. SUFFICES ASSUME s.pc \in {"folded", "fold"} PROVE (RowOf(id, s.line) # NoRow)'
        OBVIOUS
      <3>2. s.line \in LinesOf(id) /\ Payload(id).kind = "TransferReceived"
        BY <1>1, <1>2, <1>5, <2>1, <3>1, LineHere, Here DEF Fits, KindFits
      <3>3. RowOf(id, s.line) # NoRow
        BY <1>1, <1>3, <3>1 DEF Ships
      <3>. QED
        BY <1>2, <2>1, <3>2, <3>3, DispatchLines, RowStays DEF RowOf, InTransit, Payload
    <2>6. \A i \in s.cur..s.last : Known(<<s.node, i>>)'
      BY <1>3, <1>5, <2>1, KnownStays DEF Ships
    <2>. QED
      BY <1>1, <1>2, <1>3, <2>2, <2>3, <2>4, <2>5, <2>6 DEF Ships
  <1>. QED
    BY <1>4, <1>5

\* A phase in which nothing is claimed of a transfer.
LEMMA ShipsElsewhere ==
    ASSUME NEW t, t.pc \notin {"record", "fail", "forward", "folded", "fold"},
           t.pc \in Arbitrating => \A i \in t.cur..t.last : Known(<<t.node, i>>)',
           t.queue \subseteq Nat \ {0}
    PROVE  Ships(t)'
  BY DEF Ships

\* What the handler's own step keeps whatever the phase.
LEMMA ShipsOwnBatch ==
    ASSUME TypeInv, TransferInv, NEW h \in Handlers, HandlerStep(h) \/ Fail(h),
           session[h].pc \in Arbitrating, NEW t, t.node = session[h].node,
           t.cur \in {session[h].cur, session[h].cur + 1}, t.last = session[h].last
    PROVE  \A i \in t.cur..t.last : Known(<<t.node, i>>)'
  <1>1. session[h].node \in Nodes /\ session[h].cur \in 1..session[h].last
        /\ session[h].last \in Nat
    BY Here DEF Sessions
  <1>2. \A i \in session[h].cur..session[h].last : Known(<<session[h].node, i>>)
    BY DEF TransferInv, Ships
  <1>3. ASSUME NEW i \in t.cur..t.last PROVE Known(<<t.node, i>>)'
    <2>1. i \in session[h].cur..session[h].last
      BY <1>1, <1>3
    <2>. QED
      BY <1>1, <1>2, <2>1, KnownStays
  <1>. QED
    BY <1>3

\* The handler stays at its event: what is left to show of the phase it comes to.
LEMMA ShipsOwnPhase ==
    ASSUME TypeInv, TransferInv, NEW h \in Handlers, HandlerStep(h) \/ Fail(h),
           session[h].pc \in Arbitrating,
           NEW t, t = session'[h], Stays(session[h], t), t.queue \subseteq Nat \ {0},
           NEW id, id = Current(h),
           t.pc = "record" /\ P(h).kind = "TransferDispatched" =>
               \A i \in LinesOf(id) : i < t.line => LineShipped(id, i)',
           t.pc \in {"fail", "forward"} /\ P(h).kind = "TransferDispatched" => Shipped(id)',
           t.pc = "forward" /\ P(h).kind = "TransferDispatched" => t.rej.reason = "accepted",
           t.pc \in {"folded", "fold"} => (RowOf(id, t.line) # NoRow)'
    PROVE  Ships(session[h])'
  <1>1. id = <<t.node, t.cur>> /\ log' = log
    BY Alongside DEF Stays, Current
  <1>2. E(t)' = P(h) /\ LinesOf(id)' = LinesOf(id)
    BY <1>1 DEF E, P, Payload, Current, LinesOf
  <1>3. \A i \in t.cur..t.last : Known(<<t.node, i>>)'
    BY ShipsOwnBatch DEF Stays
  <1>. QED
    BY <1>1, <1>2, <1>3 DEF Ships

LEMMA ShipsOwnEnds ==
    ASSUME TypeInv, TransferInv, NEW h \in Handlers, HandlerStep(h) \/ Fail(h),
           \/ ReceiveBatch(h) \/ ReadDecision(h) \/ Decide(h) \/ ReadCompensations(h)
           \/ StorePushed(h) \/ Ack(h) \/ End(h)
    PROVE  Ships(session[h])'
  <1>1. PICK s, t : s = session[h] /\ t = session'[h]
    OBVIOUS
  <1>2. s.queue \subseteq Nat \ {0} /\ IdleSession.queue = {} /\ IdleSession.pc = "idle"
    BY <1>1 DEF TransferInv, Ships, IdleSession
  <1>3. CASE NextEvent(h) /\ (ReadDecision(h) \/ Decide(h))
    <2>1. s.pc \in Arbitrating
      BY <1>1, <1>3, PhaseKinds DEF ReadDecision, Decide, Step, At
    <2>2. /\ t.node = s.node /\ t.cur = s.cur + 1 /\ t.last = s.last
          /\ t.pc \in {"decision", "setpushed"} /\ t.queue = {}
      BY <1>1, <1>3, NextEventDoes
    <2>3. \A i \in t.cur..t.last : Known(<<t.node, i>>)'
      BY <1>1, <2>1, <2>2, ShipsOwnBatch
    <2>. QED
      BY <1>1, <2>2, <2>3, ShipsElsewhere
  <1>4. CASE ReceiveBatch(h)
    <2>1. /\ UNCHANGED storeVars /\ t.queue = s.queue /\ log' = log
          /\ \/ /\ t.pc = "decision"
                /\ \A i \in t.cur..t.last : CanRecord(t.node, log[t.node][i])
             \/ t.pc = "setpushed"
      BY <1>1, <1>4, ReceiveBatchDoes, Alongside
    <2>2. t.pc = "decision" => \A i \in t.cur..t.last : Known(<<t.node, i>>)
      BY <2>1 DEF Known, Payload
    <2>3. t.pc = "decision" => \A i \in t.cur..t.last : Known(<<t.node, i>>)'
      BY <2>1, <2>2 DEF Known, CanRecord, Payload, storeVars
    <2>. QED
      BY <1>1, <1>2, <2>1, <2>3, ShipsElsewhere, PhaseKinds
  <1>5. CASE StorePushed(h) \/ Ack(h) \/ End(h)
    <2>1. t = IdleSession \/ (t.pc \in {"ack", "receive"} /\ t.queue = s.queue)
      BY <1>1, <1>5, LeaveDoes
    <2>. QED
      BY <1>1, <1>2, <2>1, ShipsElsewhere, PhaseKinds
  <1>6. CASE /\ ReadDecision(h) \/ ReadCompensations(h)
             /\ Stays(s, t) /\ t.pc \in {"append", "emit", "enqueue"}
             /\ t.queue \subseteq Nat \ {0}
    <2>1. s.pc \in Arbitrating
      BY <1>1, <1>6, PhaseKinds DEF ReadDecision, ReadCompensations, Step, At
    <2>2. \A i \in t.cur..t.last : Known(<<t.node, i>>)'
      BY <1>1, <1>6, <2>1, ShipsOwnBatch DEF Stays
    <2>. QED
      BY <1>1, <1>6, <2>2, ShipsElsewhere
  <1>7. CASE ReadDecision(h)
    BY <1>1, <1>2, <1>3, <1>6, <1>7, ReadDecisionDoes
  <1>8. CASE ReadCompensations(h)
    <2>1. s.pc = "comps" /\ Current(h) \in Ids
      BY <1>1, <1>8, Here, PhaseKinds DEF ReadCompensations, At
    <2>2. comps[Current(h)] \in Seq(Compensation)
      BY <2>1 DEF TypeInv, TypeOK, StoreTypeOK
    <2>3. DOMAIN comps[Current(h)] \subseteq Nat \ {0}
      BY <2>2
    <2>. QED
      BY <1>1, <1>2, <1>5, <1>6, <1>8, <2>3, ReadCompensationsDoes
  <1>. QED
    BY <1>3, <1>4, <1>5, <1>7, <1>8 DEF Decide

LEMMA ShipsOwnValidate ==
    ASSUME TypeInv, TransferInv, NEW h \in Handlers, StoreEvent(h) \/ Validate(h)
    PROVE  Ships(session[h])'
  <1>1. PICK s, t, id : s = session[h] /\ t = session'[h] /\ id = Current(h)
    OBVIOUS
  <1>2. HandlerStep(h)
    BY DEF HandlerStep
  <1>3. s.pc \in Arbitrating
    BY <1>1, PhaseKinds DEF StoreEvent, Validate, CheckItem, CheckNote, ReadTotal, CheckOrder,
                            CheckDestination, CheckTransit, CheckFolded, Step, At
  <1>4. s.queue \subseteq Nat \ {0} /\ Fits(s) /\ E(s) = P(h) /\ P(h) \in Payloads
        /\ id \in Recorded /\ P(h) = Payload(id)
    BY <1>1, <1>3, Here, HereRecorded DEF TransferInv, Ships
  <1>5. ASSUME Stays(s, t), t.queue = s.queue,
               t.pc \notin {"record", "fail", "forward", "folded", "fold"}
                 \/ (t.pc = "record" /\ P(h).kind = "GoodsReceived")
        PROVE  Ships(session[h])'
    BY <1>1, <1>2, <1>3, <1>4, <1>5, ShipsOwnPhase
  <1>6. ASSUME Stays(s, t), t.queue = s.queue, t.pc = "record", t.line = 1
        PROVE  Ships(session[h])'
    <2>1. P(h).kind = "TransferDispatched" => \A i \in LinesOf(id) : ~ (i < t.line)
      BY <1>4, <1>6, DispatchLines, LineType DEF LinesOf
    <2>. QED
      BY <1>1, <1>2, <1>3, <1>4, <1>6, <2>1, ShipsOwnPhase
  <1>7. CASE StoreEvent(h)
    BY <1>1, <1>5, <1>7, StoreEventDoes
  <1>8. CASE CheckItem(h)
    <2>1. P(h).kind \in {"TransferReceived", "TransferDispatched", "GoodsReceived"}
      BY <1>1, <1>4, <1>8, PayloadFields DEF CheckItem, Step, At, Fits, KindFits
    <2>2. \A rejected \in BOOLEAN :
             AfterItems(P(h).kind, rejected) \in {"row", "transit", "record", "destination", "note"}
      BY <2>1 DEF AfterItems
    <2>3. /\ Stays(s, t) /\ t.queue = s.queue
          /\ \/ t.pc = "items"
             \/ t.line = 1 /\ t.pc = AfterItems(P(h).kind, t.rej.reason # "accepted")
      BY <1>1, <1>8, CheckItemDoes
    <2>4. t.pc \in {"items", "row", "transit", "destination", "note"}
          \/ (t.line = 1 /\ t.pc = "record")
      BY <2>2, <2>3
    <2>. QED
      BY <1>5, <1>6, <2>3, <2>4
  <1>9. CASE CheckNote(h) \/ ReadTotal(h) \/ CheckOrder(h)
    <2>1. P(h).kind = "GoodsReceived"
      BY <1>1, <1>4, <1>9 DEF CheckNote, ReadTotal, CheckOrder, Step, At, Fits, KindFits
    <2>2. Stays(s, t) /\ t.queue = s.queue /\ t.pc \in {"record", "total", "own"}
      <3>1. CASE CheckNote(h)
        BY <1>1, <3>1, CheckNoteDoes
      <3>2. CASE ReadTotal(h)
        <4>1. Stays(s, t) /\ t.queue = s.queue /\ t.pc = "own"
          BY <1>1, <3>2, ReadTotalDoes
        <4>. QED
          BY <4>1
      <3>3. CASE CheckOrder(h)
        BY <1>1, <3>3, CheckOrderDoes
      <3>. QED
        BY <1>9, <3>1, <3>2, <3>3
    <2>. QED
      BY <1>5, <2>1, <2>2
  <1>10. CASE CheckDestination(h)
    <2>1. s.line = 1
      BY <1>1, <1>4, <1>10 DEF CheckDestination, Step, At, Fits, LineFits
    <2>. QED
      BY <1>1, <1>6, <1>10, <2>1, CheckDestinationDoes
  <1>11. CASE CheckTransit(h)
    <2>1. CASE t.pc = "folded"
      <3>1. Stays(s, t) /\ t.queue = s.queue /\ t.line = s.line /\ UNCHANGED storeVars
            /\ InTransit(P(h).transfer, Line(h).sku) # NoRow
        BY <1>1, <1>11, <2>1, CheckTransitDoes
      <3>2. (RowOf(id, t.line) # NoRow)'
        <4>1. log' = log /\ transit' = transit
          BY <1>2, <3>1, Alongside DEF storeVars
        <4>. QED
          BY <1>1, <1>4, <3>1, <4>1 DEF RowOf, InTransit, Payload, Line
      <3>. QED
        BY <1>1, <1>2, <1>3, <1>4, <2>1, <3>1, <3>2, ShipsOwnPhase
    <2>2. CASE t.pc # "folded"
      BY <1>1, <1>5, <1>11, <2>2, CheckTransitDoes
    <2>. QED
      BY <2>1, <2>2
  <1>12. CASE CheckFolded(h)
    BY <1>1, <1>5, <1>12, CheckFoldedDoes
  <1>. QED
    BY <1>7, <1>8, <1>9, <1>10, <1>11, <1>12 DEF Validate

LEMMA ShipsOwnRecord ==
    ASSUME TypeInv, TransferInv, OneDispatch, NEW h \in Handlers,
           Record(h) \/ Emit(h) \/ EnqueueCompensation(h)
    PROVE  Ships(session[h])'
  <1>1. PICK s, t, id : s = session[h] /\ t = session'[h] /\ id = Current(h)
    OBVIOUS
  <1>2. HandlerStep(h)
    BY DEF HandlerStep, Settle
  <1>3. s.pc \in Arbitrating
    BY <1>1, PhaseKinds DEF Record, RecordFact, RecordDispatchLine, KillTransfer, ReadRow,
                            FoldLine, ForwardDispatch, ForwardArrival, Emit,
                            EnqueueCompensation, Step, At
  <1>4. s.queue \subseteq Nat \ {0} /\ Fits(s) /\ E(s) = P(h) /\ P(h) \in Payloads
        /\ id \in Recorded /\ P(h) = Payload(id) /\ Ships(s) /\ id = <<s.node, s.cur>>
    BY <1>1, <1>3, Here, HereRecorded DEF TransferInv, Ships, Current
  <1>5. ASSUME Stays(s, t), t.queue \subseteq Nat \ {0},
               \/ t.pc \notin {"record", "fail", "forward", "folded", "fold"}
               \/ t.pc = "forward" /\ P(h).kind = "TransferReceived"
        PROVE  Ships(session[h])'
    BY <1>1, <1>2, <1>3, <1>5, ShipsOwnPhase
  <1>6. CASE RecordFact(h)
    BY <1>1, <1>4, <1>5, <1>6, RecordFactDoes
  <1>7. CASE RecordDispatchLine(h)
    <2>1. /\ s.pc = "record" /\ P(h).kind = "TransferDispatched"
          /\ RecordDispatch(P(h).transfer, s.node, P(h).to, Line(h))
          /\ Stays(s, t) /\ t.queue = s.queue /\ t.rej = s.rej
          /\ \/ s.line < Len(P(h).lines) /\ t.line = s.line + 1 /\ t.pc = "record"
             \/ /\ ~ (s.line < Len(P(h).lines)) /\ t.line = 1
                /\ t.pc = IF s.rej.reason # "accepted" THEN "fail" ELSE "forward"
      BY <1>1, <1>7, RecordDispatchLineDoes
    <2>2. s.line \in LinesOf(id) /\ s.line \in 1..Len(P(h).lines) /\ Len(P(h).lines) \in Nat
          /\ LinesOf(id) = 1..Len(P(h).lines)
      BY <1>1, <1>4, <2>1, LineHere, PayloadFields DEF LinesOf
    <2>3. \A i \in LinesOf(id) : i < s.line => LineShipped(id, i)'
      BY <1>2, <1>4, <2>1, LineStaysShipped DEF Ships
    <2>4. LineShipped(id, s.line)'
      <3>. DEFINE key == <<P(h).transfer, Line(h).sku>>
      <3>1. key \in Transfers \X SKUs /\ Line(h).qty \in Nat \ {0}
            /\ Line(h) = Payload(id).lines[s.line]
        BY <1>1, <1>4, <2>1, <2>2, DispatchLines DEF Line
      <3>2. transit'[key].dispatched = Line(h).qty
            /\ transit'[key].from = IF transit[key] = NoRow THEN s.node ELSE transit[key].from
        BY <1>1, <1>7, <3>1, DispatchWrites DEF Redispatched
      <3>3. transit'[key] # NoRow
        BY <3>1, <3>2 DEF NoRow
      <3>4. log' = log /\ id[1] = s.node
        BY <1>2, <1>4, Alongside
      <3>5. ASSUME transit[key] # NoRow PROVE transit[key].from = s.node
        <4>1. PICK b \in Recorded : MadeBy(key, b)
          BY <3>1, <3>5 DEF TransferInv, RowsReal, TypeInv, TypeOK, StoreTypeOK
        <4>2. log[id[1]][id[2]].transfer = log[b[1]][b[2]].transfer
          BY <1>4, <4>1 DEF MadeBy, Payload
        <4>3. DispatchIn(log, b) /\ DispatchIn(log, id) /\ log \in Workloads
              /\ b \in Ids /\ id \in Ids
          BY <1>4, <2>1, <4>1 DEF DispatchIn, MadeBy, Recorded, Payload, TypeInv, TypeOK
        <4>4. b = id
          BY <4>2, <4>3 DEF OneDispatch
        <4>. QED
          BY <3>4, <4>1, <4>4 DEF MadeBy
      <3>. QED
        BY <1>4, <3>1, <3>2, <3>3, <3>4, <3>5 DEF LineShipped, RowOf, InTransit, Payload
    <2>5. CASE t.pc = "record"
      <3>1. \A i \in LinesOf(id) : i < t.line => LineShipped(id, i)'
        BY <2>1, <2>2, <2>3, <2>4, <2>5
      <3>. QED
        BY <1>1, <1>2, <1>3, <1>4, <2>1, <2>5, <3>1, ShipsOwnPhase
    <2>6. CASE t.pc # "record"
      <3>1. \A i \in LinesOf(id) : LineShipped(id, i)'
        BY <2>1, <2>2, <2>3, <2>4, <2>6
      <3>2. Shipped(id)'
        <4>1. log' = log
          BY <1>2, Alongside
        <4>. QED
          BY <3>1, <4>1 DEF Shipped, LinesOf, Payload
      <3>. QED
        BY <1>1, <1>2, <1>3, <1>4, <2>1, <2>6, <3>2, ShipsOwnPhase
    <2>. QED
      BY <2>5, <2>6
  <1>8. CASE KillTransfer(h)
    BY <1>1, <1>4, <1>5, <1>8, KillTransferDoes
  <1>9. CASE ReadRow(h)
    <2>1. /\ s.pc = "row" /\ Stays(s, t) /\ t.queue = s.queue /\ UNCHANGED storeVars
          /\ \/ /\ t.pc = "fold" /\ t.line = s.line
                /\ InTransit(P(h).transfer, Line(h).sku) # NoRow
             \/ t.pc = "row" \/ t.pc = "forward"
      BY <1>1, <1>9, ReadRowDoes
    <2>2. P(h).kind = "TransferReceived"
      BY <1>4, <2>1 DEF Fits, KindFits
    <2>3. log' = log /\ transit' = transit
      BY <1>2, <2>1, Alongside DEF storeVars
    <2>4. t.pc = "fold" => (RowOf(id, t.line) # NoRow)'
      BY <1>1, <1>4, <2>1, <2>3 DEF RowOf, InTransit, Payload, Line
    <2>. QED
      BY <1>1, <1>2, <1>3, <1>4, <2>1, <2>2, <2>4, ShipsOwnPhase
  <1>10. CASE FoldLine(h)
    <2>1. P(h).kind = "TransferReceived"
      BY <1>1, <1>4, <1>10 DEF FoldLine, Step, At, Fits, KindFits
    <2>. QED
      BY <1>1, <1>4, <1>5, <1>10, <2>1, FoldLineDoes
  <1>11. CASE ForwardDispatch(h) \/ ForwardArrival(h)
    <2>1. Stays(s, t) /\ t.queue = s.queue /\ t.pc \in {"decide", "comps"}
      <3>1. CASE ForwardDispatch(h)
        BY <1>1, <3>1, ForwardDispatchDoes
      <3>2. CASE ForwardArrival(h)
        BY <1>1, <3>2, ForwardArrivalDoes
      <3>. QED
        BY <1>11, <3>1, <3>2
    <2>. QED
      BY <1>4, <1>5, <2>1
  <1>12. CASE Emit(h)
    <2>1. Current(h) \in Ids /\ Stays(s, t) /\ t.pc \in {"emit", "enqueue"}
          /\ t.queue = s.queue \cup {Len(comps[Current(h)]) + 1}
      BY <1>1, <1>12, EmitDoes
    <2>2. comps[Current(h)] \in Seq(Compensation)
      BY <2>1 DEF TypeInv, TypeOK, StoreTypeOK
    <2>3. Len(comps[Current(h)]) + 1 \in Nat \ {0}
      BY <2>2
    <2>. QED
      BY <1>4, <1>5, <2>1, <2>3
  <1>13. CASE EnqueueCompensation(h)
    <2>1. Stays(s, t) /\ t.pc \in {"enqueue", "decide"} /\ t.queue \subseteq s.queue
      BY <1>1, <1>13, EnqueueCompensationDoes
    <2>. QED
      BY <1>4, <1>5, <2>1
  <1>. QED
    BY <1>6, <1>7, <1>8, <1>9, <1>10, <1>11, <1>12, <1>13 DEF Record

\* What is announced of a transfer is on record by then.
LEMMA AnnouncedStaysShipped ==
    ASSUME TypeInv, TransferInv, OneDispatch, NEW h \in Handlers, HandlerStep(h) \/ Fail(h)
    PROVE  AnnouncedShipped'
  <1>1. log' = log /\ Recorded' = Recorded
    BY Alongside DEF Recorded
  <1>2. ASSUME NEW n \in Nodes, NEW id \in Ids, EventRef(id) \in outbound'[n]
        PROVE  id \in Recorded /\ (Payload(id).kind = "TransferDispatched" => Shipped(id))
    <2>1. CASE EventRef(id) \in outbound[n]
      BY <2>1 DEF TransferInv, AnnouncedShipped
    <2>2. CASE EventRef(id) \notin outbound[n]
      <3>1. PICK m \in Nodes \cup Nat, env \in Envelopes :
              /\ Enqueue(m, env)
              /\ \/ env = EventRef(Current(h)) /\ session[h].pc = "forward"
                 \/ \E k \in session[h].queue : env = CompRef(Current(h), k)
        BY <1>2, <2>2, OutboundAfter DEF Announces
      <3>2. env = EventRef(id)
        BY <1>2, <2>2, <3>1 DEF Enqueue, TypeInv, TypeOK, StoreTypeOK
      <3>3. session[h].queue \subseteq Nat \ {0}
        BY DEF TransferInv, Ships
      <3>4. session[h].pc = "forward" /\ Current(h) = id
        BY <3>1, <3>2, <3>3 DEF EventRef, CompRef
      <3>. QED
        BY <3>4, HereRecorded, PhaseKinds DEF TransferInv, Ships, E, Current
    <2>. QED
      BY <2>1, <2>2
  <1>3. ASSUME NEW id \in Recorded, Payload(id).kind = "TransferDispatched", Shipped(id)
        PROVE  Shipped(id)'
    BY <1>3, ShippedStays
  <1>. QED
    BY <1>1, <1>2, <1>3 DEF AnnouncedShipped, Payload

\* Nothing of a transfer changes when a session opens or a client turns away.
LEMMA TransferIdle ==
    ASSUME TransferInv, UNCHANGED storeVars, log' = log,
           \A g \in Handlers : \/ session'[g] = session[g]
                               \/ session'[g].pc = "receive" /\ session'[g].queue = {}
    PROVE  TransferInv'
  <1>1. \A g \in Handlers : Ships(session'[g])
    BY PhaseKinds DEF TransferInv, Ships
  <1>2. transit' = transit /\ outbound' = outbound
    BY DEF storeVars
  <1>3. RowsReal'
    BY <1>2 DEF TransferInv, RowsReal, MadeBy, Payload, Recorded
  <1>4. AnnouncedShipped'
    BY <1>2 DEF TransferInv, AnnouncedShipped, Shipped, LineShipped, LinesOf, RowOf, InTransit,
                Payload, Recorded
  <1>5. ASSUME NEW g \in Handlers PROVE Ships(session[g])'
    <2>1. PICK s : s = session'[g]
      OBVIOUS
    <2>2. Ships(s)
      BY <1>1, <2>1
    <2>3. \A id : /\ Known(id)' = Known(id) /\ Shipped(id)' = Shipped(id)
                  /\ LinesOf(id)' = LinesOf(id)
                  /\ \A i : RowOf(id, i)' = RowOf(id, i) /\ LineShipped(id, i)' = LineShipped(id, i)
      BY <1>2 DEF Known, CanRecord, Shipped, LineShipped, LinesOf, RowOf, InTransit, Payload
    <2>4. E(s)' = E(s)
      BY DEF E, Payload
    <2>. QED
      BY <2>1, <2>2, <2>3, <2>4 DEF Ships
  <1>. QED
    BY <1>3, <1>4, <1>5 DEF TransferInv

LEMMA TransferInvInit == ASSUME Init PROVE TransferInv
  <1>1. \A n \in Nodes : outbound[n] = {}
    BY DEF Init, StoreInit
  <1>2. \A key \in DOMAIN transit : transit[key] = NoRow
    BY DEF Init, StoreInit
  <1>3. \A h \in Handlers : session[h].pc = "idle" /\ session[h].queue = {}
    BY DEF Init, IdleSession
  <1>. QED
    BY <1>1, <1>2, <1>3, PhaseKinds DEF TransferInv, AnnouncedShipped, RowsReal, Ships

LEMMA TransferInvNext ==
    ASSUME TypeInv, TransferInv, OneDispatch, [Next]_vars
    PROVE  TransferInv'
  <1>1. ASSUME NEW h \in Handlers, NEW n \in Nodes, Open(h, n) PROVE TransferInv'
    <2>. DEFINE t == [IdleSession EXCEPT !.pc = "receive", !.node = n, !.last = Resume(n)]
    <2>1. t.pc = "receive" /\ t.queue = {}
      BY DEF IdleSession
    <2>2. UNCHANGED storeVars /\ log' = log /\ Become(h, t)
      BY <1>1 DEF Open, nodeVars
    <2>. HIDE DEF t
    <2>3. \A g \in Handlers : session'[g] = IF g = h THEN t ELSE session[g]
      BY <2>2 DEF Become, TypeInv, TypeOK
    <2>. QED
      BY <2>1, <2>2, <2>3, TransferIdle
  <1>2. ASSUME NEW h \in Handlers, HandlerStep(h) \/ Fail(h) PROVE TransferInv'
    <2>1. Ships(session[h])'
      BY <1>2, ShipsOwnEnds, ShipsOwnValidate, ShipsOwnRecord DEF HandlerStep, Settle, Notice, Fail
    <2>2. \A g \in Handlers : Ships(session[g])'
      BY <1>2, <2>1, ShipsOfOthers
    <2>. QED
      BY <1>2, <2>2, RowsStayReal, AnnouncedStaysShipped DEF TransferInv
  <1>3. ASSUME NEW n \in Nodes, Detach(n) PROVE TransferInv'
    BY <1>3, TransferIdle DEF Detach, nodeVars
  <1>4. CASE UNCHANGED vars
    BY <1>4, TransferIdle DEF vars
  <1>. QED
    BY <1>1, <1>2, <1>3, <1>4 DEF Next

-----------------------------------------------------------------------------
(* What justifies a rejection stays *)

LEMMA LeastNumber ==
    ASSUME NEW T \in SUBSET Nat, T # {}
    PROVE  \E m \in T : \A n \in T : m <= n
  <1>1. PICK m \in T : \A n \in T : <<n, m>> \notin OpToRel(<, Nat)
    BY NatLessThanWellFounded, WFMin
  <1>2. \A n \in T : ~ (n < m)
    BY <1>1 DEF OpToRel
  <1>. QED
    BY <1>2

LEMMA IdParts ==
    ASSUME NEW a \in Ids
    PROVE  a[1] \in Nat /\ a[2] \in Nat /\ a = <<a[1], a[2]>>
  <1>1. PICK n \in Nodes, i \in 1..MaxSeq : a = <<n, i>>
    BY DEF Ids
  <1>2. n \in Nat /\ i \in Nat
    BY StoreAssumption
  <1>. QED
    BY <1>1, <1>2

\* DeliveryNoteFirstSeen chooses the one least identity (Less orders them all).
LEMMA FirstSeen ==
    ASSUME NEW Keyed \in SUBSET Ids, Keyed # {}
    PROVE  /\ DeliveryNoteFirstSeen(Keyed) \in Keyed
           /\ \A b \in Keyed \ {DeliveryNoteFirstSeen(Keyed)} :
                 Less(DeliveryNoteFirstSeen(Keyed), b)
  <1>. DEFINE nodes == {a[1] : a \in Keyed}
  <1>0. \A a \in Keyed : a[1] \in Nat /\ a[2] \in Nat /\ a = <<a[1], a[2]>>
    BY IdParts
  <1>1. nodes \in SUBSET Nat /\ nodes # {}
    BY <1>0
  <1>2. PICK n \in nodes : \A m \in nodes : n <= m
    BY <1>1, LeastNumber
  <1>. DEFINE seqs == {a[2] : a \in {b \in Keyed : b[1] = n}}
  <1>3. seqs \in SUBSET Nat /\ seqs # {}
    BY <1>0, <1>2
  <1>4. PICK i \in seqs : \A j \in seqs : i <= j
    BY <1>3, LeastNumber
  <1>5. PICK a \in Keyed : a[1] = n /\ a[2] = i
    BY <1>4
  <1>6. ASSUME NEW b \in Keyed \ {a} PROVE Less(a, b)
    <2>1. n <= b[1] /\ b[1] \in Nat /\ n \in Nat
      BY <1>0, <1>1, <1>2
    <2>2. b[1] = n => i <= b[2] /\ b[2] # i
      BY <1>0, <1>4, <1>5, <1>6
    <2>. QED
      BY <1>0, <1>5, <2>1, <2>2 DEF Less
  <1>. QED
    BY <1>6 DEF DeliveryNoteFirstSeen

LEMMA NoteStaysKeyed ==
    ASSUME NEW Keyed \in SUBSET Ids, Keyed # {}, NEW id \in Ids,
           DeliveryNoteFirstSeen(Keyed) # id,
           NEW more \in SUBSET Ids, Keyed \subseteq more, id \in more => id \in Keyed
    PROVE  DeliveryNoteFirstSeen(more) # id
  <1>. SUFFICES ASSUME DeliveryNoteFirstSeen(more) = id PROVE FALSE
    OBVIOUS
  <1>1. id \in Keyed /\ \A b \in Keyed \ {id} : Less(id, b)
    BY FirstSeen
  <1>2. PICK first \in Keyed \ {id} : Less(first, id)
    BY <1>1, FirstSeen
  <1>3. Less(id, first)
    BY <1>1, <1>2
  <1>4. /\ id[1] \in Nat /\ id[2] \in Nat /\ first[1] \in Nat /\ first[2] \in Nat
    BY <1>1, <1>2, IdParts
  <1>. QED
    BY <1>2, <1>3, <1>4 DEF Less

\* A receipt fact is recorded once, by the handler at its event, and adds up.
Counts(h, qty) ==
    /\ RecordFact(h)
    /\ session[h].rej.reason \in {"accepted", "po_overreceipt"}
    /\ receipts[Current(h)] = NotRecorded
    /\ receipts' = [receipts EXCEPT ![Current(h)] = qty]
    /\ poTotal' = [poTotal EXCEPT ![OrderLine(Current(h))] = @ + qty]

LEMMA ReceiptsAfter ==
    ASSUME TypeInv, NEW h \in Handlers, HandlerStep(h) \/ Fail(h)
    PROVE  UNCHANGED receiptVars \/ \E qty \in Nat : Counts(h, qty)
  <1>1. CASE RecordFact(h)
    <2>1. /\ session[h].pc = "record" /\ P(h).kind = "GoodsReceived"
          /\ session[h].pc \in Arbitrating
      BY <1>1, PhaseKinds DEF RecordFact, Step, At
    <2>2. Current(h) \in Recorded /\ Payload(Current(h)) = P(h) /\ P(h) \in Payloads
          /\ session[h].line \in LinesOf(Current(h)) /\ session[h] \in Sessions
          /\ Fits(session[h]) /\ P(h) = E(session[h])
      BY <2>1, HereRecorded, Here, LineHere
    <2>3. session[h].line = 1 /\ P(h).lines[1].qty \in Nat
      BY <2>1, <2>2, PayloadFields, LineType DEF LinesOf
    <2>4. OrderLine(Current(h)) = <<P(h).po, Line(h).sku>> /\ Line(h).qty = P(h).lines[1].qty
      BY <2>2, <2>3 DEF OrderLine, Line
    <2>. DEFINE qty == Line(h).qty - session[h].rej.excess
    <2>5. CASE session[h].rej.reason \in {"accepted", "po_overreceipt"}
      <3>1. qty \in Nat
        <4>1. session[h].rej.excess <= E(session[h]).lines[session[h].line].qty
          BY <2>1, <2>2, <2>5 DEF Fits, RejectionFits
        <4>2. session[h].rej.excess \in Nat
          BY <2>2 DEF Sessions, Rejections
        <4>. QED
          BY <2>2, <2>3, <2>4, <4>1, <4>2
      <3>2. RecordReceipt(Current(h), P(h).po, Line(h).sku, qty)
        BY <1>1, <2>5, RecordFactDoes
      <3>. HIDE DEF qty
      <3>. QED
        BY <1>1, <2>4, <2>5, <3>1, <3>2 DEF RecordReceipt, Counts
    <2>6. CASE session[h].rej.reason \notin {"accepted", "po_overreceipt"}
      BY <1>1, <2>6 DEF RecordFact
    <2>. QED
      BY <2>5, <2>6
  <1>2. CASE ~ RecordFact(h)
    BY <1>2 DEF HandlerStep, ReceiveBatch, ReadDecision, StoreEvent, Validate, CheckItem,
       CheckNote, ReadTotal, CheckOrder, CheckDestination, CheckTransit, CheckFolded, Record,
       RecordDispatchLine, KillTransfer, ReadRow, FoldLine, ForwardDispatch,
       ForwardArrival, Settle, ReadCompensations, Emit, EnqueueCompensation, Decide,
       StorePushed, Ack, Notice, Fail, End, storeVars, receiptVars
  <1>. QED
    BY <1>1, <1>2

LEMMA NoteStaysTaken ==
    ASSUME TypeInv, NEW h \in Handlers, HandlerStep(h) \/ Fail(h), NEW id \in Ids,
           NoteTaken(id),
           id = Current(h) => session[h].rej.reason \notin {"accepted", "po_overreceipt"}
                              \/ session[h].pc # "record"
    PROVE  NoteTaken(id)'
  <1>1. PICK keyed, p : p = Payload(id) /\ keyed = KeyedLike(p)
    OBVIOUS
  <1>2. PICK more : more = KeyedLike(p)'
    OBVIOUS
  <1>3. log' = log /\ p = Payload(id)'
    BY <1>1, Alongside DEF Payload
  <1>4. receipts \in [Ids -> Nat \cup {NotRecorded}] /\ NotRecorded \notin Nat
    BY DEF TypeInv, TypeOK, StoreTypeOK, NotRecorded
  <1>5. \A o \in Ids : receipts[o] # NotRecorded => receipts'[o] # NotRecorded
    BY <1>4, ReceiptsAfter DEF Counts, receiptVars
  <1>6. receipts'[id] # NotRecorded => receipts[id] # NotRecorded
    BY <1>4, ReceiptsAfter DEF Counts, receiptVars, RecordFact, Step, At
  <1>7. keyed \subseteq more /\ more \in SUBSET Ids /\ keyed \in SUBSET Ids
        /\ (id \in more => id \in keyed)
    BY <1>1, <1>2, <1>3, <1>5, <1>6 DEF KeyedLike, Payload
  <1>8. keyed # {} /\ DeliveryNoteFirstSeen(keyed) # id
    BY <1>1 DEF NoteTaken
  <1>9. more # {} /\ DeliveryNoteFirstSeen(more) # id
    BY <1>7, <1>8, NoteStaysKeyed
  <1>. QED
    BY <1>2, <1>3, <1>9 DEF NoteTaken

\* The total of an order line grows by what others record, and by its own fact.
LEMMA OrderStaysOver ==
    ASSUME TypeInv, NEW h \in Handlers, HandlerStep(h) \/ Fail(h), NEW id \in Recorded,
           Payload(id).kind = "GoodsReceived", OverOrder(id)
    PROVE  OverOrder(id)'
  <1>1. PICK line, qty : line = OrderLine(id) /\ qty = Payload(id).lines[1].qty
    OBVIOUS
  <1>2. log' = log /\ line = OrderLine(id)' /\ qty = Payload(id).lines[1].qty'
    BY <1>1, Alongside DEF OrderLine, Payload
  <1>3. line \in POs \X SKUs /\ line \in DOMAIN Ordered /\ Ordered[line] \in Nat
    BY <1>1, StoreAssumption DEF OverOrder
  <1>4. /\ receipts \in [Ids -> Nat \cup {NotRecorded}] /\ poTotal \in [POs \X SKUs -> Nat]
        /\ NotRecorded \notin Nat /\ id \in Ids
    BY DEF TypeInv, TypeOK, StoreTypeOK, NotRecorded, Recorded
  <1>5. qty \in Nat
    <2>1. id[1] \in Nodes /\ id[2] \in 1..MaxSeq /\ id[2] <= Len(log[id[1]])
      BY DEF Recorded, Ids
    <2>2. log[id[1]] \in Seq(Payloads)
      BY <2>1, ArbiterAssumption DEF TypeInv, TypeOK
    <2>3. Payload(id) \in Payloads
      BY <2>1, <2>2, StoreAssumption DEF Payload
    <2>4. 1 \in DOMAIN Payload(id).lines
      BY <2>3, PayloadFields
    <2>. QED
      BY <1>1, <2>3, <2>4, LineType
  <1>6. poTotal[line] - Receipt(id) + qty > Ordered[line]
    BY <1>1 DEF OverOrder
  <1>7. CASE UNCHANGED receiptVars
    BY <1>1, <1>2, <1>3, <1>6, <1>7 DEF OverOrder, Receipt, receiptVars
  <1>8. CASE \E q \in Nat : Counts(h, q)
    <2>1. PICK q \in Nat : Counts(h, q)
      BY <1>8
    <2>2. poTotal'[line] = IF line = OrderLine(Current(h)) THEN poTotal[line] + q
                           ELSE poTotal[line]
      BY <1>3, <1>4, <2>1 DEF Counts
    <2>3. Receipt(id)' = IF id = Current(h) THEN q ELSE Receipt(id)
      BY <1>4, <2>1 DEF Counts, Receipt
    <2>4. id = Current(h) => Receipt(id) = 0
      BY <2>1 DEF Counts, Receipt
    <2>5. Receipt(id) \in Nat /\ poTotal[line] \in Nat
      BY <1>3, <1>4 DEF Receipt
    <2>6. poTotal'[line] - Receipt(id)' + qty > Ordered[line]
      BY <1>1, <1>3, <1>5, <1>6, <2>2, <2>3, <2>4, <2>5
    <2>. QED
      BY <1>2, <1>3, <2>6 DEF OverOrder
  <1>. QED
    BY <1>7, <1>8, ReceiptsAfter

LEMMA KnownDispatch ==
    ASSUME TypeInv, TransferInv, NEW id \in Recorded, Payload(id).kind = "TransferReceived",
           Known(id)
    PROVE  \E d \in Recorded :
              /\ Payload(d).kind = "TransferDispatched"
              /\ Payload(d).transfer = Payload(id).transfer
              /\ Shipped(d)
  <1>1. PICK d \in Ids :
          /\ EventRef(d) \in outbound[id[1]]
          /\ Payload(d).kind = "TransferDispatched"
          /\ Payload(d).transfer = Payload(id).transfer
    BY DEF Known, CanRecord
  <1>2. id[1] \in Nodes
    BY DEF Recorded, Ids
  <1>. QED
    BY <1>1, <1>2 DEF TransferInv, AnnouncedShipped

\* A retry of its dispatch writes the rows of a transfer as they are.
LEMMA KnownRedispatched ==
    ASSUME TypeInv, TransferInv, OneDispatch, NEW h \in Handlers,
           NEW id \in Recorded, Payload(id).kind = "TransferReceived", Known(id),
           NEW key \in Transfers \X SKUs, key[1] = Payload(id).transfer, Redispatched(h, key)
    PROVE  /\ transit[key] # NoRow
           /\ LinesApart => transit'[key].dispatched = transit[key].dispatched
  <1>1. PICK d \in Recorded :
          /\ Payload(d).kind = "TransferDispatched"
          /\ Payload(d).transfer = Payload(id).transfer
          /\ Shipped(d)
    BY KnownDispatch
  <1>2. /\ Current(h) \in Recorded /\ Payload(Current(h)) = P(h)
        /\ session[h].line \in LinesOf(Current(h))
        /\ P(h).kind = "TransferDispatched"
    BY LineHere, HereRecorded, PhaseKinds DEF Redispatched, RecordDispatchLine, Step, At
  <1>3. key = <<P(h).transfer, Line(h).sku>> /\ transit'[key].dispatched = Line(h).qty
    BY DEF Redispatched
  <1>4. PICK c : c = Current(h)
    OBVIOUS
  <1>5. log[c[1]][c[2]].transfer = log[d[1]][d[2]].transfer
    BY <1>1, <1>2, <1>3, <1>4 DEF Payload
  <1>6. DispatchIn(log, c) /\ DispatchIn(log, d) /\ log \in Workloads /\ c \in Ids /\ d \in Ids
    BY <1>1, <1>2, <1>4 DEF DispatchIn, Recorded, Payload, TypeInv, TypeOK
  <1>7. c = d
    BY <1>5, <1>6 DEF OneDispatch
  <1>8. LineShipped(c, session[h].line)
    BY <1>1, <1>2, <1>4, <1>7 DEF Shipped
  <1>. QED
    BY <1>2, <1>3, <1>4, <1>8 DEF LineShipped, RowOf, InTransit, Line

\* What a row of a dispatch its destination knows of has left never grows.
LEMMA RowLeft ==
    ASSUME TypeInv, TransferInv, OneDispatch, NEW h \in Handlers, HandlerStep(h) \/ Fail(h),
           NEW id \in Recorded, Payload(id).kind = "TransferReceived", Known(id),
           NEW key \in Transfers \X SKUs, key[1] = Payload(id).transfer
    PROVE  /\ transit[key] = NoRow => transit'[key] = NoRow
           /\ transit[key] # NoRow =>
                /\ transit'[key] # NoRow
                /\ LinesApart => transit'[key].dispatched - transit'[key].received
                                   <= transit[key].dispatched - transit[key].received
  <1>1. transit[key].dispatched \in Nat /\ transit[key].received \in Nat
    BY DEF TypeInv, TypeOK, StoreTypeOK
  <1>2. transit[key] # NoRow => transit'[key] # NoRow
    BY RowStays
  <1>3. CASE Redispatched(h, key)
    <2>1. /\ transit[key] # NoRow
          /\ LinesApart => transit'[key].dispatched = transit[key].dispatched
          /\ transit'[key].received = transit[key].received
      BY <1>3, KnownRedispatched DEF Redispatched
    <2>. QED
      BY <1>1, <1>2, <2>1
  <1>4. CASE Killed(h, key)
    BY <1>1, <1>2, <1>4 DEF Killed
  <1>5. CASE Refolded(h, key)
    <2>1. session[h].seen \in Nat
      BY <1>5, Here, PhaseKinds DEF Refolded, FoldLine, Step, At, Fits, LineFits
    <2>. QED
      BY <1>1, <1>2, <1>5, <2>1 DEF Refolded
  <1>6. CASE transit'[key] = transit[key]
    BY <1>1, <1>2, <1>6
  <1>. QED
    BY <1>3, <1>4, <1>5, <1>6, RowAfter, FoldsReady

\* What an arrival folds is its own.
LEMMA FoldedAfter ==
    ASSUME TypeInv, NEW h \in Handlers, HandlerStep(h) \/ Fail(h),
           NEW id \in Ids, NEW sku \in SKUs
    PROVE  \/ folded'[<<id, sku>>] = folded[<<id, sku>>]
           \/ FoldLine(h) /\ id = Current(h) /\ sku = Line(h).sku
  <1>1. folded \in [Ids \X SKUs -> Nat]
    BY DEF TypeInv, TypeOK, StoreTypeOK
  <1>2. CASE FoldLine(h)
    BY <1>1, <1>2 DEF FoldLine, AddReceived, transitVars
  <1>3. CASE ~ FoldLine(h)
    BY <1>3 DEF HandlerStep, ReceiveBatch, ReadDecision, StoreEvent, Validate, CheckItem,
       CheckNote, ReadTotal, CheckOrder, CheckDestination, CheckTransit, CheckFolded, Record,
       RecordFact, RecordDispatchLine, KillTransfer, ReadRow, ForwardDispatch, ForwardArrival,
       Settle, ReadCompensations, Emit, EnqueueCompensation, Decide, StorePushed, Ack, Notice,
       Fail, End, storeVars, transitVars
  <1>. QED
    BY <1>2, <1>3

LEMMA StaysShort ==
    ASSUME TypeInv, TransferInv, OneDispatch, LinesApart, NEW h \in Handlers,
           HandlerStep(h) \/ Fail(h),
           NEW id \in Recorded, Payload(id).kind = "TransferReceived", Known(id),
           NEW i \in LinesOf(id), Short(id, i)
    PROVE  Short(id, i)'
  <1>1. PICK key, fold, qty :
          /\ key = <<Payload(id).transfer, Payload(id).lines[i].sku>>
          /\ fold = <<id, Payload(id).lines[i].sku>>
          /\ qty = Payload(id).lines[i].qty
    OBVIOUS
  <1>2. log' = log /\ Payload(id)' = Payload(id)
    BY Alongside DEF Payload
  <1>3. key \in Transfers \X SKUs /\ qty \in Nat /\ id \in Ids /\ fold[2] \in SKUs
        /\ key[1] = Payload(id).transfer /\ fold \in Ids \X SKUs /\ key[2] \in SKUs
    BY <1>1, DispatchLines DEF Recorded
  <1>4. transit[key] = NoRow \/ qty > transit[key].dispatched - transit[key].received + folded[fold]
    BY <1>1 DEF Short, Remaining, RowOf, InTransit
  <1>5. /\ transit \in [Transfers \X SKUs -> Rows] /\ folded \in [Ids \X SKUs -> Nat]
        /\ transit[key] \in Rows
        /\ transit[key].dispatched \in Nat /\ transit[key].received \in Nat
        /\ folded[fold] \in Nat
    BY <1>3 DEF TypeInv, TypeOK, StoreTypeOK, Rows
  <1>6. TypeInv'
    BY TypeInvNext DEF Next
  <1>7. /\ transit'[key].dispatched \in Nat /\ transit'[key].received \in Nat
        /\ folded'[fold] \in Nat
    BY <1>3, <1>6 DEF TypeInv, TypeOK, StoreTypeOK
  <1>8. /\ transit[key] = NoRow => transit'[key] = NoRow
        /\ transit[key] # NoRow =>
             transit'[key].dispatched - transit'[key].received
               <= transit[key].dispatched - transit[key].received
    BY <1>3, RowLeft
  <1>9. transit'[key] = NoRow
          \/ qty > transit'[key].dispatched - transit'[key].received + folded'[fold]
    <2>1. CASE folded'[fold] = folded[fold]
      BY <1>3, <1>4, <1>5, <1>7, <1>8, <2>1
    <2>2. CASE FoldLine(h) /\ id = Current(h) /\ fold[2] = Line(h).sku
      <3>1. key = <<P(h).transfer, Line(h).sku>> /\ fold = <<Current(h), Line(h).sku>>
        BY <1>1, <2>2 DEF P
      <3>2. AddReceived(Current(h), P(h).transfer, Line(h).sku, session[h].seen)
        BY <2>2 DEF FoldLine
      <3>3. session[h].seen \in Nat
        BY <2>2, Here, PhaseKinds DEF FoldLine, Step, At, Fits, LineFits
      <3>4. CASE UNCHANGED transitVars
        BY <1>4, <3>4 DEF transitVars
      <3>5. CASE /\ folded[fold] = 0
                 /\ folded' = [folded EXCEPT ![fold] = session[h].seen]
                 /\ transit' = [transit EXCEPT ![key].received = @ + session[h].seen]
        <4>1. folded'[fold] = session[h].seen
          BY <1>3, <1>5, <3>5
        <4>2. transit'[key] = [transit[key] EXCEPT !.received =
                                 transit[key].received + session[h].seen]
          BY <1>3, <1>5, <3>5
        <4>3. transit'[key].received = transit[key].received + session[h].seen
              /\ transit'[key].dispatched = transit[key].dispatched
          BY <1>5, <4>2 DEF Rows
        <4>. QED
          BY <1>3, <1>4, <1>5, <1>8, <3>3, <3>5, <4>1, <4>3
      <3>. QED
        BY <3>1, <3>2, <3>4, <3>5 DEF AddReceived
    <2>. QED
      BY <1>1, <1>3, <2>1, <2>2, FoldedAfter
  <1>. QED
    BY <1>1, <1>2, <1>9 DEF Short, Remaining, RowOf, InTransit

LEMMA GroundsStay ==
    ASSUME TypeInv, TransferInv, OneDispatch, LinesApart, NEW h \in Handlers,
           HandlerStep(h) \/ Fail(h),
           NEW id \in Recorded, Known(id), NEW reason, Grounds(id, reason),
           reason = "duplicate_receipt" /\ id = Current(h) =>
               \/ session[h].rej.reason \notin {"accepted", "po_overreceipt"}
               \/ session[h].pc # "record"
    PROVE  Grounds(id, reason)'
  <1>1. log' = log /\ Payload(id)' = Payload(id) /\ LinesOf(id)' = LinesOf(id) /\ id \in Ids
    BY Alongside DEF Payload, LinesOf, Recorded
  <1>2. Unknown(id)' = Unknown(id) /\ Refused(Payload(id))' = Refused(Payload(id))
    BY <1>1 DEF Unknown, Refused
  <1>3. NoteTaken(id) /\ reason = "duplicate_receipt" => NoteTaken(id)'
    BY <1>1, NoteStaysTaken
  <1>4. Payload(id).kind = "GoodsReceived" /\ OverOrder(id) => OverOrder(id)'
    BY OrderStaysOver
  <1>5. ASSUME NEW i \in LinesOf(id), Payload(id).kind = "TransferReceived", Short(id, i)
        PROVE  Short(id, i)'
    BY <1>5, StaysShort
  <1>. QED
    BY <1>1, <1>2, <1>3, <1>4, <1>5 DEF Grounds

\* A handler that comes to record without a rejection works on an event that never
\* was compensated.
LEMMA DoomedStays ==
    ASSUME TypeInv, TransferInv, DoomInv, OneDispatch, LinesApart,
           NEW h \in Handlers, HandlerStep(h) \/ Fail(h),
           NEW id \in Orderly, comps[id] # <<>>
    PROVE  Doomed(id)'
  <1>1. Doomed(id) /\ id \in Recorded /\ Known(id) /\ id[1] \in Nodes
    BY DEF DoomInv, Doomed, Recorded, Ids
  <1>2. Known(id)' /\ log' = log
    BY <1>1, KnownStays, Alongside
  <1>3. PICK reason \in Reasons :
          /\ Grounds(id, reason)
          /\ reason = "duplicate_receipt" /\ id = Current(h) =>
               \/ session[h].rej.reason \notin {"accepted", "po_overreceipt"}
               \/ session[h].pc # "record"
    <2>1. CASE id = Current(h) /\ session[h].pc = "record"
      <3>1. Sole(session[h])
        BY <2>1, PhaseKinds DEF Sole, Orderly, Current
      <3>2. RejectsAhead(session[h]) /\
              (session[h].rej.reason # "accepted" => Grounds(id, session[h].rej.reason))
        BY <2>1, <3>1 DEF DoomInv, Reasoned, Current
      <3>3. session[h].rej.reason \in Reasons
        BY <2>1, <3>2 DEF RejectsAhead, TypeInv, TypeOK, Sessions, Rejections
      <3>. QED
        BY <3>2, <3>3 DEF Reasons
    <2>2. CASE ~ (id = Current(h) /\ session[h].pc = "record")
      BY <1>1, <2>2 DEF Doomed
    <2>. QED
      BY <2>1, <2>2
  <1>4. Grounds(id, reason)'
    BY <1>1, <1>3, GroundsStay
  <1>. QED
    BY <1>1, <1>2, <1>4 DEF Doomed, Recorded

LEMMA SoleRecorded ==
    ASSUME TypeInv, TransferInv, NEW g \in Handlers, Sole(session[g])
    PROVE  /\ Current(g) \in Recorded /\ Current(g) \in Ids /\ Current(g) \in Orderly
           /\ Known(Current(g)) /\ P(g) = Payload(Current(g)) /\ P(g) = E(session[g])
           /\ P(g) \in Payloads
           /\ Fits(session[g]) /\ session[g].pc \in Arbitrating
  <1>1. session[g].pc \in Arbitrating /\ session[g].cur \in session[g].cur..session[g].last
    <2>1. session[g].pc \in Arbitrating
      BY DEF Sole
    <2>2. session[g].cur \in 1..session[g].last /\ session[g].last \in Nat
      BY <2>1, Here DEF Sessions
    <2>. QED
      BY <2>1, <2>2
  <1>. QED
    BY <1>1, HereRecorded, Here DEF TransferInv, Ships, Current, Sole, Orderly

\* Where the validators are, the rejection ahead of a handler is out of reach of others.
LEMMA ReasonedOthers ==
    ASSUME TypeInv, OpenInv, TransferInv, DoomInv, OneDispatch, LinesApart,
           NEW h \in Handlers, HandlerStep(h) \/ Fail(h), NEW g \in Handlers \ {h}
    PROVE  Reasoned(session[g])'
  <1>1. PICK s, id : s = session[g] /\ id = <<s.node, s.cur>>
    OBVIOUS
  <1>2. log' = log /\ session'[g] = s /\ id = Current(g)
    BY <1>1, Alongside DEF Current
  <1>. SUFFICES ASSUME Sole(s) PROVE Reasoned(s)'
    BY <1>2 DEF Reasoned, Sole
  <1>3. /\ id \in Recorded /\ id \in Ids /\ Known(id) /\ Fits(s) /\ s.pc \in Arbitrating
        /\ E(s) = Payload(id) /\ E(s)' = E(s) /\ Payload(id)' = Payload(id)
        /\ LinesOf(id)' = LinesOf(id) /\ OrderLine(id)' = OrderLine(id)
        /\ E(s) \in Payloads
    BY <1>1, <1>2, SoleRecorded DEF E, Payload, LinesOf, OrderLine
  <1>4. id # Current(h)
    BY <1>1 DEF OpenInv, Alone, Current, Sole, Orderly, TypeInv, Fits, Placed, Arbitrating, Outside
  <1>5. Untouched(id)
    BY <1>3, <1>4, OnlyCurrent
  <1>6. /\ ReadsHold(s)
        /\ s.rej.reason # "accepted" => Grounds(id, s.rej.reason)
        /\ comps[id] # <<>> => RejectsAhead(s)
    BY <1>1 DEF DoomInv, Reasoned
  <1>7. \A reason : Grounds(id, reason) => Grounds(id, reason)'
    BY <1>3, <1>4, GroundsStay
  <1>8. ASSUME NEW i \in LinesOf(id), Payload(id).kind = "TransferReceived", Short(id, i)
        PROVE  Short(id, i)'
    BY <1>3, <1>8, StaysShort
  <1>9. ReadsHold(s)'
    <2>1. ASSUME s.pc = "own" PROVE s.seen <= poTotal'[OrderLine(id)]
      <3>1. s.line = 1 /\ OrderLine(id) \in DOMAIN Ordered
        BY <1>3, <2>1, PayloadFields, LineType DEF Fits, KindFits, LineFits, OrderLine
      <3>2. OrderLine(id) \in POs \X SKUs
        BY <3>1, StoreAssumption
      <3>3. poTotal[OrderLine(id)] <= poTotal'[OrderLine(id)]
        <4>1. poTotal \in [POs \X SKUs -> Nat]
          BY DEF TypeInv, TypeOK, StoreTypeOK
        <4>. QED
          BY <3>2, <4>1, ReceiptsAfter DEF Counts, receiptVars
      <3>4. TypeInv'
        BY TypeInvNext DEF Next
      <3>5. s.seen \in Int /\ poTotal[OrderLine(id)] \in Nat /\ poTotal'[OrderLine(id)] \in Nat
        BY <1>1, <3>2, <3>4 DEF TypeInv, TypeOK, StoreTypeOK, Sessions
      <3>. QED
        BY <1>1, <1>6, <2>1, <3>3, <3>5 DEF ReadsHold
    <2>2. ASSUME s.pc = "folded"
          PROVE  s.seen >= RowOf(id, s.line)'.dispatched - RowOf(id, s.line)'.received
      <3>. DEFINE key == <<Payload(id).transfer, Payload(id).lines[s.line].sku>>
      <3>1. s.line \in LinesOf(id) /\ Payload(id).kind = "TransferReceived"
        BY <1>3, <2>2 DEF Fits, KindFits, LineFits, LinesOf
      <3>2. key \in Transfers \X SKUs
        BY <1>3, <3>1, DispatchLines
      <3>3. transit[key] # NoRow
        BY <1>1, <2>2 DEF TransferInv, Ships, RowOf, InTransit
      <3>4. s.seen >= transit[key].dispatched - transit[key].received
        BY <1>1, <1>6, <2>2 DEF ReadsHold, RowOf, InTransit
      <3>5. transit'[key].dispatched - transit'[key].received
               <= transit[key].dispatched - transit[key].received
        BY <1>3, <3>1, <3>2, <3>3, RowLeft
      <3>6. TypeInv'
        BY TypeInvNext DEF Next
      <3>7. /\ s.seen \in Int
            /\ transit[key].dispatched \in Nat /\ transit[key].received \in Nat
            /\ transit'[key].dispatched \in Nat /\ transit'[key].received \in Nat
        BY <1>1, <3>2, <3>6 DEF TypeInv, TypeOK, StoreTypeOK, Sessions
      <3>8. s.seen >= transit'[key].dispatched - transit'[key].received
        BY <3>4, <3>5, <3>7
      <3>. QED
        BY <1>3, <3>8 DEF RowOf, InTransit
    <2>. QED
      BY <1>1, <1>3, <2>1, <2>2 DEF ReadsHold
  <1>10. ASSUME comps[id] # <<>> PROVE RejectsAhead(s)'
    <2>1. Receipt(id)' = Receipt(id)
      BY <1>5 DEF Untouched, Receipt
    <2>2. s.pc = "folded" =>
            folded'[<<id, E(s).lines[s.line].sku>>] = folded[<<id, E(s).lines[s.line].sku>>]
      <3>1. s.pc = "folded" => E(s).lines[s.line].sku \in SKUs
        BY <1>3, LineType DEF Fits, LineFits
      <3>. QED
        BY <1>5, <3>1 DEF Untouched
    <2>3. s.pc \in {"transit", "folded"} => Payload(id).kind = "TransferReceived"
      BY <1>3 DEF Fits, KindFits
    <2>4. RejectsAhead(s)
      BY <1>6, <1>10
    <2>. QED
      BY <1>1, <1>3, <1>7, <1>8, <2>1, <2>2, <2>3, <2>4 DEF RejectsAhead
  <1>. QED
    BY <1>1, <1>5, <1>6, <1>7, <1>9, <1>10 DEF Reasoned, Untouched

\* The handler reads and the store stays: what holds of the record holds still.
LEMMA ReasonedSame ==
    ASSUME UNCHANGED storeVars, log' = log, NEW t, Reasoned(t)
    PROVE  Reasoned(t)'
  <1>1. UNCHANGED <<events, comps, receipts, poTotal, transit, folded, outbound>>
    BY DEF storeVars
  <1>2. \A id : /\ Payload(id)' = Payload(id) /\ LinesOf(id)' = LinesOf(id)
                /\ OrderLine(id)' = OrderLine(id) /\ Receipt(id)' = Receipt(id)
                /\ \A i : RowOf(id, i)' = RowOf(id, i) /\ Short(id, i)' = Short(id, i)
    BY <1>1 DEF Payload, LinesOf, OrderLine, Receipt, Short, Remaining, RowOf, InTransit
  <1>3. \A p : KeyedLike(p)' = KeyedLike(p) /\ Refused(p)' = Refused(p)
    BY <1>1 DEF KeyedLike, Refused, Payload
  <1>4. \A id : /\ Unknown(id)' = Unknown(id) /\ NoteTaken(id)' = NoteTaken(id)
                /\ OverOrder(id)' = OverOrder(id)
    BY <1>1, <1>2, <1>3 DEF Unknown, NoteTaken, OverOrder
  <1>5. \A id, reason : Grounds(id, reason)' = Grounds(id, reason)
    BY <1>2, <1>3, <1>4 DEF Grounds
  <1>6. E(t)' = E(t)
    BY DEF E, Payload
  <1>7. ReadsHold(t)' = ReadsHold(t)
    BY <1>1, <1>2 DEF ReadsHold
  <1>8. RejectsAhead(t)' = RejectsAhead(t)
    BY <1>1, <1>2, <1>5, <1>6 DEF RejectsAhead
  <1>. QED
    BY <1>1, <1>5, <1>7, <1>8 DEF Reasoned, Sole

Late == {"record", "row", "fold", "fail", "forward", "comps", "emit", "enqueue", "decide"}

\* Past the validators the rejection stands, and nothing takes its grounds away.
LEMMA ReasonedLate ==
    ASSUME TypeInv, TransferInv, DoomInv, OneDispatch, LinesApart,
           NEW h \in Handlers, HandlerStep(h) \/ Fail(h),
           NEW s, s = session[h], NEW t, t = session'[h],
           Stays(s, t), t.rej = s.rej, s.pc \in Late, t.pc \in Late,
           NEW id, id = Current(h),
           comps'[id] # <<>> => comps[id] # <<>> \/ s.rej.reason # "accepted"
    PROVE  Reasoned(session[h])'
  <1>. SUFFICES ASSUME Sole(t) PROVE Reasoned(t)'
    BY DEF Reasoned, Sole
  <1>1. Sole(s) /\ id = <<t.node, t.cur>> /\ id = <<s.node, s.cur>>
    BY PhaseKinds DEF Sole, Stays, Late, Current
  <1>2. /\ s.rej.reason # "accepted" => Grounds(id, s.rej.reason)
        /\ comps[id] # <<>> => RejectsAhead(s)
    BY <1>1 DEF DoomInv, Reasoned
  <1>3. comps[id] # <<>> => s.rej.reason # "accepted"
    BY <1>2 DEF RejectsAhead, Late
  <1>4. id \in Recorded /\ Known(id)
    BY <1>1, SoleRecorded
  <1>5. s.rej.reason # "accepted" => Grounds(id, s.rej.reason)'
    BY <1>2, <1>4, GroundsStay
  <1>. QED
    BY <1>1, <1>3, <1>5 DEF Reasoned, ReadsHold, RejectsAhead, Late

\* Nothing is claimed of a handler between two events.
LEMMA ReasonedNone ==
    ASSUME NEW t, t.pc \notin Arbitrating \ {"decision"}
    PROVE  Reasoned(t)'
  BY DEF Reasoned, Sole

LEMMA ReasonedStore ==
    ASSUME TypeInv, TransferInv, DoomInv, OneDispatch, LinesApart, NEW h \in Handlers, StoreEvent(h)
    PROVE  Reasoned(session[h])'
  <1>1. PICK s, t, id : s = session[h] /\ t = session'[h] /\ id = Current(h)
    OBVIOUS
  <1>2. /\ UNCHANGED <<comps, decisions, receiptVars, transitVars, queueVars>>
        /\ s.pc = "append" /\ Stays(s, t) /\ t.line = 1 /\ t.rej = NoRejection
        /\ t.pc = IF P(h).kind = "Other" THEN "decide" ELSE "items"
    BY <1>1, StoreEventDoes
  <1>3. t.rej.reason = "accepted" /\ HandlerStep(h)
    BY <1>2 DEF NoRejection, HandlerStep
  <1>. SUFFICES ASSUME Sole(t) PROVE Reasoned(t)'
    BY <1>1 DEF Reasoned, Sole
  <1>4. Sole(s) /\ id = <<t.node, t.cur>> /\ id = <<s.node, s.cur>>
    BY <1>1, <1>2, PhaseKinds DEF Sole, Stays, Current
  <1>5. id \in Recorded /\ Known(id) /\ P(h) = Payload(id) /\ id \in Orderly
        /\ P(h) \in Payloads
    BY <1>1, <1>4, SoleRecorded
  <1>6. E(t)' = P(h) /\ LinesOf(id)' = DOMAIN P(h).lines /\ log' = log
        /\ LinesOf(id) = DOMAIN P(h).lines
    BY <1>1, <1>3, <1>4, <1>5, Alongside DEF E, P, Payload, LinesOf
  <1>7. ReadsHold(t)'
    BY <1>2 DEF ReadsHold
  <1>8. ASSUME comps[id] # <<>> PROVE RejectsAhead(t)'
    <2>1. PICK reason \in Reasons : Grounds(id, reason)
      BY <1>5, <1>8 DEF DoomInv, Doomed
    <2>2. Grounds(id, reason)'
      BY <1>1, <1>2, <1>3, <1>5, <2>1, GroundsStay
    <2>3. P(h).kind # "Other"
      <3>1. P(h).kind = "Other" => DOMAIN P(h).lines = {}
        BY <1>5 DEF Payloads, Receipts, Dispatches, Arrivals, Others
      <3>. QED
        BY <1>5, <1>6, <2>1, <3>1 DEF Grounds, Unknown
    <2>4. t.pc = "items"
      BY <1>2, <2>3
    <2>5. CASE reason # "unknown_sku"
      BY <1>4, <2>1, <2>2, <2>4, <2>5 DEF RejectsAhead
    <2>6. CASE reason = "unknown_sku"
      <3>1. PICK i \in LinesOf(id) : P(h).lines[i].sku \notin Items
        BY <1>5, <2>1, <2>6 DEF Grounds, Unknown
      <3>2. i >= 1
        BY <1>5, <1>6, <3>1, LineType
      <3>. QED
        BY <1>2, <1>4, <1>6, <2>4, <3>1, <3>2 DEF RejectsAhead
    <2>. QED
      BY <2>5, <2>6
  <1>. QED
    BY <1>2, <1>3, <1>4, <1>7, <1>8 DEF Reasoned

\* A validator only reads: what it concludes has to hold of the store as it is.
LEMMA ReasonedValidate ==
    ASSUME TypeInv, TransferInv, DoomInv, NEW h \in Handlers, Validate(h)
    PROVE  Reasoned(session[h])'
  <1>1. PICK s, t, id, p : s = session[h] /\ t = session'[h] /\ id = Current(h) /\ p = P(h)
    OBVIOUS
  <1>2. HandlerStep(h)
    BY DEF HandlerStep
  <1>3. UNCHANGED storeVars /\ log' = log
    BY <1>2, Alongside DEF Validate, CheckItem, CheckNote, ReadTotal, CheckOrder,
                           CheckDestination, CheckTransit, CheckFolded
  <1>4. s.pc \in {"items", "note", "total", "own", "destination", "transit", "folded"}
    BY <1>1 DEF Validate, CheckItem, CheckNote, ReadTotal, CheckOrder, CheckDestination,
                CheckTransit, CheckFolded, Step, At
  <1>5. Stays(s, t)
    <2>1. CASE CheckItem(h)
      BY <1>1, <2>1, CheckItemDoes
    <2>2. CASE CheckNote(h)
      BY <1>1, <2>2, CheckNoteDoes
    <2>3. CASE ReadTotal(h)
      BY <1>1, <2>3, ReadTotalDoes
    <2>4. CASE CheckOrder(h)
      BY <1>1, <2>4, CheckOrderDoes
    <2>5. CASE CheckDestination(h)
      BY <1>1, <2>5, CheckDestinationDoes
    <2>6. CASE CheckTransit(h)
      BY <1>1, <2>6, CheckTransitDoes
    <2>7. CASE CheckFolded(h)
      BY <1>1, <2>7, CheckFoldedDoes
    <2>. QED
      BY <2>1, <2>2, <2>3, <2>4, <2>5, <2>6, <2>7 DEF Validate
  <1>. SUFFICES ASSUME Sole(t) PROVE Reasoned(t)
    BY <1>1, <1>3, ReasonedSame DEF Reasoned, Sole
  <1>6. Sole(s) /\ id = <<t.node, t.cur>> /\ id = <<s.node, s.cur>> /\ s \in Sessions
    BY <1>1, <1>4, <1>5, PhaseKinds DEF Sole, Stays, Current, TypeInv, TypeOK
  <1>7. /\ id \in Recorded /\ id \in Ids /\ p = Payload(id) /\ p = E(s) /\ p \in Payloads
        /\ Fits(s) /\ E(t) = p /\ LinesOf(id) = DOMAIN p.lines
        /\ LinesOf(id) = 1..Len(p.lines) /\ Len(p.lines) \in Nat
    <2>1. id \in Recorded /\ id \in Ids /\ p = Payload(id) /\ p = E(s) /\ p \in Payloads /\ Fits(s)
      BY <1>1, <1>6, SoleRecorded
    <2>. QED
      BY <1>5, <2>1, PayloadFields DEF LinesOf, E, Stays
  <1>8. /\ ReadsHold(s)
        /\ s.rej.reason # "accepted" => Grounds(id, s.rej.reason)
        /\ comps[id] # <<>> => RejectsAhead(s)
    BY <1>1, <1>6 DEF DoomInv, Reasoned
  <1>9. ASSUME ReadsHold(t), t.rej.reason # "accepted" => Grounds(id, t.rej.reason),
               comps[id] # <<>> => RejectsAhead(t)
        PROVE  Reasoned(t)
    BY <1>6, <1>9 DEF Reasoned
  <1>10. s.pc # "destination" => s.line \in 1..Len(p.lines) /\ s.line \in LinesOf(id)
    BY <1>4, <1>7 DEF Fits, LineFits
  <1>11. Line(h) = p.lines[s.line]
    BY <1>1 DEF Line
  <1>12. CASE CheckItem(h)
    <2>1. /\ s.pc = "items"
          /\ \/ s.line < Len(p.lines) /\ t.line = s.line + 1 /\ t.pc = "items"
             \/ /\ ~ (s.line < Len(p.lines)) /\ t.line = 1
                /\ t.pc = AfterItems(p.kind, t.rej.reason # "accepted")
          /\ IF p.lines[s.line].sku \in Items THEN t.rej = s.rej
             ELSE t.rej.reason = "unknown_sku"
      BY <1>1, <1>11, <1>12, CheckItemDoes
    <2>2. p.kind \in {"TransferReceived", "TransferDispatched", "GoodsReceived"}
      BY <1>7, <2>1, PayloadFields DEF Fits, KindFits
    <2>3. /\ AfterItems(p.kind, TRUE) \in {"row", "record"}
          /\ AfterItems(p.kind, FALSE) =
               CASE p.kind = "TransferReceived" -> "transit"
                 [] p.kind = "TransferDispatched" -> "destination"
                 [] p.kind = "GoodsReceived" -> "note"
      BY <2>2 DEF AfterItems
    <2>4. t.pc \notin {"own", "folded"}
      BY <2>1, <2>2, <2>3
    <2>5. t.rej.reason # "accepted" => Grounds(id, t.rej.reason)
      <3>1. CASE p.lines[s.line].sku \in Items
        BY <1>8, <2>1, <3>1
      <3>2. CASE p.lines[s.line].sku \notin Items
        BY <1>7, <1>10, <2>1, <3>2 DEF Grounds, Unknown
      <3>. QED
        BY <3>1, <3>2
    <2>6. ASSUME comps[id] # <<>>, t.rej.reason = "accepted" PROVE RejectsAhead(t)
      <3>1. p.lines[s.line].sku \in Items /\ s.rej.reason = "accepted"
        BY <2>1, <2>6
      <3>2. \/ \E i \in LinesOf(id) : i > s.line /\ p.lines[i].sku \notin Items
            \/ \E reason \in Reasons \ {"unknown_sku"} : Grounds(id, reason)
        <4>1. RejectsAhead(s)
          BY <1>8, <2>6
        <4>2. \/ \E i \in LinesOf(id) : i >= s.line /\ p.lines[i].sku \notin Items
              \/ \E reason \in Reasons \ {"unknown_sku"} : Grounds(id, reason)
          BY <1>6, <1>7, <2>1, <3>1, <4>1 DEF RejectsAhead
        <4>. QED
          BY <1>7, <1>10, <2>1, <3>1, <4>2
      <3>3. CASE t.pc = "items" /\ t.line = s.line + 1
        <4>1. \A i \in LinesOf(id) : i > s.line => i >= t.line
          BY <1>7, <1>10, <2>1, <3>3
        <4>. QED
          BY <1>6, <1>7, <3>2, <3>3, <4>1 DEF RejectsAhead
      <3>4. CASE ~ (s.line < Len(p.lines)) /\ t.line = 1 /\ t.pc = AfterItems(p.kind, FALSE)
        <4>1. ~ \E i \in LinesOf(id) : i > s.line
          BY <1>7, <1>10, <2>1, <3>4
        <4>2. PICK reason \in Reasons \ {"unknown_sku"} : Grounds(id, reason)
          BY <3>2, <4>1
        <4>3. CASE p.kind = "TransferReceived"
          <5>1. t.pc = "transit" /\ \E i \in LinesOf(id) : Short(id, i)
            BY <1>7, <2>3, <3>4, <4>2, <4>3 DEF Grounds
          <5>2. \A i \in LinesOf(id) : i >= t.line
            BY <1>7, <3>4
          <5>. QED
            BY <1>6, <5>1, <5>2 DEF RejectsAhead
        <4>4. CASE p.kind = "TransferDispatched"
          BY <1>6, <1>7, <2>3, <3>4, <4>2, <4>4 DEF Grounds, RejectsAhead
        <4>5. CASE p.kind = "GoodsReceived"
          BY <1>6, <1>7, <2>3, <3>4, <4>2, <4>5 DEF Grounds, RejectsAhead
        <4>. QED
          BY <2>2, <4>3, <4>4, <4>5
      <3>. QED
        BY <2>1, <2>6, <3>3, <3>4
    <2>7. comps[id] # <<>> => RejectsAhead(t)
      BY <2>6 DEF RejectsAhead
    <2>. QED
      BY <1>9, <2>4, <2>5, <2>7 DEF ReadsHold
  <1>13. CASE CheckNote(h)
    <2>1. /\ s.pc = "note" /\ t.line = s.line
          /\ IF NoteTaken(id)
               THEN t.pc = "record" /\ t.rej.reason = "duplicate_receipt"
               ELSE /\ t.rej = s.rej
                    /\ t.pc = IF <<p.po, p.lines[s.line].sku>> \in DOMAIN Ordered
                                THEN "total" ELSE "record"
      <3>1. NoteTaken(id) <=> /\ KeyedLike(P(h)) # {}
                              /\ DeliveryNoteFirstSeen(KeyedLike(P(h))) # Current(h)
        BY <1>1, <1>7 DEF NoteTaken
      <3>2. s.pc = "note" /\ t.line = s.line
        BY <1>1, <1>13, CheckNoteDoes
      <3>3. IF NoteTaken(id)
              THEN t.pc = "record" /\ t.rej.reason = "duplicate_receipt"
              ELSE /\ t.rej = s.rej
                   /\ t.pc = IF <<P(h).po, Line(h).sku>> \in DOMAIN Ordered
                               THEN "total" ELSE "record"
        BY <1>1, <1>13, <3>1, CheckNoteDoes
      <3>. QED
        BY <1>1, <1>11, <3>2, <3>3
    <2>2. p.kind = "GoodsReceived" /\ s.line = 1 /\ s.rej.reason = "accepted"
      BY <1>7, <1>10, <2>1, PayloadFields DEF Fits, KindFits, RejectionFits
    <2>3. t.rej.reason # "accepted" => Grounds(id, t.rej.reason)
      BY <1>7, <2>1, <2>2 DEF Grounds
    <2>4. ASSUME comps[id] # <<>>, ~ NoteTaken(id) PROVE RejectsAhead(t)
      <3>1. RejectsAhead(s)
        BY <1>8, <2>4
      <3>2. Grounds(id, "po_overreceipt")
        BY <1>6, <2>1, <2>2, <2>4, <3>1 DEF RejectsAhead, Grounds
      <3>3. t.pc = "total"
        BY <1>7, <2>1, <2>2, <2>4, <3>2 DEF Grounds, OverOrder, OrderLine
      <3>. QED
        BY <1>6, <3>2, <3>3 DEF RejectsAhead
    <2>5. comps[id] # <<>> => RejectsAhead(t)
      BY <2>1, <2>4 DEF RejectsAhead
    <2>. QED
      BY <1>9, <2>1, <2>3, <2>5 DEF ReadsHold
  <1>14. CASE ReadTotal(h)
    <2>1. /\ s.pc = "total" /\ t.line = s.line
          /\ t.pc = "own" /\ t.rej = s.rej /\ t.seen = poTotal[<<p.po, p.lines[s.line].sku>>]
      BY <1>1, <1>11, <1>14, ReadTotalDoes
    <2>2. p.kind = "GoodsReceived" /\ s.line = 1 /\ s.rej.reason = "accepted"
          /\ <<p.po, p.lines[1].sku>> \in DOMAIN Ordered
      BY <1>7, <1>10, <2>1, PayloadFields DEF Fits, KindFits, RejectionFits
    <2>3. t.seen = poTotal[OrderLine(id)] /\ poTotal[OrderLine(id)] \in Nat
      <3>1. OrderLine(id) = <<p.po, p.lines[1].sku>>
        BY <1>7 DEF OrderLine
      <3>2. OrderLine(id) \in POs \X SKUs
        BY <2>2, <3>1, StoreAssumption
      <3>. QED
        BY <2>1, <2>2, <3>1, <3>2 DEF TypeInv, TypeOK, StoreTypeOK
    <2>4. ASSUME comps[id] # <<>> PROVE RejectsAhead(t)
      <3>1. Grounds(id, "po_overreceipt")
        BY <1>6, <1>8, <2>1, <2>2, <2>4 DEF RejectsAhead
      <3>. QED
        BY <1>6, <1>7, <2>1, <2>3, <3>1 DEF RejectsAhead, Grounds, OverOrder
    <2>. QED
      BY <1>6, <1>8, <1>9, <2>1, <2>3, <2>4 DEF ReadsHold
  <1>15. CASE CheckOrder(h)
    <2>. DEFINE excess == Excess(s.seen, Receipt(id), p.lines[s.line].qty,
                                 Ordered[<<p.po, p.lines[s.line].sku>>])
    <2>1. /\ s.pc = "own" /\ t.pc = "record"
          /\ IF excess <= 0 THEN t.rej = s.rej ELSE t.rej.reason = "po_overreceipt"
      BY <1>1, <1>11, <1>15, CheckOrderDoes
    <2>2. p.kind = "GoodsReceived" /\ s.line = 1 /\ s.rej.reason = "accepted"
          /\ <<p.po, p.lines[1].sku>> \in DOMAIN Ordered
      BY <1>7, <1>10, <2>1, PayloadFields DEF Fits, KindFits, RejectionFits
    <2>3. OrderLine(id) = <<p.po, p.lines[1].sku>> /\ OrderLine(id) \in DOMAIN Ordered
          /\ Ordered[OrderLine(id)] \in Nat /\ OrderLine(id) \in POs \X SKUs
      BY <1>7, <2>2, StoreAssumption DEF OrderLine
    <2>4. /\ s.seen <= poTotal[OrderLine(id)] /\ s.seen \in Int /\ Receipt(id) \in Nat
          /\ poTotal[OrderLine(id)] \in Nat /\ p.lines[1].qty \in Nat \ {0}
      <3>1. poTotal[OrderLine(id)] \in Nat /\ Receipt(id) \in Nat
        BY <1>7, <2>3 DEF TypeInv, TypeOK, StoreTypeOK, Receipt
      <3>2. p.lines[1].qty \in Nat \ {0}
        BY <1>7, <1>10, <2>1, <2>2, LineType
      <3>. QED
        BY <1>6, <1>8, <2>1, <3>1, <3>2 DEF ReadsHold, Sessions
    <2>5. excess <= 0 <=>
            ~ (s.seen - Receipt(id) + p.lines[1].qty > Ordered[OrderLine(id)])
      BY <2>2, <2>3, <2>4 DEF Excess, Min2
    <2>. HIDE DEF excess
    <2>6. CASE excess <= 0
      <3>1. comps[id] = <<>>
        BY <1>6, <1>7, <1>8, <2>1, <2>2, <2>5, <2>6 DEF RejectsAhead
      <3>. QED
        BY <1>9, <2>1, <2>2, <2>6, <3>1 DEF ReadsHold
    <2>7. CASE ~ (excess <= 0)
      <3>1. OverOrder(id)
        BY <1>7, <2>3, <2>4, <2>5, <2>7 DEF OverOrder
      <3>2. Grounds(id, t.rej.reason) /\ t.rej.reason # "accepted"
        BY <1>7, <2>1, <2>2, <2>7, <3>1 DEF Grounds
      <3>. QED
        BY <1>9, <2>1, <3>2 DEF ReadsHold, RejectsAhead
    <2>. QED
      BY <2>6, <2>7
  <1>16. CASE CheckDestination(h)
    <2>1. /\ s.pc = "destination" /\ t.pc = "record"
          /\ IF ~ Refused(p) THEN t.rej = s.rej ELSE t.rej.reason = "transfer_rejected"
      BY <1>1, <1>16, CheckDestinationDoes
    <2>2. p.kind = "TransferDispatched"
      BY <1>7, <2>1 DEF Fits, KindFits
    <2>3. t.rej.reason # "accepted" => Grounds(id, t.rej.reason)
      BY <1>7, <1>8, <2>1, <2>2 DEF Grounds
    <2>4. ASSUME comps[id] # <<>> PROVE t.rej.reason # "accepted"
      BY <1>6, <1>7, <1>8, <2>1, <2>4 DEF RejectsAhead, Grounds
    <2>. QED
      BY <1>9, <2>1, <2>3, <2>4 DEF ReadsHold, RejectsAhead
  <1>17. CASE CheckTransit(h)
    <2>1. LET row == InTransit(p.transfer, p.lines[s.line].sku)
          IN /\ s.pc = "transit"
             /\ \/ /\ row # NoRow /\ t.rej = s.rej /\ t.pc = "folded" /\ t.line = s.line
                   /\ t.seen = row.dispatched - row.received
                \/ /\ row = NoRow /\ t.rej.reason = "transfer_overreceipt"
                   /\ t.pc \in {"transit", "row"}
      BY <1>1, <1>11, <1>17, CheckTransitDoes
    <2>2. RowOf(id, s.line) = InTransit(p.transfer, p.lines[s.line].sku)
          /\ p.kind = "TransferReceived" /\ s.line \in LinesOf(id)
      BY <1>7, <1>10, <2>1 DEF RowOf, Fits, KindFits
    <2>3. CASE RowOf(id, s.line) = NoRow
      <3>1. Grounds(id, t.rej.reason) /\ t.rej.reason # "accepted"
        BY <1>7, <2>1, <2>2, <2>3 DEF Grounds, Short
      <3>. QED
        BY <1>9, <2>1, <2>2, <2>3, <3>1 DEF ReadsHold, RejectsAhead
    <2>4. CASE RowOf(id, s.line) # NoRow
      <3>1. /\ t.rej = s.rej /\ t.pc = "folded" /\ t.line = s.line
            /\ t.seen = RowOf(id, s.line).dispatched - RowOf(id, s.line).received
        BY <2>1, <2>2, <2>4
      <3>2. RowOf(id, s.line).dispatched \in Nat /\ RowOf(id, s.line).received \in Nat
        BY <1>7, <2>2, DispatchLines DEF TypeInv, TypeOK, StoreTypeOK, RowOf, InTransit
      <3>3. ReadsHold(t)
        BY <1>6, <3>1, <3>2 DEF ReadsHold
      <3>4. ASSUME comps[id] # <<>>, s.rej.reason = "accepted" PROVE RejectsAhead(t)
        <4>1. PICK i \in LinesOf(id) : i >= s.line /\ Short(id, i)
          BY <1>6, <1>8, <2>1, <3>4 DEF RejectsAhead
        <4>2. CASE i = s.line
          <5>1. p.lines[s.line].qty > t.seen + folded[<<id, p.lines[s.line].sku>>]
            BY <1>7, <2>4, <3>1, <4>1, <4>2 DEF Short, Remaining
          <5>. QED
            BY <1>6, <1>7, <3>1, <5>1 DEF RejectsAhead
        <4>3. CASE i # s.line
          <5>1. i > t.line
            BY <1>7, <1>10, <2>1, <3>1, <4>1, <4>3
          <5>. QED
            BY <1>6, <1>7, <3>1, <4>1, <5>1 DEF RejectsAhead
        <4>. QED
          BY <4>2, <4>3
      <3>5. comps[id] # <<>> => RejectsAhead(t)
        BY <3>1, <3>4 DEF RejectsAhead
      <3>. QED
        BY <1>8, <1>9, <3>1, <3>3, <3>5
    <2>. QED
      BY <2>3, <2>4
  <1>18. CASE CheckFolded(h)
    <2>1. /\ s.pc = "folded"
          /\ \/ s.line < Len(p.lines) /\ t.line = s.line + 1 /\ t.pc = "transit"
             \/ ~ (s.line < Len(p.lines)) /\ t.line = 1 /\ t.pc = "row"
          /\ IF p.lines[s.line].qty - (s.seen + folded[<<id, p.lines[s.line].sku>>]) > 0
               THEN t.rej.reason = "transfer_overreceipt" ELSE t.rej = s.rej
      BY <1>1, <1>11, <1>18, CheckFoldedDoes
    <2>2. p.kind = "TransferReceived" /\ s.line \in LinesOf(id)
      BY <1>7, <1>10, <2>1 DEF Fits, KindFits
    <2>3. /\ p.lines[s.line].qty \in Nat /\ folded[<<id, p.lines[s.line].sku>>] \in Nat
          /\ s.seen \in Int
          /\ RowOf(id, s.line).dispatched \in Nat /\ RowOf(id, s.line).received \in Nat
          /\ s.seen >= RowOf(id, s.line).dispatched - RowOf(id, s.line).received
      <3>1. p.lines[s.line].sku \in SKUs /\ p.lines[s.line].qty \in Nat
        BY <1>7, <2>2, LineType
      <3>2. RowOf(id, s.line).dispatched \in Nat /\ RowOf(id, s.line).received \in Nat
        BY <1>7, <2>2, DispatchLines DEF TypeInv, TypeOK, StoreTypeOK, RowOf, InTransit
      <3>. QED
        BY <1>6, <1>7, <1>8, <2>1, <3>1, <3>2
           DEF TypeInv, TypeOK, StoreTypeOK, Sessions, ReadsHold
    <2>4. CASE p.lines[s.line].qty - (s.seen + folded[<<id, p.lines[s.line].sku>>]) > 0
      <3>1. Short(id, s.line)
        BY <1>7, <2>3, <2>4 DEF Short, Remaining
      <3>2. Grounds(id, t.rej.reason) /\ t.rej.reason # "accepted"
        BY <1>7, <2>1, <2>2, <2>4, <3>1 DEF Grounds
      <3>. QED
        BY <1>9, <2>1, <3>2 DEF ReadsHold, RejectsAhead
    <2>5. CASE ~ (p.lines[s.line].qty - (s.seen + folded[<<id, p.lines[s.line].sku>>]) > 0)
      <3>1. ASSUME comps[id] # <<>>, s.rej.reason = "accepted" PROVE RejectsAhead(t)
        <4>1. /\ RejectsAhead(s)
              /\ ~ (p.lines[s.line].qty > s.seen + folded[<<id, p.lines[s.line].sku>>])
          BY <1>8, <2>3, <2>5, <3>1
        <4>2. PICK i \in LinesOf(id) : i > s.line /\ Short(id, i)
          BY <1>6, <1>7, <2>1, <3>1, <4>1 DEF RejectsAhead
        <4>3. t.pc = "transit" /\ i >= t.line
          BY <1>7, <1>10, <2>1, <4>2
        <4>. QED
          BY <1>6, <4>2, <4>3 DEF RejectsAhead
      <3>2. comps[id] # <<>> => RejectsAhead(t)
        BY <2>1, <2>5, <3>1 DEF RejectsAhead
      <3>. QED
        BY <1>8, <1>9, <2>1, <2>5, <3>2 DEF ReadsHold
    <2>. QED
      BY <2>4, <2>5
  <1>. QED
    BY <1>12, <1>13, <1>14, <1>15, <1>16, <1>17, <1>18 DEF Validate

LEMMA CompsAfter ==
    ASSUME NEW h \in Handlers, HandlerStep(h) \/ Fail(h)
    PROVE  comps' = comps \/ Emit(h)
  BY DEF HandlerStep, ReceiveBatch, ReadDecision, StoreEvent, Validate, CheckItem,
       CheckNote, ReadTotal, CheckOrder, CheckDestination, CheckTransit, CheckFolded, Record,
       RecordFact, RecordDispatchLine, KillTransfer, ReadRow, FoldLine, ForwardDispatch,
       ForwardArrival, Settle, ReadCompensations, EnqueueCompensation, Decide,
       StorePushed, Ack, Notice, Fail, End, storeVars, logVars

LEMMA ReasonedRecord ==
    ASSUME TypeInv, TransferInv, DoomInv, OneDispatch, LinesApart, NEW h \in Handlers,
           Record(h) \/ Emit(h) \/ EnqueueCompensation(h)
    PROVE  Reasoned(session[h])'
  <1>1. PICK s, t, id : s = session[h] /\ t = session'[h] /\ id = Current(h)
    OBVIOUS
  <1>2. HandlerStep(h)
    BY DEF HandlerStep, Settle
  <1>3. s.pc \in Late
    BY <1>1 DEF Late, Record, RecordFact, RecordDispatchLine, KillTransfer, ReadRow,
                FoldLine, ForwardDispatch, ForwardArrival, Emit, EnqueueCompensation, Step, At
  <1>4. Stays(s, t) /\ t.rej = s.rej /\ t.pc \in Late
    <2>1. CASE RecordFact(h)
      BY <1>1, <2>1, RecordFactDoes DEF Late
    <2>2. CASE RecordDispatchLine(h)
      BY <1>1, <2>2, RecordDispatchLineDoes DEF Late
    <2>3. CASE KillTransfer(h)
      BY <1>1, <2>3, KillTransferDoes DEF Late
    <2>4. CASE ReadRow(h)
      BY <1>1, <2>4, ReadRowDoes DEF Late
    <2>5. CASE FoldLine(h)
      BY <1>1, <2>5, FoldLineDoes DEF Late
    <2>6. CASE ForwardDispatch(h)
      BY <1>1, <2>6, ForwardDispatchDoes DEF Late
    <2>7. CASE ForwardArrival(h)
      BY <1>1, <2>7, ForwardArrivalDoes DEF Late
    <2>8. CASE Emit(h)
      BY <1>1, <2>8, EmitDoes DEF Late
    <2>9. CASE EnqueueCompensation(h)
      BY <1>1, <2>9, EnqueueCompensationDoes DEF Late
    <2>. QED
      BY <2>1, <2>2, <2>3, <2>4, <2>5, <2>6, <2>7, <2>8, <2>9 DEF Record
  <1>5. comps'[id] # <<>> => comps[id] # <<>> \/ s.rej.reason # "accepted"
    <2>1. Emit(h) => s.rej.reason # "accepted"
      BY <1>1 DEF Emit, Step, At, TypeInv, Fits, RejectionFits
    <2>. QED
      BY <1>2, <2>1, CompsAfter
  <1>. QED
    BY <1>1, <1>2, <1>3, <1>4, <1>5, ReasonedLate

LEMMA ReasonedEnds ==
    ASSUME TypeInv, TransferInv, DoomInv, OneDispatch, LinesApart, NEW h \in Handlers,
           HandlerStep(h) \/ Fail(h),
           \/ ReceiveBatch(h) \/ ReadDecision(h) \/ Decide(h) \/ ReadCompensations(h)
           \/ StorePushed(h) \/ Ack(h) \/ End(h)
    PROVE  Reasoned(session[h])'
  <1>1. PICK s, t, id : s = session[h] /\ t = session'[h] /\ id = Current(h)
    OBVIOUS
  <1>2. IdleSession.pc = "idle"
    BY DEF IdleSession
  <1>3. ASSUME t.pc \notin Arbitrating \ {"decision"} PROVE Reasoned(session[h])'
    BY <1>1, <1>3, ReasonedNone
  <1>4. CASE ReceiveBatch(h)
    BY <1>1, <1>3, <1>4, ReceiveBatchDoes, PhaseKinds
  <1>5. CASE NextEvent(h)
    BY <1>1, <1>3, <1>5, NextEventDoes, PhaseKinds
  <1>6. CASE StorePushed(h) \/ Ack(h) \/ End(h)
    <2>1. t = IdleSession \/ t.pc \in {"ack", "receive"}
      BY <1>1, <1>6, LeaveDoes
    <2>. QED
      BY <1>2, <1>3, <2>1, PhaseKinds
  <1>7. CASE ReadDecision(h)
    <2>1. NextEvent(h) \/ (t.pc = "append" /\ t.rej = s.rej /\ s.pc = "decision")
      BY <1>1, <1>7, ReadDecisionDoes
    <2>2. ASSUME t.pc = "append", t.rej = s.rej, s.pc = "decision" PROVE Reasoned(t)'
      <3>1. t.rej.reason = "accepted"
        BY <1>1, <2>2 DEF TypeInv, Fits, RejectionFits, NoRejection
      <3>. QED
        BY <2>2, <3>1 DEF Reasoned, ReadsHold, RejectsAhead
    <2>. QED
      BY <1>1, <1>5, <2>1, <2>2
  <1>8. CASE ReadCompensations(h)
    <2>1. /\ UNCHANGED storeVars /\ s.pc = "comps"
          /\ End(h) \/ (Stays(s, t) /\ t.rej = s.rej /\ t.pc \in {"emit", "enqueue"})
      BY <1>1, <1>8, ReadCompensationsDoes
    <2>2. comps' = comps
      BY <2>1 DEF storeVars
    <2>. QED
      BY <1>1, <1>6, <2>1, <2>2, ReasonedLate DEF Late
  <1>. QED
    BY <1>4, <1>5, <1>6, <1>7, <1>8 DEF Decide

LEMMA DoomHandlerStep ==
    ASSUME TypeInv, OpenInv, TransferInv, DoomInv, OneDispatch, LinesApart,
           NEW h \in Handlers, HandlerStep(h) \/ Fail(h)
    PROVE  DoomInv'
  <1>1. \A g \in Handlers : Reasoned(session[g])'
    <2>1. Reasoned(session[h])'
      BY ReasonedStore, ReasonedValidate, ReasonedRecord, ReasonedEnds
         DEF HandlerStep, Settle, Notice, Fail
    <2>. QED
      BY <2>1, ReasonedOthers
  <1>2. ASSUME NEW id \in Orderly, comps'[id] # <<>> PROVE Doomed(id)'
    <2>1. CASE comps[id] # <<>>
      BY <2>1, DoomedStays
    <2>2. CASE comps[id] = <<>>
      <3>1. Emit(h)
        BY <1>2, <2>2, CompsAfter
      <3>2. id = Current(h) /\ session[h].pc = "emit"
        <4>1. /\ session[h].pc = "emit" /\ Current(h) \in Ids /\ id \in Ids
              /\ comps' = [comps EXCEPT ![Current(h)] =
                             Append(@, session[h].rej.events[session[h].line])]
          BY <3>1, EmitDoes DEF Orderly
        <4>. QED
          BY <1>2, <2>2, <4>1 DEF TypeInv, TypeOK, StoreTypeOK
      <3>3. Sole(session[h])
        BY <3>2, PhaseKinds DEF Sole, Orderly, Current
      <3>4. /\ session[h].rej.reason # "accepted" /\ session[h].rej.reason \in Reasons
            /\ Grounds(id, session[h].rej.reason)
        BY <3>2, <3>3 DEF TypeInv, TypeOK, Sessions, Rejections, Fits, RejectionFits, DoomInv,
                          Reasoned, Current
      <3>5. id \in Recorded /\ Known(id) /\ id[1] \in Nodes
        BY <3>2, <3>3, SoleRecorded DEF Recorded, Ids
      <3>6. PICK reason \in Reasons : reason = session[h].rej.reason
        BY <3>4
      <3>7. Known(id)' /\ log' = log
        BY <3>5, KnownStays, Alongside
      <3>8. Grounds(id, reason)'
        BY <3>2, <3>4, <3>5, <3>6, GroundsStay
      <3>. QED
        BY <3>5, <3>7, <3>8 DEF Doomed, Recorded
    <2>. QED
      BY <2>1, <2>2
  <1>3. Orderly' = Orderly
    BY DEF Orderly
  <1>. QED
    BY <1>1, <1>2, <1>3 DEF DoomInv

LEMMA DoomInvInit == ASSUME Init PROVE DoomInv
  <1>1. \A id \in Orderly : comps[id] = <<>>
    BY DEF Init, StoreInit, Orderly
  <1>2. \A h \in Handlers : session[h].pc = "idle"
    BY DEF Init, IdleSession
  <1>. QED
    BY <1>1, <1>2, PhaseKinds DEF DoomInv, Reasoned, Sole

LEMMA DoomIdle ==
    ASSUME DoomInv, UNCHANGED storeVars, log' = log,
           \A g \in Handlers : session'[g] = session[g] \/ session'[g].pc = "receive"
    PROVE  DoomInv'
  <1>1. UNCHANGED <<events, comps, receipts, poTotal, transit, folded, outbound>>
    BY DEF storeVars
  <1>2. \A g \in Handlers : Reasoned(session[g])'
    <2>1. ASSUME NEW g \in Handlers, session'[g] = session[g] PROVE Reasoned(session[g])'
      <3>1. PICK s : s = session[g]
        OBVIOUS
      <3>. QED
        BY <2>1, <3>1, ReasonedSame DEF DoomInv
    <2>2. ASSUME NEW g \in Handlers, session'[g].pc = "receive" PROVE Reasoned(session[g])'
      BY <2>2, PhaseKinds DEF Reasoned, Sole
    <2>. QED
      BY <2>1, <2>2
  <1>3. ASSUME NEW id \in Orderly, comps[id] # <<>> PROVE Doomed(id)'
    <2>1. \A id1 : /\ Payload(id1)' = Payload(id1) /\ LinesOf(id1)' = LinesOf(id1)
                   /\ OrderLine(id1)' = OrderLine(id1) /\ Receipt(id1)' = Receipt(id1)
                   /\ \A i : Short(id1, i)' = Short(id1, i)
      BY <1>1 DEF Payload, LinesOf, OrderLine, Receipt, Short, Remaining, RowOf, InTransit
    <2>2. \A p : KeyedLike(p)' = KeyedLike(p) /\ Refused(p)' = Refused(p)
      BY <1>1 DEF KeyedLike, Refused, Payload
    <2>3. /\ Unknown(id)' = Unknown(id) /\ NoteTaken(id)' = NoteTaken(id)
          /\ OverOrder(id)' = OverOrder(id) /\ Known(id)' = Known(id)
      BY <1>1, <2>1, <2>2 DEF Unknown, NoteTaken, OverOrder, Known, CanRecord, Payload
    <2>4. \A reason : Grounds(id, reason)' = Grounds(id, reason)
      BY <2>1, <2>2, <2>3 DEF Grounds
    <2>. QED
      BY <1>3, <2>3, <2>4 DEF DoomInv, Doomed, Recorded
  <1>. QED
    BY <1>1, <1>2, <1>3 DEF DoomInv, Orderly

LEMMA DoomInvNext ==
    ASSUME TypeInv, OpenInv, TransferInv, DoomInv, OneDispatch, LinesApart, [Next]_vars
    PROVE  DoomInv'
  <1>1. ASSUME NEW h \in Handlers, NEW n \in Nodes, Open(h, n) PROVE DoomInv'
    <2>. DEFINE t == [IdleSession EXCEPT !.pc = "receive", !.node = n, !.last = Resume(n)]
    <2>1. t.pc = "receive"
      BY DEF IdleSession
    <2>2. UNCHANGED storeVars /\ log' = log /\ Become(h, t)
      BY <1>1 DEF Open, nodeVars
    <2>. HIDE DEF t
    <2>3. \A g \in Handlers : session'[g] = IF g = h THEN t ELSE session[g]
      BY <2>2 DEF Become, TypeInv, TypeOK
    <2>. QED
      BY <2>1, <2>2, <2>3, DoomIdle
  <1>2. ASSUME NEW h \in Handlers, HandlerStep(h) \/ Fail(h) PROVE DoomInv'
    BY <1>2, DoomHandlerStep
  <1>3. ASSUME NEW n \in Nodes, Detach(n) PROVE DoomInv'
    BY <1>3, DoomIdle DEF Detach, nodeVars
  <1>4. CASE UNCHANGED vars
    BY <1>4, DoomIdle DEF vars
  <1>. QED
    BY <1>1, <1>2, <1>3, <1>4 DEF Next

-----------------------------------------------------------------------------
(* What a decision says *)

LEMMA DecisionsAfter ==
    ASSUME NEW h \in Handlers, HandlerStep(h) \/ Fail(h)
    PROVE  decisions' = decisions \/ Decide(h)
  BY DEF HandlerStep, ReceiveBatch, ReadDecision, StoreEvent, Validate, CheckItem,
       CheckNote, ReadTotal, CheckOrder, CheckDestination, CheckTransit, CheckFolded, Record,
       RecordFact, RecordDispatchLine, KillTransfer, ReadRow, FoldLine, ForwardDispatch,
       ForwardArrival, Settle, ReadCompensations, Emit, EnqueueCompensation,
       StorePushed, Ack, Notice, Fail, End, storeVars, logVars

\* An accepted event was never compensated, for then it would have been rejected again;
\* a rejected one has all its compensations queued.
LEMMA DecisionStaysTrue ==
    ASSUME TypeInv, OpenInv, DoomInv, QueueInv, NEW h \in Handlers, HandlerStep(h) \/ Fail(h)
    PROVE  DecisionMatchesLog'
  <1>1. Orderly' = Orderly
    BY DEF Orderly
  <1>2. ASSUME NEW id \in Orderly
        PROVE  /\ decisions'[id] = "accepted" => comps'[id] = <<>>
               /\ decisions'[id] \in Reasons =>
                    /\ comps'[id] # <<>>
                    /\ \A k \in DOMAIN comps'[id] : CompRef(id, k) \in outbound'[id[1]]
    <2>1. id \in Ids /\ id[1] \in Nodes /\ outbound[id[1]] \subseteq outbound'[id[1]]
      BY OutboundGrows DEF Orderly, Ids
    <2>2. CASE Decided(id)
      <3>1. decisions'[id] = decisions[id] /\ comps'[id] = comps[id]
        BY <2>2, DecidedUntouched DEF Next, Untouched
      <3>. QED
        BY <2>1, <3>1 DEF QueueInv, DecisionMatchesLog, IsRejected
    <2>3. CASE ~ Decided(id) /\ decisions'[id] = decisions[id]
      BY <2>3 DEF Decided, Reasons
    <2>4. CASE ~ Decided(id) /\ decisions'[id] # decisions[id]
      <3>1. PICK s : s = session[h]
        OBVIOUS
      <3>2. Decide(h)
        BY <2>4, DecisionsAfter
      <3>3. /\ UNCHANGED <<comps, queueVars>> /\ s.pc = "decide"
            /\ decisions' = [decisions EXCEPT ![Current(h)] = s.rej.reason]
        BY <3>1, <3>2, DecideDoes
      <3>4. id = Current(h) /\ decisions'[id] = s.rej.reason
        BY <2>1, <2>4, <3>3 DEF TypeInv, TypeOK, StoreTypeOK
      <3>5. Sole(s) /\ id = <<s.node, s.cur>>
        BY <3>1, <3>3, <3>4, PhaseKinds DEF Sole, Orderly, Current
      <3>6. comps[id] # <<>> => s.rej.reason # "accepted"
        BY <3>1, <3>3, <3>5 DEF DoomInv, Reasoned, RejectsAhead
      <3>7. s.rej.reason # "accepted" =>
              /\ comps[id] # <<>>
              /\ \A k \in DOMAIN comps[id] : CompRef(id, k) \in outbound[id[1]]
        BY <3>1, <3>3, <3>5 DEF QueueInv, Queues
      <3>8. UNCHANGED <<comps, outbound>>
        BY <3>3 DEF queueVars
      <3>. QED
        BY <3>4, <3>6, <3>7, <3>8 DEF Reasons
    <2>. QED
      BY <2>2, <2>3, <2>4
  <1>. QED
    BY <1>1, <1>2 DEF DecisionMatchesLog, IsRejected

LEMMA QueuesOthers ==
    ASSUME TypeInv, OpenInv, TransferInv, QueueInv, NEW h \in Handlers, HandlerStep(h) \/ Fail(h),
           NEW g \in Handlers \ {h}
    PROVE  Queues(session[g])'
  <1>1. PICK s, id : s = session[g] /\ id = <<s.node, s.cur>>
    OBVIOUS
  <1>2. session'[g] = s /\ id = Current(g)
    BY <1>1, Alongside DEF Current
  <1>3. Queues(s)
    BY <1>1 DEF QueueInv
  <1>4. CASE ~ Sole(s)
    BY <1>2, <1>3, <1>4 DEF Queues, Sole
  <1>5. CASE Sole(s)
    <2>1. id \in Ids /\ id[1] \in Nodes
      BY <1>1, <1>2, <1>5, SoleRecorded DEF Ids
    <2>2. id # Current(h)
      BY <1>1, <1>5 DEF OpenInv, Alone, Current, Sole, TypeInv, Fits, Placed, Arbitrating, Outside
    <2>3. comps'[id] = comps[id]
      BY <2>1, <2>2, OnlyCurrent DEF Untouched
    <2>4. outbound[id[1]] \subseteq outbound'[id[1]]
      BY <2>1, OutboundGrows
    <2>. QED
      BY <1>1, <1>2, <1>3, <2>3, <2>4 DEF Queues, Sole
  <1>. QED
    BY <1>4, <1>5

\* Between a decision and the next compensations nothing waits to be queued.
LEMMA QueuesNone ==
    ASSUME NEW t, t.queue = {}, t.pc \notin {"comps", "emit", "enqueue"},
           t.pc = "decide" => t.rej.reason = "accepted"
    PROVE  Queues(t)'
  BY DEF Queues

LEMMA QueuesComps ==
    ASSUME NEW t, t.queue = {}, t.pc = "comps", t.rej.reason # "accepted"
    PROVE  Queues(t)'
  BY DEF Queues

\* Until the compensations are looked up nothing waits to be queued.
LEMMA QueuesWorks ==
    ASSUME TypeInv, TransferInv, QueueInv, NEW h \in Handlers,
           StoreEvent(h) \/ Validate(h) \/ Record(h)
    PROVE  Queues(session[h])'
  <1>1. PICK s, t : s = session[h] /\ t = session'[h]
    OBVIOUS
  <1>2. Queues(s)
    BY <1>1 DEF QueueInv
  <1>3. CASE StoreEvent(h)
    <2>1. s.pc = "append" /\ t.queue = s.queue /\ t.rej = NoRejection
          /\ t.pc \in {"decide", "items"}
      BY <1>1, <1>3, StoreEventDoes
    <2>2. t.queue = {} /\ t.rej.reason = "accepted"
      BY <1>2, <2>1 DEF Queues, NoRejection
    <2>. QED
      BY <1>1, <2>1, <2>2, QueuesNone
  <1>4. CASE Validate(h)
    <2>1. s.pc \notin {"emit", "enqueue"} /\ t.queue = s.queue
          /\ t.pc \notin {"comps", "emit", "enqueue", "decide"}
      <3>1. CASE CheckItem(h)
        <4>. DEFINE rejected == t.rej.reason # "accepted"
        <4>1. /\ s.pc = "items" /\ t.queue = s.queue
              /\ t.pc = "items" \/ t.pc = AfterItems(P(h).kind, rejected)
          BY <1>1, <3>1, CheckItemDoes
        <4>2. P(h).kind \in {"GoodsReceived", "TransferDispatched", "TransferReceived"}
          BY <1>1, <4>1, Here, PhaseKinds, PayloadFields DEF Fits, KindFits
        <4>. QED
          BY <4>1, <4>2 DEF AfterItems
      <3>2. CASE CheckNote(h)
        <4>1. s.pc = "note" /\ t.queue = s.queue /\ t.pc \in {"record", "total"}
          <5>. DEFINE again == /\ KeyedLike(P(h)) # {}
                              /\ DeliveryNoteFirstSeen(KeyedLike(P(h))) # Current(h)
                      ordered == <<P(h).po, Line(h).sku>> \in DOMAIN Ordered
          <5>1. /\ s.pc = "note" /\ t.queue = s.queue
                /\ IF again THEN t.pc = "record"
                   ELSE t.pc = IF ordered THEN "total" ELSE "record"
            BY <1>1, <3>2, CheckNoteDoes
          <5>. HIDE DEF again, ordered
          <5>. QED
            BY <5>1
        <4>. QED
          BY <4>1
      <3>3. CASE ReadTotal(h)
        BY <1>1, <3>3, ReadTotalDoes
      <3>4. CASE CheckOrder(h)
        BY <1>1, <3>4, CheckOrderDoes
      <3>5. CASE CheckDestination(h)
        BY <1>1, <3>5, CheckDestinationDoes
      <3>6. CASE CheckTransit(h)
        BY <1>1, <3>6, CheckTransitDoes
      <3>7. CASE CheckFolded(h)
        BY <1>1, <3>7, CheckFoldedDoes
      <3>. QED
        BY <1>4, <3>1, <3>2, <3>3, <3>4, <3>5, <3>6, <3>7 DEF Validate
    <2>. QED
      BY <1>1, <1>2, <2>1, QueuesNone DEF Queues
  <1>5. CASE Record(h)
    <2>1. /\ s.pc \notin {"emit", "enqueue"} /\ t.queue = s.queue /\ t.rej = s.rej
          /\ t.pc \notin {"emit", "enqueue"}
          /\ t.pc = "comps" => s.rej.reason # "accepted"
          /\ t.pc = "decide" => s.rej.reason = "accepted"
      <3>1. CASE RecordFact(h)
        BY <1>1, <3>1, RecordFactDoes
      <3>2. CASE RecordDispatchLine(h)
        BY <1>1, <3>2, RecordDispatchLineDoes
      <3>3. CASE KillTransfer(h)
        <4>1. s.pc = "fail" => s.rej.reason # "accepted"
          BY <1>1 DEF TypeInv, Fits, RejectionFits
        <4>. QED
          BY <1>1, <3>3, <4>1, KillTransferDoes
      <3>4. CASE ReadRow(h)
        BY <1>1, <3>4, ReadRowDoes
      <3>5. CASE FoldLine(h)
        BY <1>1, <3>5, FoldLineDoes
      <3>6. CASE ForwardDispatch(h)
        <4>1. /\ s.pc = "forward" /\ P(h).kind = "TransferDispatched"
              /\ t.queue = s.queue /\ t.rej = s.rej /\ t.pc = "decide"
          BY <1>1, <3>6, ForwardDispatchDoes
        <4>2. E(s).kind = "TransferDispatched"
          BY <1>1, <4>1 DEF E, P, Current
        <4>3. s.rej.reason = "accepted"
          BY <1>1, <4>1, <4>2 DEF TransferInv, Ships
        <4>. QED
          BY <4>1, <4>3
      <3>7. CASE ForwardArrival(h)
        BY <1>1, <3>7, ForwardArrivalDoes
      <3>. QED
        BY <1>5, <3>1, <3>2, <3>3, <3>4, <3>5, <3>6, <3>7 DEF Record
    <2>2. t.queue = {}
      BY <1>2, <2>1 DEF Queues
    <2>. QED
      BY <1>1, <2>1, <2>2, QueuesNone, QueuesComps
  <1>. QED
    BY <1>3, <1>4, <1>5

\* What was emitted or found in the log waits to be queued until it is.
LEMMA QueuesSettle ==
    ASSUME TypeInv, TransferInv, QueueInv, NEW h \in Handlers,
           ReadCompensations(h) \/ Emit(h) \/ EnqueueCompensation(h)
    PROVE  Queues(session[h])'
  <1>1. PICK s, t, id : s = session[h] /\ t = session'[h] /\ id = Current(h)
    OBVIOUS
  <1>2. Queues(s) /\ id = <<s.node, s.cur>> /\ IdleSession.queue = {} /\ IdleSession.pc = "idle"
    BY <1>1 DEF QueueInv, Current, IdleSession
  <1>3. CASE t = IdleSession
    BY <1>1, <1>2, <1>3, QueuesNone
  <1>4. CASE ReadCompensations(h) /\ t # IdleSession
    <2>1. s.pc = "comps" /\ UNCHANGED storeVars
      BY <1>1, <1>4, ReadCompensationsDoes
    <2>2. /\ Stays(s, t) /\ t.rej = s.rej
          /\ \/ comps[id] = <<>> /\ t.pc = "emit" /\ t.queue = s.queue
             \/ comps[id] # <<>> /\ t.pc = "enqueue" /\ t.queue = DOMAIN comps[id]
      <3>1. End(h) => t = IdleSession
        BY <1>1, Becomes DEF End
      <3>. QED
        BY <1>1, <1>4, <3>1, ReadCompensationsDoes
    <2>3. s.queue = {} /\ DOMAIN <<>> = {}
      BY <1>2, <2>1 DEF Queues
    <2>4. Sole(t) => Sole(s) /\ s.rej.reason # "accepted"
      BY <1>2, <2>1, <2>2, PhaseKinds DEF Sole, Stays, Queues
    <2>5. comps' = comps /\ id = <<t.node, t.cur>>
      BY <1>2, <2>1, <2>2 DEF storeVars, Stays
    <2>6. Sole(t) => /\ t.pc = "emit" => t.queue = DOMAIN comps'[id]
                     /\ t.pc = "enqueue" => comps'[id] # <<>> /\ DOMAIN comps'[id] \subseteq t.queue
      BY <2>2, <2>3, <2>5
    <2>. QED
      BY <1>1, <2>2, <2>4, <2>5, <2>6 DEF Queues, Sole
  <1>5. CASE Emit(h)
    <2>1. /\ s.pc = "emit" /\ id \in Ids
          /\ comps' = [comps EXCEPT ![id] = Append(@, s.rej.events[s.line])]
          /\ Stays(s, t) /\ t.rej = s.rej /\ t.queue = s.queue \cup {Len(comps[id]) + 1}
          /\ t.pc \in {"emit", "enqueue"}
      BY <1>1, <1>5, EmitDoes
    <2>2. comps[id] \in Seq(Compensation) /\ comps \in [Ids -> Seq(Compensation)]
      BY <2>1 DEF TypeInv, TypeOK, StoreTypeOK
    <2>3. comps'[id] = Append(comps[id], s.rej.events[s.line])
      BY <2>1, <2>2
    <2>4. DOMAIN comps'[id] = DOMAIN comps[id] \cup {Len(comps[id]) + 1} /\ comps'[id] # <<>>
      BY <2>2, <2>3
    <2>5. Sole(t) => Sole(s) /\ s.queue = DOMAIN comps[id] /\ s.rej.reason # "accepted"
      BY <1>2, <2>1, PhaseKinds DEF Sole, Stays, Queues
    <2>6. Sole(t) => t.queue = DOMAIN comps'[id]
      BY <2>1, <2>4, <2>5
    <2>7. id = <<t.node, t.cur>>
      BY <1>2, <2>1 DEF Stays
    <2>. QED
      BY <1>1, <2>1, <2>4, <2>5, <2>6, <2>7 DEF Queues, Sole
  <1>6. CASE EnqueueCompensation(h)
    <2>1. /\ s.pc = "enqueue" /\ comps' = comps /\ Stays(s, t) /\ t.rej = s.rej
      BY <1>1, <1>6, EnqueueCompensationDoes DEF logVars
    <2>2. PICK k \in s.queue :
            /\ Enqueue(s.node, CompRef(id, k)) /\ t.queue = s.queue \ {k}
            /\ t.pc = "enqueue" \/ (t.pc = "decide" /\ t.queue = {})
      BY <1>1, <1>6, EnqueueCompensationDoes
    <2>3. Sole(t) => Sole(s)
      BY <2>1, PhaseKinds DEF Sole, Stays
    <2>4. ASSUME Sole(s)
          PROVE  /\ comps[id] # <<>> /\ s.rej.reason # "accepted"
                 /\ \A j \in DOMAIN comps[id] :
                       j \in t.queue \/ CompRef(id, j) \in outbound'[id[1]]
      <3>1. /\ comps[id] # <<>> /\ s.rej.reason # "accepted"
            /\ \A j \in DOMAIN comps[id] : j \in s.queue \/ CompRef(id, j) \in outbound[id[1]]
        BY <1>2, <2>1, <2>4 DEF Queues
      <3>2. s.node \in Nodes /\ id[1] = s.node /\ outbound \in [Nodes -> SUBSET Envelopes]
        BY <1>1, <1>2, <2>1, Here, PhaseKinds DEF TypeInv, TypeOK, StoreTypeOK
      <3>3. outbound'[id[1]] = outbound[id[1]] \cup {CompRef(id, k)}
        BY <2>2, <3>2 DEF Enqueue
      <3>. QED
        BY <2>2, <3>1, <3>3
    <2>5. id = <<t.node, t.cur>>
      BY <1>2, <2>1 DEF Stays
    <2>. QED
      BY <1>1, <2>1, <2>2, <2>3, <2>4, <2>5 DEF Queues
  <1>. QED
    BY <1>3, <1>4, <1>5, <1>6 DEF ReadCompensations

LEMMA QueuesEnds ==
    ASSUME TypeInv, QueueInv, NEW h \in Handlers,
           \/ ReceiveBatch(h) \/ ReadDecision(h) \/ Decide(h)
           \/ StorePushed(h) \/ Ack(h) \/ End(h)
    PROVE  Queues(session[h])'
  <1>1. PICK s, t : s = session[h] /\ t = session'[h]
    OBVIOUS
  <1>2. Queues(s) /\ IdleSession.queue = {} /\ IdleSession.pc = "idle"
    BY <1>1 DEF QueueInv, IdleSession
  <1>3. t.queue = {} /\ t.pc \notin {"comps", "emit", "enqueue", "decide"}
    <2>1. CASE ReceiveBatch(h)
      BY <1>1, <1>2, <2>1, ReceiveBatchDoes DEF Queues
    <2>2. CASE NextEvent(h)
      BY <1>1, <2>2, NextEventDoes
    <2>3. CASE ReadDecision(h)
      BY <1>1, <1>2, <2>2, <2>3, ReadDecisionDoes DEF Queues
    <2>4. CASE StorePushed(h) \/ Ack(h) \/ End(h)
      BY <1>1, <1>2, <2>4, LeaveDoes DEF Queues
    <2>. QED
      BY <2>1, <2>2, <2>3, <2>4 DEF Decide
  <1>. QED
    BY <1>1, <1>3, QueuesNone

LEMMA QueueHandlerStep ==
    ASSUME TypeInv, OpenInv, TransferInv, DoomInv, QueueInv,
           NEW h \in Handlers, HandlerStep(h) \/ Fail(h)
    PROVE  QueueInv'
  <1>1. Queues(session[h])'
    BY QueuesWorks, QueuesSettle, QueuesEnds DEF HandlerStep, Settle, Notice, Fail
  <1>2. \A g \in Handlers : Queues(session[g])'
    BY <1>1, QueuesOthers
  <1>3. DecisionMatchesLog'
    BY DecisionStaysTrue
  <1>. QED
    BY <1>2, <1>3 DEF QueueInv

LEMMA QueueInvInit == ASSUME Init PROVE QueueInv
  <1>1. \A id \in Orderly : decisions[id] = "undecided"
    BY DEF Init, StoreInit, Orderly
  <1>2. \A h \in Handlers : session[h] = IdleSession
    BY DEF Init
  <1>3. Queues(IdleSession)
    BY PhaseKinds DEF IdleSession, Queues, Sole
  <1>. QED
    BY <1>1, <1>2, <1>3 DEF QueueInv, DecisionMatchesLog, IsRejected, Reasons

LEMMA QueueIdle ==
    ASSUME QueueInv, UNCHANGED storeVars, log' = log,
           \A g \in Handlers : \/ session'[g] = session[g]
                               \/ session'[g].pc = "receive" /\ session'[g].queue = {}
    PROVE  QueueInv'
  <1>1. UNCHANGED <<comps, decisions, outbound>>
    BY DEF storeVars
  <1>2. \A g \in Handlers : Queues(session[g])'
    <2>1. ASSUME NEW g \in Handlers, session'[g] = session[g] PROVE Queues(session[g])'
      <3>1. PICK s : s = session[g]
        OBVIOUS
      <3>2. Queues(s)
        BY <3>1 DEF QueueInv
      <3>. QED
        BY <1>1, <2>1, <3>1, <3>2 DEF Queues
    <2>2. ASSUME NEW g \in Handlers, session'[g].pc = "receive", session'[g].queue = {}
          PROVE  Queues(session[g])'
      BY <2>2, QueuesNone
    <2>. QED
      BY <2>1, <2>2
  <1>3. DecisionMatchesLog'
    BY <1>1 DEF QueueInv, DecisionMatchesLog, IsRejected, Orderly
  <1>. QED
    BY <1>2, <1>3 DEF QueueInv

LEMMA QueueInvNext ==
    ASSUME TypeInv, OpenInv, TransferInv, DoomInv, QueueInv, [Next]_vars
    PROVE  QueueInv'
  <1>1. ASSUME NEW h \in Handlers, NEW n \in Nodes, Open(h, n) PROVE QueueInv'
    <2>. DEFINE t == [IdleSession EXCEPT !.pc = "receive", !.node = n, !.last = Resume(n)]
    <2>1. t.pc = "receive" /\ t.queue = {}
      BY DEF IdleSession
    <2>2. UNCHANGED storeVars /\ log' = log /\ Become(h, t)
      BY <1>1 DEF Open, nodeVars
    <2>. HIDE DEF t
    <2>3. \A g \in Handlers : session'[g] = IF g = h THEN t ELSE session[g]
      BY <2>2 DEF Become, TypeInv, TypeOK
    <2>. QED
      BY <2>1, <2>2, <2>3, QueueIdle
  <1>2. ASSUME NEW h \in Handlers, HandlerStep(h) \/ Fail(h) PROVE QueueInv'
    BY <1>2, QueueHandlerStep
  <1>3. ASSUME NEW n \in Nodes, Detach(n) PROVE QueueInv'
    BY <1>3, QueueIdle DEF Detach, nodeVars
  <1>4. CASE UNCHANGED vars
    BY <1>4, QueueIdle DEF vars
  <1>. QED
    BY <1>1, <1>2, <1>3, <1>4 DEF Next

\* The decision on record for an event tells the truth about the log and the queue,
\* for the nodes whose sessions do not overlap: a retry, and what other sessions do to
\* receipts, orders and rows meanwhile, never turns a rejection that has emitted
\* compensations into an acceptance, and a rejection is decided only when all of them
\* are queued (Arbitrate in arbiter.go; the transfer identities of transfer.go:38).
THEOREM DecisionMatchesLogCorrect ==
    ASSUME OneDispatch, LinesApart PROVE Spec => []DecisionMatchesLog
  <1>. DEFINE Inv == TypeInv /\ OpenInv /\ TransferInv /\ DoomInv /\ QueueInv
  <1>1. Init => Inv
    BY TypeInvInit, OpenInvInit, TransferInvInit, DoomInvInit, QueueInvInit
  <1>2. Inv /\ [Next]_vars => Inv'
    BY TypeInvNext, OpenInvNext, TransferInvNext, DoomInvNext, QueueInvNext
  <1>3. Inv => DecisionMatchesLog
    BY DEF QueueInv
  <1>. QED
    BY <1>1, <1>2, <1>3, PTL DEF Spec

-----------------------------------------------------------------------------
(* Who learns of a transfer *)

\* The validators reject a dispatch for what it says, whenever it is arbitrated.
Bad(id) == Unknown(id) \/ Refused(Payload(id))

\* All that was dispatched with it is dead.
Failed(id) == \A i \in LinesOf(id) : RowOf(id, i).failed

\* The source of each line of an arrival that was dispatched at all has it queued.
Told(id) ==
    \A i \in LinesOf(id) :
        RowOf(id, i) # NoRow => EventRef(id) \in outbound[RowOf(id, i).from]

\* fanOut has run for the event and its verdict.
Fanned(id, verdict) ==
    /\ Payload(id).kind = "TransferDispatched" =>
         \/ verdict # "accepted" /\ Bad(id) /\ Failed(id)
         \/ verdict = "accepted" /\ ~ Bad(id) /\ EventRef(id) \in outbound[Payload(id).to]
    /\ Payload(id).kind = "TransferReceived" => Known(id) /\ Told(id)

\* The verdict on a dispatch takes shape.
Judged(s) ==
    LET id == <<s.node, s.cur>>
        rejected == s.rej.reason # "accepted"
    IN /\ s.pc = "items" =>
            (rejected <=> \E i \in LinesOf(id) : i < s.line /\ E(s).lines[i].sku \notin Items)
       /\ s.pc = "destination" => ~ Unknown(id) /\ ~ rejected
       /\ s.pc \in {"record", "fail", "forward"} /\ E(s).kind = "TransferDispatched"
            => (rejected <=> Bad(id))
       /\ s.pc \in {"comps", "emit", "enqueue", "decide"} => Fanned(id, s.rej.reason)

FanInv ==
    /\ \A n \in Nodes : \A id \in Ids :
          EventRef(id) \in outbound[n] /\ Payload(id).kind = "TransferDispatched" => ~ Bad(id)
    /\ \A id \in Recorded : Decided(id) => Fanned(id, decisions[id])
    /\ \A h \in Handlers : Judged(session[h])

-----------------------------------------------------------------------------
(* What was fanned out stays so *)

LEMMA FailedStays ==
    ASSUME TypeInv, TransferInv, NEW h \in Handlers, HandlerStep(h) \/ Fail(h),
           NEW id \in Recorded, Payload(id).kind = "TransferDispatched", Failed(id)
    PROVE  Failed(id)'
  <1>1. ASSUME NEW i \in LinesOf(id) PROVE RowOf(id, i)'.failed
    <2>1. PICK key \in Transfers \X SKUs :
            key = <<Payload(id).transfer, Payload(id).lines[i].sku>>
      BY DispatchLines
    <2>2. transit[key].failed
      BY <2>1 DEF Failed, RowOf, InTransit
    <2>3. transit'[key].failed
      BY <2>2, RowAfter, FoldsReady DEF Redispatched, Killed, Refolded
    <2>4. log' = log
      BY Alongside
    <2>. QED
      BY <2>1, <2>3, <2>4 DEF RowOf, InTransit, Payload
  <1>2. LinesOf(id)' = LinesOf(id)
    BY Alongside DEF LinesOf, Payload
  <1>. QED
    BY <1>1, <1>2 DEF Failed

\* A row's source is the node of its dispatch.
LEMMA SourceNode ==
    ASSUME TypeInv, TransferInv, NEW key \in Transfers \X SKUs, transit[key] # NoRow
    PROVE  transit[key].from \in Nodes
  <1>1. key \in DOMAIN transit
    BY DEF TypeInv, TypeOK, StoreTypeOK
  <1>2. PICK d \in Recorded : MadeBy(key, d)
    BY <1>1 DEF TransferInv, RowsReal
  <1>. QED
    BY <1>2 DEF MadeBy, Recorded, Ids

\* A transfer whose arrival is known has all the rows it will ever have.
LEMMA ToldStays ==
    ASSUME TypeInv, TransferInv, OneDispatch, NEW h \in Handlers, HandlerStep(h) \/ Fail(h),
           NEW id \in Recorded, Payload(id).kind = "TransferReceived", Known(id), Told(id)
    PROVE  Told(id)'
  <1>1. log' = log
    BY Alongside
  <1>2. ASSUME NEW i \in LinesOf(id), RowOf(id, i)' # NoRow
        PROVE  EventRef(id) \in outbound'[RowOf(id, i)'.from]
    <2>1. PICK key \in Transfers \X SKUs :
            key = <<Payload(id).transfer, Payload(id).lines[i].sku>>
      BY DispatchLines
    <2>2. RowOf(id, i) = transit[key] /\ RowOf(id, i)' = transit'[key]
      BY <1>1, <2>1 DEF RowOf, InTransit, Payload
    <2>3. transit[key] # NoRow
      BY <1>2, <2>1, <2>2, RowLeft
    <2>4. transit'[key].from = transit[key].from /\ transit[key].from \in Nodes
      BY <2>3, RowStays, SourceNode
    <2>5. EventRef(id) \in outbound[transit[key].from]
      BY <2>2, <2>3 DEF Told
    <2>. QED
      BY <2>2, <2>4, <2>5, OutboundGrows
  <1>3. LinesOf(id)' = LinesOf(id)
    BY <1>1 DEF LinesOf, Payload
  <1>. QED
    BY <1>2, <1>3 DEF Told

LEMMA BadStays ==
    ASSUME log' = log, NEW id
    PROVE  Bad(id)' = Bad(id) /\ LinesOf(id)' = LinesOf(id) /\ Payload(id)' = Payload(id)
           /\ Unknown(id)' = Unknown(id)
  BY DEF Bad, Unknown, Refused, LinesOf, Payload

LEMMA DestinationNode ==
    ASSUME TypeInv, NEW id \in Recorded, Payload(id).kind = "TransferDispatched"
    PROVE  Payload(id).to \in Nodes
  <1>1. Payload(id) \in Payloads
    BY ArbiterAssumption DEF TypeInv, TypeOK, Recorded, Ids, Payload
  <1>2. Payload(id) \in Dispatches
    BY <1>1, PayloadFields
  <1>. QED
    BY <1>2 DEF Dispatches

LEMMA FannedStays ==
    ASSUME TypeInv, TransferInv, OneDispatch, NEW h \in Handlers, HandlerStep(h) \/ Fail(h),
           NEW id \in Recorded, NEW verdict, Fanned(id, verdict)
    PROVE  Fanned(id, verdict)'
  <1>1. log' = log /\ Payload(id)' = Payload(id) /\ Bad(id)' = Bad(id)
    BY Alongside, BadStays
  <1>2. CASE Payload(id).kind = "TransferDispatched"
    <2>1. Failed(id) => Failed(id)'
      BY <1>2, FailedStays
    <2>2. outbound[Payload(id).to] \subseteq outbound'[Payload(id).to]
      BY <1>2, DestinationNode, OutboundGrows
    <2>. QED
      BY <1>1, <1>2, <2>1, <2>2 DEF Fanned
  <1>3. CASE Payload(id).kind = "TransferReceived"
    <2>1. Known(id) /\ Told(id) /\ id[1] \in Nodes
      BY <1>3 DEF Fanned, Recorded, Ids
    <2>. QED
      BY <1>1, <1>3, <2>1, KnownStays, ToldStays DEF Fanned
  <1>. QED
    BY <1>1, <1>2, <1>3 DEF Fanned

\* A dispatch that is announced is one the validators let pass.
LEMMA AnnouncedStaysGood ==
    ASSUME TypeInv, TransferInv, FanInv, NEW h \in Handlers, HandlerStep(h) \/ Fail(h),
           NEW n \in Nodes, NEW id \in Ids, EventRef(id) \in outbound'[n],
           Payload(id).kind = "TransferDispatched"
    PROVE  ~ Bad(id)
  <1>1. CASE EventRef(id) \in outbound[n]
    BY <1>1 DEF FanInv
  <1>2. CASE EventRef(id) \notin outbound[n]
    <2>1. PICK m \in Nodes \cup Nat, env \in Envelopes :
            /\ Enqueue(m, env)
            /\ \/ env = EventRef(Current(h)) /\ session[h].pc = "forward"
               \/ \E k \in session[h].queue : env = CompRef(Current(h), k)
      BY <1>2, OutboundAfter DEF Announces
    <2>2. env = EventRef(id)
      BY <1>2, <2>1 DEF Enqueue, TypeInv, TypeOK, StoreTypeOK
    <2>3. session[h].queue \subseteq Nat \ {0}
      BY DEF TransferInv, Ships
    <2>4. session[h].pc = "forward" /\ Current(h) = id
      BY <2>1, <2>2, <2>3 DEF EventRef, CompRef
    <2>. QED
      BY <2>4 DEF TransferInv, Ships, FanInv, Judged, E, Current
  <1>. QED
    BY <1>1, <1>2

-----------------------------------------------------------------------------
(* The verdict of a handler *)

LEMMA JudgedOthers ==
    ASSUME TypeInv, TransferInv, FanInv, OneDispatch,
           NEW h \in Handlers, HandlerStep(h) \/ Fail(h), NEW g \in Handlers \ {h}
    PROVE  Judged(session[g])'
  <1>1. PICK s, id : s = session[g] /\ id = <<s.node, s.cur>>
    OBVIOUS
  <1>2. log' = log /\ session'[g] = s /\ id = Current(g) /\ Judged(s)
    BY <1>1, Alongside DEF Current, FanInv
  <1>3. /\ Bad(id)' = Bad(id) /\ LinesOf(id)' = LinesOf(id) /\ E(s)' = E(s)
        /\ Unknown(id)' = Unknown(id)
    BY <1>2, BadStays DEF E, Payload
  <1>4. ASSUME s.pc \in {"comps", "emit", "enqueue", "decide"}
        PROVE  Fanned(id, s.rej.reason)'
    <2>1. id \in Recorded
      BY <1>1, <1>2, <1>4, HereRecorded, PhaseKinds
    <2>2. Fanned(id, s.rej.reason)
      BY <1>1, <1>2, <1>4 DEF Judged
    <2>. QED
      BY <2>1, <2>2, FannedStays
  <1>. QED
    BY <1>1, <1>2, <1>3, <1>4 DEF Judged

\* A phase in which there is no verdict on a dispatch.
LEMMA JudgedElsewhere ==
    ASSUME NEW t, t.pc \notin {"items", "destination", "record", "fail", "forward", "comps",
                               "emit", "enqueue", "decide"}
    PROVE  Judged(t)'
  BY DEF Judged

\* The handler stays at its event: what is left to show of the phase it comes to.
LEMMA JudgedPhase ==
    ASSUME TypeInv, NEW h \in Handlers, HandlerStep(h) \/ Fail(h),
           NEW t, t = session'[h], Stays(session[h], t), NEW id, id = Current(h),
           NEW rejected, rejected = (t.rej.reason # "accepted"),
           t.pc = "items" =>
               (rejected <=> \E i \in LinesOf(id) : i < t.line /\ P(h).lines[i].sku \notin Items),
           t.pc = "destination" => ~ Unknown(id) /\ ~ rejected,
           t.pc \in {"record", "fail", "forward"} /\ P(h).kind = "TransferDispatched" =>
               (rejected <=> Bad(id)),
           t.pc \in {"comps", "emit", "enqueue", "decide"} => Fanned(id, t.rej.reason)'
    PROVE  Judged(session[h])'
  <1>1. id = <<t.node, t.cur>> /\ log' = log
    BY Alongside DEF Stays, Current
  <1>2. /\ E(t)' = P(h) /\ LinesOf(id)' = LinesOf(id) /\ Bad(id)' = Bad(id)
        /\ Unknown(id)' = Unknown(id)
    BY <1>1, BadStays DEF E, P, Payload, Current
  <1>. QED
    BY <1>1, <1>2 DEF Judged

LEMMA JudgedValidate ==
    ASSUME TypeInv, TransferInv, FanInv, NEW h \in Handlers, StoreEvent(h) \/ Validate(h)
    PROVE  Judged(session[h])'
  <1>1. PICK s, t, id : s = session[h] /\ t = session'[h] /\ id = Current(h)
    OBVIOUS
  <1>2. HandlerStep(h)
    BY DEF HandlerStep
  <1>3. s.pc \in Arbitrating
    BY <1>1, PhaseKinds DEF StoreEvent, Validate, CheckItem, CheckNote, ReadTotal, CheckOrder,
                            CheckDestination, CheckTransit, CheckFolded, Step, At
  <1>4. Fits(s) /\ E(s) = P(h) /\ P(h) \in Payloads /\ id = <<s.node, s.cur>>
        /\ P(h) = Payload(id) /\ Judged(s) /\ LinesOf(id) = DOMAIN P(h).lines
    BY <1>1, <1>3, Here, HereRecorded DEF FanInv, Current, LinesOf
  <1>5. ASSUME P(h).kind # "TransferDispatched", Stays(s, t),
               t.pc \notin {"items", "destination", "comps", "emit", "enqueue", "decide"}
        PROVE  Judged(session[h])'
    BY <1>1, <1>2, <1>5, JudgedPhase
  <1>6. LinesOf(id) = 1..Len(P(h).lines) /\ Len(P(h).lines) \in Nat
    BY <1>4, PayloadFields DEF LinesOf
  <1>7. CASE StoreEvent(h)
    <2>1. /\ Stays(s, t) /\ t.line = 1 /\ t.rej.reason = "accepted"
          /\ t.pc = IF P(h).kind = "Other" THEN "decide" ELSE "items"
      BY <1>1, <1>7, StoreEventDoes DEF NoRejection
    <2>2. CASE P(h).kind = "Other"
      <3>1. (Payload(id).kind = "Other")'
        BY <1>2, <1>4, <2>2, Alongside DEF Payload
      <3>2. Fanned(id, t.rej.reason)'
        BY <3>1 DEF Fanned
      <3>. QED
        BY <1>1, <1>2, <2>1, <2>2, <3>2, JudgedPhase
    <2>3. CASE P(h).kind # "Other"
      <3>1. \A i \in LinesOf(id) : ~ (i < t.line)
        BY <1>6, <2>1
      <3>. QED
        BY <1>1, <1>2, <2>1, <2>3, <3>1, JudgedPhase
    <2>. QED
      BY <2>2, <2>3
  <1>8. CASE CheckItem(h)
    <2>1. PICK rejected : rejected = (t.rej.reason # "accepted")
      OBVIOUS
    <2>2. /\ s.pc = "items" /\ Stays(s, t)
          /\ \/ s.line < Len(P(h).lines) /\ t.line = s.line + 1 /\ t.pc = "items"
             \/ /\ ~ (s.line < Len(P(h).lines)) /\ t.line = 1
                /\ t.pc = AfterItems(P(h).kind, rejected)
          /\ IF P(h).lines[s.line].sku \in Items THEN t.rej = s.rej
             ELSE t.rej.reason = "unknown_sku"
      BY <1>1, <1>8, <2>1, CheckItemDoes DEF Line
    <2>3. s.line \in 1..Len(P(h).lines)
      BY <1>1, <2>2, LineHere
    <2>4. (s.rej.reason # "accepted") <=>
            \E i \in LinesOf(id) : i < s.line /\ P(h).lines[i].sku \notin Items
      BY <1>4, <2>2 DEF Judged
    <2>5. rejected <=> \E i \in LinesOf(id) : i < s.line + 1 /\ P(h).lines[i].sku \notin Items
      <3>1. rejected <=> \/ s.rej.reason # "accepted"
                         \/ P(h).lines[s.line].sku \notin Items
        BY <2>1, <2>2
      <3>2. \A i \in LinesOf(id) : i < s.line + 1 <=> i < s.line \/ i = s.line
        BY <1>6, <2>3
      <3>. QED
        BY <1>6, <2>3, <2>4, <3>1, <3>2
    <2>6. CASE t.pc = "items" /\ t.line = s.line + 1
      BY <1>1, <1>2, <2>1, <2>2, <2>5, <2>6, JudgedPhase
    <2>7. CASE ~ (s.line < Len(P(h).lines)) /\ t.pc = AfterItems(P(h).kind, rejected)
      <3>1. \A i \in LinesOf(id) : i < s.line + 1
        BY <1>6, <2>3, <2>7
      <3>2. rejected <=> Unknown(id)
        BY <1>4, <2>5, <3>1 DEF Unknown
      <3>3. rejected \in BOOLEAN
        BY <2>1
      <3>4. CASE P(h).kind = "TransferDispatched"
        <4>1. t.pc = IF rejected THEN "record" ELSE "destination"
          BY <2>7, <3>4 DEF AfterItems
        <4>2. CASE rejected
          <5>1. Bad(id) /\ t.pc = "record"
            BY <3>2, <4>1, <4>2 DEF Bad
          <5>. QED
            BY <1>1, <1>2, <2>1, <2>2, <4>2, <5>1, JudgedPhase
        <4>3. CASE ~ rejected
          BY <1>1, <1>2, <2>1, <2>2, <3>2, <4>1, <4>3, JudgedPhase
        <4>. QED
          BY <4>2, <4>3
      <3>5. CASE P(h).kind # "TransferDispatched"
        <4>1. P(h).kind \in {"TransferReceived", "GoodsReceived"}
          BY <1>4, <2>2, <3>5, PayloadFields DEF Fits, KindFits
        <4>2. t.pc \in {"row", "transit", "record", "note"}
          BY <2>7, <3>3, <4>1 DEF AfterItems
        <4>. QED
          BY <1>5, <2>2, <3>5, <4>2
      <3>. QED
        BY <3>4, <3>5
    <2>. QED
      BY <2>2, <2>6, <2>7
  <1>9. CASE CheckNote(h) \/ ReadTotal(h) \/ CheckOrder(h)
    <2>1. P(h).kind = "GoodsReceived"
      BY <1>1, <1>4, <1>9 DEF CheckNote, ReadTotal, CheckOrder, Step, At, Fits, KindFits
    <2>2. Stays(s, t) /\ t.pc \in {"record", "total", "own"}
      <3>1. CASE CheckNote(h)
        BY <1>1, <3>1, CheckNoteDoes
      <3>2. CASE ReadTotal(h)
        <4>1. Stays(s, t) /\ t.pc = "own"
          BY <1>1, <3>2, ReadTotalDoes
        <4>. QED
          BY <4>1
      <3>3. CASE CheckOrder(h)
        BY <1>1, <3>3, CheckOrderDoes
      <3>. QED
        BY <1>9, <3>1, <3>2, <3>3
    <2>. QED
      BY <1>5, <2>1, <2>2
  <1>10. CASE CheckDestination(h)
    <2>1. /\ s.pc = "destination" /\ Stays(s, t) /\ t.pc = "record"
          /\ IF Refused(P(h)) THEN t.rej.reason = "transfer_rejected" ELSE t.rej = s.rej
      BY <1>1, <1>10, CheckDestinationDoes
    <2>2. ~ Unknown(id) /\ s.rej.reason = "accepted"
      BY <1>4, <2>1 DEF Judged
    <2>3. (t.rej.reason # "accepted") <=> Bad(id)
      BY <1>4, <2>1, <2>2 DEF Bad
    <2>. QED
      BY <1>1, <1>2, <2>1, <2>3, JudgedPhase
  <1>11. CASE CheckTransit(h)
    <2>1. Stays(s, t) /\ s.pc = "transit" /\ t.pc \in {"folded", "transit", "row"}
      BY <1>1, <1>11, CheckTransitDoes
    <2>2. P(h).kind = "TransferReceived"
      BY <1>4, <2>1 DEF Fits, KindFits
    <2>. QED
      BY <1>5, <2>1, <2>2
  <1>12. CASE CheckFolded(h)
    <2>1. Stays(s, t) /\ s.pc = "folded" /\ t.pc \in {"transit", "row"}
      BY <1>1, <1>12, CheckFoldedDoes
    <2>2. P(h).kind = "TransferReceived"
      BY <1>4, <2>1 DEF Fits, KindFits
    <2>. QED
      BY <1>5, <2>1, <2>2
  <1>. QED
    BY <1>7, <1>8, <1>9, <1>10, <1>11, <1>12 DEF Validate

LEMMA JudgedRecord ==
    ASSUME TypeInv, TransferInv, FanInv, OneDispatch, NEW h \in Handlers, Record(h)
    PROVE  Judged(session[h])'
  <1>1. PICK s, t, id : s = session[h] /\ t = session'[h] /\ id = Current(h)
    OBVIOUS
  <1>2. HandlerStep(h)
    BY DEF HandlerStep
  <1>3. s.pc \in Arbitrating
    BY <1>1, PhaseKinds DEF Record, RecordFact, RecordDispatchLine, KillTransfer, ReadRow,
                            FoldLine, ForwardDispatch, ForwardArrival, Step, At
  <1>4. /\ Fits(s) /\ E(s) = P(h) /\ id = <<s.node, s.cur>> /\ id \in Recorded
        /\ P(h) = Payload(id) /\ Judged(s) /\ Ships(s) /\ log' = log
        /\ LinesOf(id)' = LinesOf(id) /\ Bad(id)' = Bad(id) /\ Payload(id)' = Payload(id)
    BY <1>1, <1>2, <1>3, Here, HereRecorded, Alongside, BadStays
       DEF FanInv, Current, TransferInv
  <1>5. ASSUME P(h).kind # "TransferDispatched", Stays(s, t),
               t.pc \notin {"items", "destination", "comps", "emit", "enqueue", "decide"}
        PROVE  Judged(session[h])'
    BY <1>1, <1>2, <1>5, JudgedPhase
  <1>6. ASSUME Stays(s, t), t.pc \in {"comps", "decide"}, Fanned(id, t.rej.reason)'
        PROVE  Judged(session[h])'
    BY <1>1, <1>2, <1>6, JudgedPhase
  <1>7. CASE RecordFact(h)
    <2>1. Stays(s, t) /\ P(h).kind = "GoodsReceived" /\ t.pc \in {"comps", "decide"}
      BY <1>1, <1>7, RecordFactDoes
    <2>2. Fanned(id, t.rej.reason)'
      BY <1>4, <2>1 DEF Fanned
    <2>. QED
      BY <1>6, <2>1, <2>2
  <1>8. CASE RecordDispatchLine(h)
    <2>1. /\ s.pc = "record" /\ P(h).kind = "TransferDispatched"
          /\ Stays(s, t) /\ t.rej = s.rej
          /\ t.pc \in {"record", "fail", "forward"}
      BY <1>1, <1>8, RecordDispatchLineDoes
    <2>2. (t.rej.reason # "accepted") <=> Bad(id)
      BY <1>4, <2>1 DEF Judged
    <2>. QED
      BY <1>1, <1>2, <2>1, <2>2, JudgedPhase
  <1>9. CASE KillTransfer(h)
    <2>1. /\ s.pc = "fail" /\ FailTransfer(P(h).transfer)
          /\ Stays(s, t) /\ t.rej = s.rej /\ t.pc = "comps"
      BY <1>1, <1>9, KillTransferDoes
    <2>2. P(h).kind = "TransferDispatched" /\ t.rej.reason # "accepted"
      BY <1>4, <2>1 DEF Fits, KindFits, RejectionFits
    <2>3. Bad(id) /\ Shipped(id)
      BY <1>4, <2>1, <2>2 DEF Judged, Ships
    <2>4. ASSUME NEW i \in LinesOf(id) PROVE RowOf(id, i)'.failed
      <3>1. PICK key \in Transfers \X SKUs :
              key = <<Payload(id).transfer, Payload(id).lines[i].sku>>
        BY <1>4, <2>2, DispatchLines
      <3>2. transit[key] # NoRow /\ key[1] = P(h).transfer
        BY <1>4, <2>3, <3>1 DEF Shipped, LineShipped, RowOf, InTransit
      <3>3. transit \in [Transfers \X SKUs -> Rows]
        BY DEF TypeInv, TypeOK, StoreTypeOK, Rows
      <3>4. transit'[key] = [transit[key] EXCEPT !.failed = TRUE] /\ transit[key] \in Rows
        BY <2>1, <3>1, <3>2, <3>3 DEF FailTransfer
      <3>5. transit'[key].failed
        BY <3>4 DEF Rows
      <3>. QED
        BY <1>4, <3>1, <3>5 DEF RowOf, InTransit
    <2>5. Failed(id)'
      BY <1>4, <2>4 DEF Failed
    <2>6. Fanned(id, t.rej.reason)'
      BY <1>4, <2>2, <2>3, <2>5 DEF Fanned
    <2>. QED
      BY <1>6, <2>1, <2>6
  <1>10. CASE ReadRow(h)
    <2>1. Stays(s, t) /\ s.pc = "row" /\ t.pc \in {"fold", "row", "forward"}
      BY <1>1, <1>10, ReadRowDoes
    <2>2. P(h).kind = "TransferReceived"
      BY <1>4, <2>1 DEF Fits, KindFits
    <2>. QED
      BY <1>5, <2>1, <2>2
  <1>11. CASE FoldLine(h)
    <2>1. Stays(s, t) /\ s.pc = "fold" /\ t.pc \in {"row", "forward"}
      BY <1>1, <1>11, FoldLineDoes
    <2>2. P(h).kind = "TransferReceived"
      BY <1>4, <2>1 DEF Fits, KindFits
    <2>. QED
      BY <1>5, <2>1, <2>2
  <1>12. CASE ForwardDispatch(h)
    <2>1. /\ s.pc = "forward" /\ P(h).kind = "TransferDispatched"
          /\ Enqueue(P(h).to, EventRef(id)) /\ Stays(s, t) /\ t.rej = s.rej /\ t.pc = "decide"
      BY <1>1, <1>12, ForwardDispatchDoes
    <2>2. t.rej.reason = "accepted" /\ ~ Bad(id)
      BY <1>4, <2>1 DEF Judged, Ships
    <2>3. Payload(id).to \in Nodes /\ outbound \in [Nodes -> SUBSET Envelopes]
      BY <1>4, <2>1, DestinationNode DEF TypeInv, TypeOK, StoreTypeOK
    <2>4. EventRef(id) \in outbound'[Payload(id).to]
      BY <1>4, <2>1, <2>3 DEF Enqueue
    <2>5. Fanned(id, t.rej.reason)'
      BY <1>4, <2>1, <2>2, <2>4 DEF Fanned
    <2>. QED
      BY <1>6, <2>1, <2>5
  <1>13. CASE ForwardArrival(h)
    <2>1. /\ s.pc = "forward" /\ P(h).kind = "TransferReceived" /\ Stays(s, t)
          /\ t.pc \in {"comps", "decide"}
          /\ UNCHANGED <<logVars, receiptVars, transitVars, pushed>>
          /\ \/ \A i \in LinesOf(id) : RowOf(id, i) = NoRow
             \/ \E i \in LinesOf(id) :
                   RowOf(id, i) # NoRow /\ Enqueue(RowOf(id, i).from, EventRef(id))
      <3>1. /\ s.pc = "forward" /\ P(h).kind = "TransferReceived" /\ Stays(s, t)
            /\ UNCHANGED <<logVars, receiptVars, transitVars, pushed>>
            /\ t.pc = IF s.rej.reason # "accepted" THEN "comps" ELSE "decide"
        BY <1>1, <1>13, ForwardArrivalDoes
      <3>2. \/ \A i \in DOMAIN P(h).lines :
                  InTransit(P(h).transfer, P(h).lines[i].sku) = NoRow
            \/ \E i \in DOMAIN P(h).lines :
                  /\ InTransit(P(h).transfer, P(h).lines[i].sku) # NoRow
                  /\ Enqueue(InTransit(P(h).transfer, P(h).lines[i].sku).from,
                             EventRef(Current(h)))
        BY <1>13, ForwardArrivalDoes
      <3>3. LinesOf(id) = DOMAIN P(h).lines
            /\ \A i : RowOf(id, i) = InTransit(P(h).transfer, P(h).lines[i].sku)
        BY <1>4 DEF LinesOf, RowOf
      <3>4. \/ \A i \in LinesOf(id) : RowOf(id, i) = NoRow
            \/ \E i \in LinesOf(id) :
                  RowOf(id, i) # NoRow /\ Enqueue(RowOf(id, i).from, EventRef(id))
        BY <1>1, <3>2, <3>3
      <3>. QED
        BY <3>1, <3>4
    <2>2. Known(id) /\ id[1] \in Nodes
      <3>1. s.cur \in s.cur..s.last
        BY <1>1, <1>3, Here DEF Sessions
      <3>. QED
        BY <1>3, <1>4, <3>1 DEF Ships, Recorded, Ids
    <2>3. PICK d \in Recorded : /\ Payload(d).kind = "TransferDispatched"
                                /\ Payload(d).transfer = Payload(id).transfer
      BY <1>4, <2>1, <2>2, KnownDispatch
    <2>4. ASSUME NEW i \in LinesOf(id), RowOf(id, i) # NoRow
          PROVE  RowOf(id, i).from = d[1]
      <3>1. PICK key \in Transfers \X SKUs :
              key = <<Payload(id).transfer, Payload(id).lines[i].sku>>
        BY <1>4, <2>1, DispatchLines
      <3>2. PICK b \in Recorded : MadeBy(key, b)
        BY <2>4, <3>1 DEF RowOf, InTransit, TransferInv, RowsReal, TypeInv, TypeOK, StoreTypeOK
      <3>3. log[d[1]][d[2]].transfer = log[b[1]][b[2]].transfer
        BY <2>3, <3>1, <3>2 DEF MadeBy, Payload
      <3>4. DispatchIn(log, b) /\ DispatchIn(log, d) /\ log \in Workloads
            /\ b \in Ids /\ d \in Ids
        BY <2>3, <3>2 DEF DispatchIn, MadeBy, Recorded, Payload, TypeInv, TypeOK
      <3>5. b = d
        BY <3>3, <3>4 DEF OneDispatch
      <3>. QED
        BY <3>1, <3>2, <3>5 DEF MadeBy, RowOf, InTransit
    <2>5. ASSUME NEW i \in LinesOf(id), RowOf(id, i) # NoRow
          PROVE  EventRef(id) \in outbound'[RowOf(id, i).from]
      <3>1. Enqueue(d[1], EventRef(id))
        BY <2>1, <2>4, <2>5
      <3>2. d[1] \in Nodes /\ outbound \in [Nodes -> SUBSET Envelopes]
        BY <2>3 DEF Recorded, Ids, TypeInv, TypeOK, StoreTypeOK
      <3>3. EventRef(id) \in outbound'[d[1]]
        BY <3>1, <3>2 DEF Enqueue
      <3>. QED
        BY <2>4, <2>5, <3>3
    <2>6. Told(id)'
      <3>1. \A i : RowOf(id, i)' = RowOf(id, i)
        BY <1>4, <2>1 DEF RowOf, InTransit, transitVars
      <3>. QED
        BY <1>4, <2>5, <3>1 DEF Told
    <2>7. Known(id)'
      BY <1>2, <2>2, KnownStays
    <2>8. Fanned(id, t.rej.reason)'
      BY <1>4, <2>1, <2>6, <2>7 DEF Fanned
    <2>. QED
      BY <1>6, <2>1, <2>8
  <1>. QED
    BY <1>7, <1>8, <1>9, <1>10, <1>11, <1>12, <1>13 DEF Record

LEMMA JudgedSettle ==
    ASSUME TypeInv, TransferInv, FanInv, OneDispatch, NEW h \in Handlers,
           ReadCompensations(h) \/ Emit(h) \/ EnqueueCompensation(h)
    PROVE  Judged(session[h])'
  <1>1. PICK s, t, id : s = session[h] /\ t = session'[h] /\ id = Current(h)
    OBVIOUS
  <1>2. HandlerStep(h) /\ IdleSession.pc = "idle"
    BY DEF HandlerStep, Settle, IdleSession
  <1>3. s.pc \in {"comps", "emit", "enqueue"}
    BY <1>1 DEF ReadCompensations, Emit, EnqueueCompensation, Step, At
  <1>4. t = IdleSession \/ (Stays(s, t) /\ t.rej = s.rej /\ t.pc \in {"emit", "enqueue", "decide"})
    <2>1. CASE ReadCompensations(h)
      <3>1. End(h) => t = IdleSession
        BY <1>1, Becomes DEF End
      <3>. QED
        BY <1>1, <2>1, <3>1, ReadCompensationsDoes
    <2>2. CASE Emit(h)
      BY <1>1, <2>2, EmitDoes
    <2>3. CASE EnqueueCompensation(h)
      BY <1>1, <2>3, EnqueueCompensationDoes
    <2>. QED
      BY <2>1, <2>2, <2>3
  <1>5. CASE t = IdleSession
    BY <1>1, <1>2, <1>5, JudgedElsewhere
  <1>6. CASE Stays(s, t) /\ t.rej = s.rej /\ t.pc \in {"emit", "enqueue", "decide"}
    <2>1. Fanned(id, s.rej.reason) /\ id \in Recorded
      BY <1>1, <1>3, HereRecorded, PhaseKinds DEF FanInv, Judged, Current
    <2>2. Fanned(id, s.rej.reason)'
      BY <1>2, <2>1, FannedStays
    <2>. QED
      BY <1>1, <1>2, <1>6, <2>2, JudgedPhase
  <1>. QED
    BY <1>4, <1>5, <1>6

LEMMA JudgedEnds ==
    ASSUME TypeInv, NEW h \in Handlers,
           \/ ReceiveBatch(h) \/ ReadDecision(h) \/ Decide(h)
           \/ StorePushed(h) \/ Ack(h) \/ End(h)
    PROVE  Judged(session[h])'
  <1>1. PICK s, t : s = session[h] /\ t = session'[h]
    OBVIOUS
  <1>2. t.pc \in {"decision", "append", "setpushed", "ack", "receive", "idle"}
    <2>1. CASE ReceiveBatch(h)
      BY <1>1, <2>1, ReceiveBatchDoes
    <2>2. CASE NextEvent(h)
      BY <1>1, <2>2, NextEventDoes
    <2>3. CASE ReadDecision(h)
      BY <1>1, <2>2, <2>3, ReadDecisionDoes
    <2>4. CASE StorePushed(h) \/ Ack(h) \/ End(h)
      BY <1>1, <2>4, LeaveDoes DEF IdleSession
    <2>. QED
      BY <2>1, <2>2, <2>3, <2>4 DEF Decide
  <1>. QED
    BY <1>1, <1>2, JudgedElsewhere

-----------------------------------------------------------------------------
(* The invariant *)

LEMMA FanHandlerStep ==
    ASSUME TypeInv, TransferInv, FanInv, OneDispatch, NEW h \in Handlers,
           HandlerStep(h) \/ Fail(h)
    PROVE  FanInv'
  <1>1. log' = log /\ Recorded' = Recorded
    BY Alongside DEF Recorded
  <1>2. \A g \in Handlers : Judged(session[g])'
    <2>1. Judged(session[h])'
      BY JudgedValidate, JudgedRecord, JudgedSettle, JudgedEnds
         DEF HandlerStep, Settle, Notice, Fail
    <2>. QED
      BY <2>1, JudgedOthers
  <1>3. ASSUME NEW n \in Nodes, NEW id \in Ids, EventRef(id) \in outbound'[n],
               Payload(id).kind = "TransferDispatched"
        PROVE  ~ Bad(id)
    BY <1>3, AnnouncedStaysGood
  <1>4. ASSUME NEW id \in Recorded, Decided(id)' PROVE Fanned(id, decisions[id])'
    <2>1. CASE decisions'[id] = decisions[id]
      <3>1. PICK verdict : verdict = decisions[id]
        OBVIOUS
      <3>2. Fanned(id, verdict)
        BY <1>4, <2>1, <3>1 DEF FanInv, Decided
      <3>3. Fanned(id, verdict)'
        BY <3>2, FannedStays
      <3>. QED
        BY <2>1, <3>1, <3>3
    <2>2. CASE decisions'[id] # decisions[id]
      <3>1. PICK s, verdict : s = session[h] /\ verdict = s.rej.reason
        OBVIOUS
      <3>2. Decide(h)
        BY <2>2, DecisionsAfter
      <3>3. s.pc = "decide" /\ decisions' = [decisions EXCEPT ![Current(h)] = verdict]
        BY <3>1, <3>2, DecideDoes
      <3>4. id = Current(h) /\ decisions'[id] = verdict
        BY <1>4, <2>2, <3>3 DEF TypeInv, TypeOK, StoreTypeOK, Recorded
      <3>5. Fanned(id, verdict)
        BY <3>1, <3>3, <3>4 DEF FanInv, Judged, Current
      <3>6. Fanned(id, verdict)'
        BY <3>5, FannedStays
      <3>. QED
        BY <3>4, <3>6
    <2>. QED
      BY <2>1, <2>2
  <1>5. \A id : Bad(id)' = Bad(id) /\ Payload(id)' = Payload(id)
    BY <1>1, BadStays
  <1>. QED
    BY <1>1, <1>2, <1>3, <1>4, <1>5 DEF FanInv

LEMMA FanInvInit == ASSUME Init PROVE FanInv
  <1>1. \A n \in Nodes : outbound[n] = {}
    BY DEF Init, StoreInit
  <1>2. \A id \in Recorded : ~ Decided(id)
    BY DEF Init, StoreInit, Recorded, Decided
  <1>3. \A h \in Handlers : session[h] = IdleSession
    BY DEF Init
  <1>4. Judged(IdleSession)
    BY DEF IdleSession, Judged
  <1>. QED
    BY <1>1, <1>2, <1>3, <1>4 DEF FanInv

LEMMA FanIdle ==
    ASSUME FanInv, UNCHANGED storeVars, log' = log,
           \A g \in Handlers : session'[g] = session[g] \/ session'[g].pc = "receive"
    PROVE  FanInv'
  <1>1. UNCHANGED <<decisions, transit, outbound>>
    BY DEF storeVars
  <1>2. \A id : Bad(id)' = Bad(id) /\ Payload(id)' = Payload(id) /\ LinesOf(id)' = LinesOf(id)
                /\ Unknown(id)' = Unknown(id)
    BY BadStays
  <1>3. \A id, verdict : Fanned(id, verdict)' = Fanned(id, verdict)
    <2>1. \A id : /\ Failed(id)' = Failed(id) /\ Told(id)' = Told(id) /\ Known(id)' = Known(id)
      BY <1>1 DEF Failed, Told, Known, CanRecord, RowOf, InTransit, LinesOf, Payload
    <2>. QED
      BY <1>1, <1>2, <2>1 DEF Fanned
  <1>4. \A g \in Handlers : Judged(session[g])'
    <2>1. ASSUME NEW g \in Handlers, session'[g] = session[g] PROVE Judged(session[g])'
      <3>1. PICK s : s = session[g]
        OBVIOUS
      <3>2. Judged(s) /\ E(s)' = E(s)
        BY <3>1 DEF FanInv, E, Payload
      <3>. QED
        BY <1>2, <1>3, <2>1, <3>1, <3>2 DEF Judged
    <2>2. ASSUME NEW g \in Handlers, session'[g].pc = "receive" PROVE Judged(session[g])'
      BY <2>2, JudgedElsewhere
    <2>. QED
      BY <2>1, <2>2
  <1>5. Recorded' = Recorded /\ \A id : Decided(id)' = Decided(id)
    BY <1>1 DEF Recorded, Decided
  <1>. QED
    BY <1>1, <1>2, <1>3, <1>4, <1>5 DEF FanInv

LEMMA FanInvNext ==
    ASSUME TypeInv, TransferInv, FanInv, OneDispatch, [Next]_vars
    PROVE  FanInv'
  <1>1. ASSUME NEW h \in Handlers, NEW n \in Nodes, Open(h, n) PROVE FanInv'
    <2>. DEFINE t == [IdleSession EXCEPT !.pc = "receive", !.node = n, !.last = Resume(n)]
    <2>1. t.pc = "receive"
      BY DEF IdleSession
    <2>2. UNCHANGED storeVars /\ log' = log /\ Become(h, t)
      BY <1>1 DEF Open, nodeVars
    <2>. HIDE DEF t
    <2>3. \A g \in Handlers : session'[g] = IF g = h THEN t ELSE session[g]
      BY <2>2 DEF Become, TypeInv, TypeOK
    <2>. QED
      BY <2>1, <2>2, <2>3, FanIdle
  <1>2. ASSUME NEW h \in Handlers, HandlerStep(h) \/ Fail(h) PROVE FanInv'
    BY <1>2, FanHandlerStep
  <1>3. ASSUME NEW n \in Nodes, Detach(n) PROVE FanInv'
    BY <1>3, FanIdle DEF Detach, nodeVars
  <1>4. CASE UNCHANGED vars
    BY <1>4, FanIdle DEF vars
  <1>. QED
    BY <1>1, <1>2, <1>3, <1>4 DEF Next

LEMMA FanSuffices == ASSUME TypeInv, FanInv PROVE TransferFannedOut
  <1>1. ASSUME NEW id \in OfKind("TransferDispatched"), Decided(id)
        PROVE  /\ EventRef(id) \in outbound[Payload(id).to] <=> decisions[id] = "accepted"
               /\ IsRejected(id) => \A i \in LinesOf(id) :
                    transit[<<Payload(id).transfer, Payload(id).lines[i].sku>>].failed
    <2>1. id \in Recorded /\ id \in Ids /\ Payload(id).kind = "TransferDispatched"
      BY DEF OfKind, Recorded
    <2>2. \/ decisions[id] # "accepted" /\ Bad(id) /\ Failed(id)
          \/ decisions[id] = "accepted" /\ EventRef(id) \in outbound[Payload(id).to]
      BY <1>1, <2>1 DEF FanInv, Fanned
    <2>3. EventRef(id) \in outbound[Payload(id).to] => ~ Bad(id)
      BY <2>1, DestinationNode DEF FanInv
    <2>4. Failed(id) => \A i \in LinesOf(id) :
                          transit[<<Payload(id).transfer, Payload(id).lines[i].sku>>].failed
      BY DEF Failed, RowOf, InTransit
    <2>. QED
      BY <2>2, <2>3, <2>4 DEF IsRejected, Reasons
  <1>2. ASSUME NEW id \in OfKind("TransferReceived"), Decided(id)
        PROVE  Told(id)
    BY <1>2 DEF OfKind, FanInv, Fanned
  <1>3. \A id \in OfKind("TransferReceived") : Decided(id) =>
          \A i \in LinesOf(id) :
            LET row == transit[<<Payload(id).transfer, Payload(id).lines[i].sku>>]
            IN row # NoRow => EventRef(id) \in outbound[row.from]
    BY <1>2 DEF Told, RowOf, InTransit
  <1>. QED
    BY <1>1, <1>3 DEF TransferFannedOut

\* Both ends of a transfer learn of it, whichever session fails, is retried or overlaps
\* with another: the destination of a decided dispatch has it queued exactly if it was
\* accepted, the rows of a rejected one are dead, and the source has every decided
\* arrival of its goods queued (fanOut in arbiter.go).
THEOREM TransferFannedOutCorrect ==
    ASSUME OneDispatch PROVE Spec => []TransferFannedOut
  <1>. DEFINE Inv == TypeInv /\ TransferInv /\ FanInv
  <1>1. Init => Inv
    BY TypeInvInit, TransferInvInit, FanInvInit
  <1>2. Inv /\ [Next]_vars => Inv'
    BY TypeInvNext, TransferInvNext, FanInvNext
  <1>3. Inv => TransferFannedOut
    BY FanSuffices
  <1>. QED
    BY <1>1, <1>2, <1>3, PTL DEF Spec

-----------------------------------------------------------------------------
(* Sums over a finite set *)

LEMMA AllNumbers ==
    ASSUME NEW M \in SUBSET Nat, 0 \in M, \A n \in M : n + 1 \in M
    PROVE  M = Nat
  <1> SUFFICES ASSUME M # Nat PROVE FALSE
    OBVIOUS
  <1>1. Nat \ M # {} /\ Nat \ M \subseteq Nat
    OBVIOUS
  <1>2. PICK n \in Nat \ M : \A k \in Nat \ M : ~ (<<k, n>> \in OpToRel(<, Nat))
    BY <1>1, NatLessThanWellFounded, WFMin
  <1>3. \A k \in Nat : k < n => k \in M
    BY <1>2 DEF OpToRel
  <1>4. n \in Nat /\ n \notin M
    OBVIOUS
  <1>5. n # 0
    BY <1>4
  <1>6. n - 1 \in M /\ (n - 1) + 1 = n
    BY <1>3, <1>4, <1>5
  <1> QED BY <1>4, <1>6

\* A function of the subsets of a finite set, defined by taking one element away at a time.
Recursion(it, S, base, G, c) ==
    \A s \in SUBSET S : it[s] = IF s = {} THEN base ELSE G[<<s, it[s \ {c[s]}]>>]

LEMMA RecursionExists ==
    ASSUME NEW S, IsFiniteSet(S), NEW V, NEW base \in V, NEW G \in [(SUBSET S) \X V -> V],
           NEW c, \A s \in SUBSET S : s # {} => c[s] \in s
    PROVE  \E it \in [SUBSET S -> V] : Recursion(it, S, base, G, c)
  <1> DEFINE Upto(k) == {s \in SUBSET S : Cardinality(s) <= k}
             Rec(it, k) == \A s \in Upto(k) :
                              it[s] = IF s = {} THEN base ELSE G[<<s, it[s \ {c[s]}]>>]
             M == {k \in Nat : \E it \in [Upto(k) -> V] : Rec(it, k)}
  <1>1. \A s \in SUBSET S :
           IsFiniteSet(s) /\ Cardinality(s) \in Nat /\ (Cardinality(s) = 0 <=> s = {})
    BY FS_Subset, FS_CardinalityType, FS_EmptySet
  <1>2. \A s \in SUBSET S : s # {} => /\ s \ {c[s]} \in SUBSET S
                                      /\ Cardinality(s \ {c[s]}) = Cardinality(s) - 1
    BY <1>1, FS_RemoveElement
  <1>3. 0 \in M
    <2> DEFINE it == [s \in Upto(0) |-> base]
    <2>1. \A s \in Upto(0) : s = {}
      BY <1>1
    <2>2. it \in [Upto(0) -> V] /\ Rec(it, 0)
      BY <2>1
    <2> QED BY <2>2
  <1>4. ASSUME NEW k \in M PROVE k + 1 \in M
    <2>1. k \in Nat
      OBVIOUS
    <2>2. PICK it \in [Upto(k) -> V] : Rec(it, k)
      OBVIOUS
    <2> DEFINE W == Upto(k + 1)
               new == [s \in W |-> IF s = {} THEN base ELSE G[<<s, it[s \ {c[s]}]>>]]
    <2>3. /\ \A s \in W : s \in SUBSET S /\ (s # {} => s \ {c[s]} \in Upto(k))
          /\ \A s \in Upto(k) : s \in W
      BY <1>1, <1>2, <2>1
    <2>4. \A s \in Upto(k) : it[s] = IF s = {} THEN base ELSE G[<<s, it[s \ {c[s]}]>>]
      BY <2>2
    <2> HIDE DEF Upto, Rec, M, W
    <2>5. \A s \in W : new[s] \in V
      BY <2>2, <2>3
    <2>6. \A s \in Upto(k) : new[s] = it[s]
      BY <2>3, <2>4
    <2>7. \A s \in W : new[s] = IF s = {} THEN base ELSE G[<<s, new[s \ {c[s]}]>>]
      <3> SUFFICES ASSUME NEW s \in W
                   PROVE  new[s] = IF s = {} THEN base ELSE G[<<s, new[s \ {c[s]}]>>]
        OBVIOUS
      <3>1. s # {} => new[s \ {c[s]}] = it[s \ {c[s]}]
        BY <2>3, <2>6
      <3>2. new[s] = IF s = {} THEN base ELSE G[<<s, it[s \ {c[s]}]>>]
        OBVIOUS
      <3> HIDE DEF new
      <3> QED BY <3>1, <3>2
    <2>8. new \in [W -> V]
      BY <2>5
    <2> HIDE DEF new
    <2>9. new \in [Upto(k + 1) -> V] /\ Rec(new, k + 1)
      BY <2>7, <2>8 DEF W, Rec
    <2> QED BY <2>1, <2>9 DEF M
  <1>5. M \in SUBSET Nat
    OBVIOUS
  <1>6. Cardinality(S) \in Nat /\ Upto(Cardinality(S)) = SUBSET S
    BY <1>1, FS_Subset
  <1>7. Cardinality(S) \in M
    <2> HIDE DEF M
    <2>1. M = Nat
      BY <1>3, <1>4, <1>5, AllNumbers
    <2> QED BY <1>6, <2>1
  <1> QED BY <1>6, <1>7 DEF Recursion


\* What the events of a set have folded into the row of a SKU, added up.
Adding(it, S, fld, sku) ==
    it = [s \in SUBSET S |->
            IF s = {} THEN 0
            ELSE fld[<<CHOOSE x \in s : TRUE, sku>>] + it[s \ {CHOOSE x \in s : TRUE}]]
Sum(S, fld, sku) == (CHOOSE it : Adding(it, S, fld, sku))[S]

LEMMA AddingExists ==
    ASSUME NEW S, IsFiniteSet(S), NEW fld, NEW sku, \A x \in S : fld[<<x, sku>>] \in Nat
    PROVE  \E it : it \in [SUBSET S -> Nat] /\ Adding(it, S, fld, sku)
  <1>. DEFINE c == [s \in SUBSET S |-> CHOOSE x \in s : TRUE]
              G == [p \in (SUBSET S) \X Nat |->
                       IF p[1] = {} THEN 0 ELSE fld[<<c[p[1]], sku>>] + p[2]]
  <1>1. \A s \in SUBSET S : s # {} => c[s] = (CHOOSE x \in s : TRUE) /\ c[s] \in s
    OBVIOUS
  <1>2. G \in [(SUBSET S) \X Nat -> Nat]
    <2>1. ASSUME NEW s \in SUBSET S, NEW v \in Nat, s # {} PROVE fld[<<c[s], sku>>] + v \in Nat
      <3>1. c[s] \in S
        BY <1>1, <2>1
      <3>. HIDE DEF c
      <3>. QED
        BY <3>1
    <2>. HIDE DEF c
    <2>. QED
      BY <2>1
  <1>3. \A s \in SUBSET S : \A v \in Nat : s # {} => G[<<s, v>>] = fld[<<c[s], sku>>] + v
    OBVIOUS
  <1>. HIDE DEF G, c
  <1>4. PICK it \in [SUBSET S -> Nat] : Recursion(it, S, 0, G, c)
    <2>1. 0 \in Nat
      OBVIOUS
    <2>. QED
      BY <1>1, <1>2, <2>1, RecursionExists
  <1>5. ASSUME NEW s \in SUBSET S
        PROVE  it[s] = IF s = {} THEN 0
                       ELSE fld[<<CHOOSE x \in s : TRUE, sku>>] + it[s \ {CHOOSE x \in s : TRUE}]
    <2>1. it[s] = IF s = {} THEN 0 ELSE G[<<s, it[s \ {c[s]}]>>]
      BY <1>4 DEF Recursion
    <2>2. s \ {c[s]} \in SUBSET S /\ it[s \ {c[s]}] \in Nat
      BY <1>4
    <2>3. s # {} => it[s] = fld[<<c[s], sku>>] + it[s \ {c[s]}]
      BY <1>3, <2>1, <2>2
    <2>. QED
      BY <1>1, <2>1, <2>3
  <1>6. Adding(it, S, fld, sku)
    BY <1>4, <1>5 DEF Adding
  <1>. QED
    BY <1>4, <1>6

\* A property of the subsets of a finite set that grows with the set.
Growing(Q, S, c) ==
    /\ Q \in SUBSET (SUBSET S) /\ {} \in Q
    /\ \A s \in SUBSET S : s # {} => c[s] \in s /\ (s \ {c[s]} \in Q => s \in Q)

LEMMA Induct ==
    ASSUME NEW S, IsFiniteSet(S), NEW Q, NEW c, Growing(Q, S, c)
    PROVE  S \in Q
  <1>. USE DEF Growing
  <1>. DEFINE M == {k \in Nat : \A s \in SUBSET S : Cardinality(s) = k => s \in Q}
  <1>1. \A s \in SUBSET S :
           IsFiniteSet(s) /\ Cardinality(s) \in Nat /\ (Cardinality(s) = 0 <=> s = {})
    BY FS_Subset, FS_CardinalityType, FS_EmptySet
  <1>2. \A s \in SUBSET S : s # {} => /\ s \ {c[s]} \in SUBSET S
                                      /\ Cardinality(s \ {c[s]}) = Cardinality(s) - 1
    <2>. SUFFICES ASSUME NEW s \in SUBSET S, s # {}
                  PROVE  /\ s \ {c[s]} \in SUBSET S
                         /\ Cardinality(s \ {c[s]}) = Cardinality(s) - 1
      OBVIOUS
    <2>1. IsFiniteSet(s) /\ c[s] \in s
      BY <1>1
    <2>. QED
      BY <2>1, FS_RemoveElement
  <1>3. 0 \in M
    BY <1>1
  <1>4. ASSUME NEW k \in M PROVE k + 1 \in M
    <2>1. k \in Nat /\ \A s \in SUBSET S : Cardinality(s) = k => s \in Q
      OBVIOUS
    <2>2. ASSUME NEW s \in SUBSET S, Cardinality(s) = k + 1 PROVE s \in Q
      <3>1. s # {}
        BY <1>1, <2>1, <2>2
      <3>2. s \ {c[s]} \in SUBSET S /\ Cardinality(s \ {c[s]}) = k
        BY <1>2, <2>1, <2>2, <3>1
      <3>. QED
        BY <2>1, <3>1, <3>2
    <2>. QED
      BY <2>1, <2>2
  <1>5. M \in SUBSET Nat
    OBVIOUS
  <1>6. M = Nat
    <2>. HIDE DEF M
    <2>. QED
      BY <1>3, <1>4, <1>5, AllNumbers
  <1>7. S \in SUBSET S /\ Cardinality(S) \in Nat
    BY <1>1
  <1>. QED
    BY <1>6, <1>7

\* The sums of the subsets of S, and of S itself.
Summing(it, S, fld, sku) ==
    /\ it \in [SUBSET S -> Nat]
    /\ Sum(S, fld, sku) = it[S]
    /\ it[{}] = 0
    /\ \A s \in SUBSET S : s # {} =>
         it[s] = fld[<<CHOOSE x \in s : TRUE, sku>>] + it[s \ {CHOOSE x \in s : TRUE}]

LEMMA SumFacts ==
    ASSUME NEW S, IsFiniteSet(S), NEW fld, NEW sku, \A x \in S : fld[<<x, sku>>] \in Nat
    PROVE  \E it : Summing(it, S, fld, sku)
  <1>. DEFINE it == CHOOSE it : Adding(it, S, fld, sku)
  <1>1. PICK jt : jt \in [SUBSET S -> Nat] /\ Adding(jt, S, fld, sku)
    BY AddingExists
  <1>2. Adding(it, S, fld, sku)
    BY <1>1
  <1>3. Sum(S, fld, sku) = it[S]
    BY DEF Sum
  <1>. HIDE DEF it
  <1>4. /\ DOMAIN it = SUBSET S /\ it = [s \in SUBSET S |-> it[s]]
        /\ it[{}] = 0
        /\ \A s \in SUBSET S : s # {} =>
             it[s] = fld[<<CHOOSE x \in s : TRUE, sku>>] + it[s \ {CHOOSE x \in s : TRUE}]
    BY <1>2 DEF Adding
  <1>5. \A s \in SUBSET S : it[s] \in Nat
    <2>. DEFINE Q == {s \in SUBSET S : it[s] \in Nat}
                c == [s \in SUBSET S |-> CHOOSE x \in s : TRUE]
    <2>1. \A s \in SUBSET S : s # {} => c[s] = (CHOOSE x \in s : TRUE) /\ c[s] \in s
      OBVIOUS
    <2>2. ASSUME NEW s \in SUBSET S, s # {}, s \ {c[s]} \in Q PROVE s \in Q
      <3>1. it[s] = fld[<<c[s], sku>>] + it[s \ {c[s]}] /\ c[s] \in S
        BY <1>4, <2>1, <2>2
      <3>. QED
        BY <2>2, <3>1
    <2>3. {} \in Q /\ Q \in SUBSET (SUBSET S)
      BY <1>4
    <2>. HIDE DEF c
    <2>4. ASSUME NEW T \in SUBSET S PROVE it[T] \in Nat
      <3>1. IsFiniteSet(T)
        BY FS_Subset
      <3>. DEFINE R == {s \in SUBSET T : s \in Q}
      <3>2. Growing(R, T, c)
        BY <2>1, <2>2, <2>3 DEF Growing
      <3>. HIDE DEF R
      <3>3. T \in R
        BY <3>1, <3>2, Induct
      <3>. QED
        BY <3>3 DEF R
    <2>. QED
      BY <2>4
  <1>6. it \in [SUBSET S -> Nat]
    BY <1>4, <1>5
  <1>7. Summing(it, S, fld, sku)
    BY <1>3, <1>4, <1>6 DEF Summing
  <1>. QED
    BY <1>7

LEMMA SumZero ==
    ASSUME NEW S, IsFiniteSet(S), NEW fld, NEW sku, \A x \in S : fld[<<x, sku>>] = 0
    PROVE  Sum(S, fld, sku) = 0
  <1>0. \A x \in S : fld[<<x, sku>>] \in Nat
    OBVIOUS
  <1>1. PICK it : Summing(it, S, fld, sku)
    BY <1>0, SumFacts
  <1>. DEFINE Q == {s \in SUBSET S : it[s] = 0}
              c == [s \in SUBSET S |-> CHOOSE x \in s : TRUE]
  <1>2. \A s \in SUBSET S : s # {} => c[s] = (CHOOSE x \in s : TRUE) /\ c[s] \in s
    OBVIOUS
  <1>3. ASSUME NEW s \in SUBSET S, s # {}, s \ {c[s]} \in Q PROVE s \in Q
    <2>1. it[s] = fld[<<c[s], sku>>] + it[s \ {c[s]}] /\ c[s] \in S
      BY <1>1, <1>2, <1>3 DEF Summing
    <2>. QED
      BY <1>3, <2>1
  <1>4. {} \in Q /\ Q \in SUBSET (SUBSET S)
    BY <1>1 DEF Summing
  <1>. HIDE DEF c, Q
  <1>5. Growing(Q, S, c)
    BY <1>2, <1>3, <1>4 DEF Growing
  <1>6. S \in Q
    BY <1>5, Induct
  <1>. QED
    BY <1>1, <1>6 DEF Q, Summing

LEMMA SumGrows ==
    ASSUME NEW S, IsFiniteSet(S), NEW f, NEW g, NEW sku, NEW a, NEW q \in Nat,
           \A x \in S : f[<<x, sku>>] \in Nat,
           \A x \in S : g[<<x, sku>>] = f[<<x, sku>>] + (IF x = a THEN q ELSE 0)
    PROVE  Sum(S, g, sku) = Sum(S, f, sku) + (IF a \in S THEN q ELSE 0)
  <1>1. PICK it : Summing(it, S, f, sku)
    BY SumFacts
  <1>2. \A x \in S : g[<<x, sku>>] \in Nat
    OBVIOUS
  <1>3. PICK jt : Summing(jt, S, g, sku)
    BY <1>2, SumFacts
  <1>. DEFINE Q == {s \in SUBSET S : jt[s] = it[s] + (IF a \in s THEN q ELSE 0)}
              c == [s \in SUBSET S |-> CHOOSE x \in s : TRUE]
  <1>4. \A s \in SUBSET S : s # {} => c[s] = (CHOOSE x \in s : TRUE) /\ c[s] \in s
    OBVIOUS
  <1>5. ASSUME NEW s \in SUBSET S, s # {}, s \ {c[s]} \in Q PROVE s \in Q
    <2>1. /\ it[s] = f[<<c[s], sku>>] + it[s \ {c[s]}] /\ c[s] \in s /\ c[s] \in S
          /\ jt[s] = g[<<c[s], sku>>] + jt[s \ {c[s]}]
      BY <1>1, <1>3, <1>4, <1>5 DEF Summing
    <2>2. s \ {c[s]} \in SUBSET S /\ f[<<c[s], sku>>] \in Nat
          /\ jt[s \ {c[s]}] = it[s \ {c[s]}] + (IF a \in s \ {c[s]} THEN q ELSE 0)
      BY <1>5, <2>1
    <2>3. it[s \ {c[s]}] \in Nat /\ it[s] \in Nat
      BY <1>1, <2>2 DEF Summing
    <2>4. g[<<c[s], sku>>] = f[<<c[s], sku>>] + (IF c[s] = a THEN q ELSE 0)
      BY <2>1
    <2>5. CASE c[s] = a
      BY <2>1, <2>2, <2>3, <2>4, <2>5
    <2>6. CASE c[s] # a
      <3>1. a \in s \ {c[s]} <=> a \in s
        BY <2>6
      <3>. QED
        BY <2>1, <2>2, <2>3, <2>4, <2>6, <3>1
    <2>. QED
      BY <2>5, <2>6
  <1>6. {} \in Q /\ Q \in SUBSET (SUBSET S)
    BY <1>1, <1>3 DEF Summing
  <1>. HIDE DEF c, Q
  <1>7. Growing(Q, S, c)
    BY <1>4, <1>5, <1>6 DEF Growing
  <1>8. S \in Q
    BY <1>7, Induct
  <1>. QED
    BY <1>1, <1>3, <1>8 DEF Q, Summing

-----------------------------------------------------------------------------
(* What has arrived of a transfer *)

\* The destination of a transfer opens no stream while a handler still serves its last.
OrderlyDestinations ==
    \A w \in Workloads : \A id \in Ids :
        DispatchIn(w, id) => w[id[1]][id[2]].to \notin HalfOpen

ArrivalsOf(tid) == {id \in OfKind("TransferReceived") : Payload(id).transfer = tid}

\* A row has the quantity some line of a dispatch of its transfer has.
MadeByLine(key, id) ==
    /\ Payload(id).kind = "TransferDispatched"
    /\ Payload(id).transfer = key[1]
    /\ \E i \in LinesOf(id) : /\ Payload(id).lines[i].sku = key[2]
                              /\ Payload(id).lines[i].qty = transit[key].dispatched
RowsTrue ==
    \A key \in DOMAIN transit : transit[key] # NoRow => \E id \in Recorded : MadeByLine(key, id)

\* Only the destination learns of a dispatch by its event.
SentToDestination ==
    \A n \in Nodes : \A id \in Ids :
        EventRef(id) \in outbound[n] /\ Payload(id).kind = "TransferDispatched"
          => n = Payload(id).to

\* What a handler is about to fold in the row still has left.
Room(s) ==
    LET row == RowOf(<<s.node, s.cur>>, s.line)
    IN s.pc = "fold" => s.seen <= row.dispatched - row.received

Balanced(key) ==
    /\ transit[key].received <= transit[key].dispatched
    /\ transit[key].received = Sum(ArrivalsOf(key[1]), folded, key[2])

BalanceInv ==
    /\ RowsTrue
    /\ SentToDestination
    /\ \A h \in Handlers : Room(session[h])
    /\ \A key \in Transfers \X SKUs : Balanced(key)

LEMMA ArrivalsFinite == ASSUME NEW tid PROVE IsFiniteSet(ArrivalsOf(tid))
  <1>1. IsFiniteSet(Ids)
    <2>1. IsFiniteSet(1..MaxSeq)
      BY StoreAssumption, FS_Interval
    <2>. QED
      BY <2>1, NodesFinite, FS_Product DEF Ids
  <1>2. ArrivalsOf(tid) \subseteq Ids
    BY DEF ArrivalsOf, OfKind, Recorded
  <1>. QED
    BY <1>1, <1>2, FS_Subset

LEMMA FoldedNat ==
    ASSUME TypeInv, NEW tid, NEW sku \in SKUs, NEW id \in ArrivalsOf(tid)
    PROVE  id \in Ids /\ folded[<<id, sku>>] \in Nat
  BY DEF ArrivalsOf, OfKind, Recorded, TypeInv, TypeOK, StoreTypeOK

\* Nobody dispatches a row again with another quantity.
LEMMA RowRedispatched ==
    ASSUME TypeInv, BalanceInv, OneDispatch, LinesApart, NEW h \in Handlers,
           NEW key \in Transfers \X SKUs, transit[key] # NoRow, Redispatched(h, key)
    PROVE  transit'[key].dispatched = transit[key].dispatched
  <1>1. PICK id \in Recorded : MadeByLine(key, id)
    BY DEF BalanceInv, RowsTrue, TypeInv, TypeOK, StoreTypeOK
  <1>2. PICK i \in LinesOf(id) : /\ Payload(id).lines[i].sku = key[2]
                                 /\ Payload(id).lines[i].qty = transit[key].dispatched
    BY <1>1 DEF MadeByLine
  <1>3. /\ Current(h) \in Recorded /\ P(h).kind = "TransferDispatched"
        /\ Payload(Current(h)) = P(h)
        /\ session[h].line \in LinesOf(Current(h))
    BY HereRecorded, LineHere, PhaseKinds DEF Redispatched, RecordDispatchLine, Step, At
  <1>4. key = <<P(h).transfer, Line(h).sku>> /\ transit'[key].dispatched = Line(h).qty
    BY DEF Redispatched
  <1>5. PICK c : c = Current(h)
    OBVIOUS
  <1>6. log[c[1]][c[2]].transfer = log[id[1]][id[2]].transfer
    BY <1>1, <1>3, <1>4, <1>5 DEF Payload, MadeByLine
  <1>7. DispatchIn(log, c) /\ DispatchIn(log, id) /\ log \in Workloads /\ c \in Ids /\ id \in Ids
    BY <1>1, <1>3, <1>5 DEF DispatchIn, Recorded, Payload, TypeInv, TypeOK, MadeByLine
  <1>8. c = id
    BY <1>6, <1>7 DEF OneDispatch
  <1>9. Payload(id).lines[session[h].line].sku = Payload(id).lines[i].sku
    BY <1>2, <1>3, <1>4, <1>5, <1>8 DEF Line
  <1>10. session[h].line = i
    BY <1>2, <1>3, <1>5, <1>7, <1>8, <1>9 DEF LinesApart, Payload, LinesOf
  <1>. QED
    BY <1>2, <1>3, <1>4, <1>5, <1>8, <1>10 DEF Line

\* So a step keeps the dispatched quantity of every row there is.
LEMMA DispatchedKept ==
    ASSUME TypeInv, TransferInv, BalanceInv, OneDispatch, LinesApart,
           NEW h \in Handlers, HandlerStep(h) \/ Fail(h),
           NEW key \in Transfers \X SKUs, transit[key] # NoRow
    PROVE  transit'[key].dispatched = transit[key].dispatched
  BY RowAfter, FoldsReady, RowRedispatched DEF Killed, Refolded

LEMMA RowsStayTrue ==
    ASSUME TypeInv, TransferInv, BalanceInv, OneDispatch, LinesApart,
           NEW h \in Handlers, HandlerStep(h) \/ Fail(h)
    PROVE  RowsTrue'
  <1>. SUFFICES ASSUME NEW key \in DOMAIN transit', transit'[key] # NoRow
                PROVE  (\E id \in Recorded : MadeByLine(key, id))'
    BY DEF RowsTrue
  <1>1. TypeInv'
    BY TypeInvNext DEF Next
  <1>2. key \in Transfers \X SKUs /\ key \in DOMAIN transit
    BY <1>1 DEF TypeInv, TypeOK, StoreTypeOK
  <1>3. log' = log /\ Recorded' = Recorded
    BY Alongside DEF Recorded
  <1>4. CASE transit[key] # NoRow
    <2>1. PICK id \in Recorded : MadeByLine(key, id)
      BY <1>2, <1>4 DEF BalanceInv, RowsTrue
    <2>2. transit'[key].dispatched = transit[key].dispatched
      BY <1>2, <1>4, DispatchedKept
    <2>3. MadeByLine(key, id)'
      BY <1>3, <2>1, <2>2 DEF MadeByLine, Payload, LinesOf
    <2>. QED
      BY <1>3, <2>3
  <1>5. CASE transit[key] = NoRow
    <2>1. Redispatched(h, key)
      BY <1>2, <1>5, RowAfter, FoldsReady DEF Killed, Refolded
    <2>2. PICK c : c = Current(h)
      OBVIOUS
    <2>3. /\ c \in Recorded /\ P(h).kind = "TransferDispatched" /\ Payload(c) = P(h)
          /\ session[h].line \in LinesOf(c)
      BY <2>1, <2>2, HereRecorded, LineHere, PhaseKinds
         DEF Redispatched, RecordDispatchLine, Step, At
    <2>4. key = <<P(h).transfer, Line(h).sku>> /\ transit'[key].dispatched = Line(h).qty
      BY <2>1 DEF Redispatched
    <2>5. MadeByLine(key, c)'
      BY <1>3, <2>3, <2>4 DEF MadeByLine, Payload, LinesOf, Line
    <2>. QED
      BY <1>3, <2>3, <2>5
  <1>. QED
    BY <1>4, <1>5

LEMMA StaysSentToDestination ==
    ASSUME TypeInv, TransferInv, BalanceInv, NEW h \in Handlers, HandlerStep(h) \/ Fail(h)
    PROVE  SentToDestination'
  <1>1. log' = log
    BY Alongside
  <1>2. ASSUME NEW n \in Nodes, NEW id \in Ids, EventRef(id) \in outbound'[n],
               Payload(id).kind = "TransferDispatched"
        PROVE  n = Payload(id).to
    <2>1. CASE EventRef(id) \in outbound[n]
      BY <1>2, <2>1 DEF BalanceInv, SentToDestination
    <2>2. CASE EventRef(id) \notin outbound[n]
      <3>1. PICK m \in Nodes \cup Nat, env \in Envelopes :
              /\ Enqueue(m, env)
              /\ \/ env = EventRef(Current(h)) /\ session[h].pc = "forward"
                 \/ \E k \in session[h].queue : env = CompRef(Current(h), k)
        BY <1>2, <2>2, OutboundAfter DEF Announces
      <3>2. env = EventRef(id)
        BY <1>2, <2>2, <3>1 DEF Enqueue, TypeInv, TypeOK, StoreTypeOK
      <3>3. session[h].queue \subseteq Nat \ {0}
        BY DEF TransferInv, Ships
      <3>4. session[h].pc = "forward" /\ Current(h) = id
        BY <3>1, <3>2, <3>3 DEF EventRef, CompRef
      <3>5. P(h) = Payload(id)
        BY <3>4 DEF P
      <3>6. ForwardDispatch(h)
        <4>1. outbound' # outbound
          BY <1>2, <2>2
        <4>2. ~ ForwardArrival(h)
          BY <1>2, <3>5 DEF ForwardArrival
        <4>. QED
          BY <3>4, <4>1, <4>2
             DEF HandlerStep, ReceiveBatch, ReadDecision, StoreEvent, Validate, CheckItem,
                 CheckNote, ReadTotal, CheckOrder, CheckDestination, CheckTransit, CheckFolded,
                 Record, RecordFact, RecordDispatchLine, KillTransfer, ReadRow, FoldLine, Settle,
                 ReadCompensations, Emit, EnqueueCompensation, Decide, StorePushed, Ack, Notice,
                 Fail, End, storeVars, queueVars, Step, At
      <3>7. Enqueue(P(h).to, EventRef(Current(h)))
        BY <3>6 DEF ForwardDispatch
      <3>. QED
        BY <1>2, <2>2, <3>5, <3>7 DEF Enqueue, TypeInv, TypeOK, StoreTypeOK
    <2>. QED
      BY <2>1, <2>2
  <1>. QED
    BY <1>1, <1>2 DEF SentToDestination, Payload

\* Two handlers at arrivals of one transfer are the same one: both serve its destination.
LEMMA OneReceiver ==
    ASSUME TypeInv, OpenInv, TransferInv, BalanceInv, OneDispatch, OrderlyDestinations,
           NEW g \in Handlers, NEW h \in Handlers,
           session[g].pc \in Arbitrating, session[h].pc \in Arbitrating,
           P(g).kind = "TransferReceived", P(h).kind = "TransferReceived",
           P(g).transfer = P(h).transfer
    PROVE  g = h
  <1>1. ASSUME NEW k \in Handlers, session[k].pc \in Arbitrating, P(k).kind = "TransferReceived"
        PROVE  \E d \in Recorded :
                  /\ Payload(d).kind = "TransferDispatched"
                  /\ Payload(d).transfer = P(k).transfer
                  /\ session[k].node = Payload(d).to
    <2>1. /\ session[k].cur \in session[k].cur..session[k].last
          /\ session[k].node \in Nodes
      BY <1>1, Here DEF Sessions
    <2>2. Known(<<session[k].node, session[k].cur>>)
      BY <1>1, <2>1 DEF TransferInv, Ships
    <2>3. CanRecord(session[k].node, P(k))
      BY <2>2 DEF Known, P, Current
    <2>4. PICK d \in Ids :
            /\ EventRef(d) \in outbound[session[k].node]
            /\ Payload(d).kind = "TransferDispatched"
            /\ Payload(d).transfer = P(k).transfer
      BY <1>1, <2>3 DEF CanRecord
    <2>. QED
      BY <2>1, <2>4 DEF TransferInv, AnnouncedShipped, BalanceInv, SentToDestination
  <1>2. PICK a \in Recorded : /\ Payload(a).kind = "TransferDispatched"
                              /\ Payload(a).transfer = P(g).transfer
                              /\ session[g].node = Payload(a).to
    BY <1>1
  <1>3. PICK b \in Recorded : /\ Payload(b).kind = "TransferDispatched"
                              /\ Payload(b).transfer = P(h).transfer
                              /\ session[h].node = Payload(b).to
    BY <1>1
  <1>4. DispatchIn(log, a) /\ DispatchIn(log, b) /\ log \in Workloads /\ a \in Ids /\ b \in Ids
    BY <1>2, <1>3 DEF DispatchIn, Recorded, Payload, TypeInv, TypeOK
  <1>5. a = b
    BY <1>2, <1>3, <1>4 DEF OneDispatch, Payload
  <1>6. session[g].node \in Nodes \ HalfOpen
    BY <1>2, <1>4, Here DEF OrderlyDestinations, Payload
  <1>. QED
    BY <1>2, <1>3, <1>5, <1>6 DEF OpenInv, Alone

\* The room a handler has found stays: nobody else folds into its transfer's rows.
LEMMA RoomOfOthers ==
    ASSUME TypeInv, OpenInv, TransferInv, BalanceInv, OneDispatch, LinesApart,
           OrderlyDestinations, NEW h \in Handlers, HandlerStep(h) \/ Fail(h),
           NEW g \in Handlers \ {h}
    PROVE  Room(session[g])'
  <1>. SUFFICES ASSUME session'[g].pc = "fold" PROVE Room(session[g])'
    BY DEF Room
  <1>1. log' = log /\ session'[g] = session[g] /\ session[g].pc = "fold"
    BY Alongside
  <1>2. PICK s, id, key : /\ s = session[g] /\ id = Current(g) /\ id = <<s.node, s.cur>>
                          /\ key = <<Payload(id).transfer, Payload(id).lines[s.line].sku>>
    BY DEF Current
  <1>3. /\ s.pc \in Arbitrating /\ id \in Recorded /\ Payload(id) = P(g)
        /\ Payload(id).kind = "TransferReceived" /\ s.line \in LinesOf(id) /\ s.seen \in Nat
    BY <1>1, <1>2, PhaseKinds, HereRecorded, LineHere, Here DEF Fits, KindFits, LineFits
  <1>4. key \in Transfers \X SKUs
    BY <1>2, <1>3, DispatchLines
  <1>5. transit[key] # NoRow /\ s.seen <= transit[key].dispatched - transit[key].received
    BY <1>1, <1>2 DEF TransferInv, Ships, BalanceInv, Room, RowOf, InTransit
  <1>6. transit'[key].dispatched = transit[key].dispatched
    BY <1>4, <1>5, DispatchedKept
  <1>7. transit'[key].received = transit[key].received
    <2>1. ~ Refolded(h, key)
      <3>. SUFFICES ASSUME Refolded(h, key) PROVE FALSE
        OBVIOUS
      <3>1. session[h].pc = "fold" /\ P(h).transfer = P(g).transfer
        BY <1>2, <1>3 DEF Refolded, FoldLine, Step, At
      <3>2. session[h].pc \in Arbitrating /\ P(h).kind = "TransferReceived"
        BY <3>1, PhaseKinds, Here DEF Fits, KindFits
      <3>. QED
        BY <1>2, <1>3, <3>1, <3>2, OneReceiver
    <2>. QED
      BY <1>4, <2>1, RowAfter, FoldsReady DEF Redispatched, Killed
  <1>8. s.seen <= transit'[key].dispatched - transit'[key].received
    BY <1>5, <1>6, <1>7
  <1>. QED
    BY <1>1, <1>2, <1>8 DEF Room, RowOf, InTransit, Payload

LEMMA ReadRowSees ==
    ASSUME TypeInv, NEW h \in Handlers, ReadRow(h), session'[h].pc = "fold"
    PROVE  LET row == InTransit(P(h).transfer, Line(h).sku)
           IN session'[h].seen <= row.dispatched - row.received
  <1>. DEFINE s == session[h]
              row == InTransit(P(h).transfer, Line(h).sku)
              accepted == Min2(Line(h).qty, row.dispatched - row.received)
              fold == [s EXCEPT !.pc = "fold", !.seen = accepted]
  <1>1. DOMAIN s = Fields
    BY SessionFields DEF TypeInv, TypeOK
  <1>2. \/ Become(h, NextLine(h, s, "row", "forward"))
        \/ Become(h, fold)
    BY DEF ReadRow
  <1>3. fold.seen = accepted
    BY <1>1 DEF Fields
  <1>4. ~ Become(h, NextLine(h, s, "row", "forward"))
    <2>. SUFFICES ASSUME Become(h, NextLine(h, s, "row", "forward")) PROVE FALSE
      OBVIOUS
    <2>. HIDE DEF s
    <2>1. session'[h].pc \in {"row", "forward"}
      BY <1>1, NextLineDoes
    <2>. QED
      BY <2>1
  <1>. HIDE DEF fold
  <1>5. session'[h].seen = accepted
    BY <1>2, <1>3, <1>4, Becomes
  <1>6. Line(h).qty \in Nat /\ row.dispatched \in Nat /\ row.received \in Nat
    <2>1. session[h].pc = "row"
      BY DEF ReadRow, Step, At
    <2>2. /\ Current(h) \in Recorded /\ Payload(Current(h)) = P(h)
          /\ session[h].line \in LinesOf(Current(h)) /\ P(h).kind = "TransferReceived"
      BY <2>1, PhaseKinds, HereRecorded, LineHere, Here DEF Fits, KindFits
    <2>3. <<P(h).transfer, Line(h).sku>> \in Transfers \X SKUs /\ Line(h).qty \in Nat
      BY <2>2, DispatchLines DEF Line
    <2>. QED
      BY <2>3 DEF TypeInv, TypeOK, StoreTypeOK, InTransit
  <1>. HIDE DEF row
  <1>7. accepted <= row.dispatched - row.received
    BY <1>6 DEF Min2
  <1>. QED
    BY <1>5, <1>7 DEF row

\* A handler comes to fold a line by reading its row, and in no other way.
LEMMA FoldComes ==
    ASSUME TypeInv, NEW h \in Handlers, HandlerStep(h) \/ Fail(h), session'[h].pc = "fold"
    PROVE  ReadRow(h)
  <1>. SUFFICES ASSUME ~ ReadRow(h) PROVE FALSE
    OBVIOUS
  <1>1. PICK s, t : s = session[h] /\ t = session'[h] /\ t.pc = "fold"
    OBVIOUS
  <1>2. ~ NextEvent(h)
    BY <1>1, NextEventDoes
  <1>3. ~ (StorePushed(h) \/ Ack(h) \/ End(h) \/ Notice(h) \/ Fail(h))
    BY <1>1, LeaveDoes DEF IdleSession, Notice, Fail
  <1>4. ~ (ReceiveBatch(h) \/ StoreEvent(h) \/ ReadDecision(h))
    BY <1>1, <1>2, ReceiveBatchDoes, StoreEventDoes, ReadDecisionDoes
  <1>5. ~ CheckItem(h)
    <2>. SUFFICES ASSUME CheckItem(h) PROVE FALSE
      OBVIOUS
    <2>1. s.pc = "items" /\ t.pc = AfterItems(P(h).kind, t.rej.reason # "accepted")
      BY <1>1, CheckItemDoes
    <2>2. P(h) \in Payloads /\ P(h).kind # "Other"
      BY <1>1, <2>1, Here, PhaseKinds DEF Fits, KindFits
    <2>3. P(h).kind \in {"GoodsReceived", "TransferDispatched", "TransferReceived"}
      BY <2>2 DEF Payloads, Receipts, Dispatches, Arrivals, Others
    <2>. QED
      BY <1>1, <2>1, <2>3 DEF AfterItems
  <1>6. ~ (CheckNote(h) \/ ReadTotal(h) \/ CheckOrder(h) \/ CheckDestination(h))
    <2>1. ~ CheckNote(h)
      <3>1. CheckNote(h) => t.pc \in {"record", "total"}
        BY <1>1, CheckNoteDoes
      <3>. QED
        BY <1>1, <3>1
    <2>2. ~ ReadTotal(h)
      BY <1>1, ReadTotalDoes
    <2>3. ~ CheckOrder(h)
      <3>1. CheckOrder(h) => t.pc = "record"
        BY <1>1, CheckOrderDoes
      <3>. QED
        BY <1>1, <3>1
    <2>4. ~ CheckDestination(h)
      BY <1>1, CheckDestinationDoes
    <2>. QED
      BY <2>1, <2>2, <2>3, <2>4
  <1>7. ~ (CheckTransit(h) \/ CheckFolded(h))
    BY <1>1, CheckTransitDoes, CheckFoldedDoes
  <1>8. ~ (RecordFact(h) \/ RecordDispatchLine(h) \/ KillTransfer(h) \/ FoldLine(h))
    BY <1>1, RecordFactDoes, RecordDispatchLineDoes, KillTransferDoes, FoldLineDoes
  <1>9. ~ (ForwardDispatch(h) \/ ForwardArrival(h))
    BY <1>1, ForwardDispatchDoes, ForwardArrivalDoes
  <1>10. ~ (ReadCompensations(h) \/ Emit(h) \/ EnqueueCompensation(h) \/ Decide(h))
    BY <1>1, <1>2, <1>3, ReadCompensationsDoes, EmitDoes, EnqueueCompensationDoes, DecideDoes
  <1>. QED
    BY <1>3, <1>4, <1>5, <1>6, <1>7, <1>8, <1>9, <1>10
       DEF HandlerStep, Validate, Record, Settle

LEMMA RoomOwn ==
    ASSUME TypeInv, NEW h \in Handlers, HandlerStep(h) \/ Fail(h)
    PROVE  Room(session[h])'
  <1>. SUFFICES ASSUME session'[h].pc = "fold" PROVE Room(session[h])'
    BY DEF Room
  <1>1. PICK s, t : s = session[h] /\ t = session'[h]
    OBVIOUS
  <1>2. ReadRow(h)
    BY FoldComes
  <1>3. Stays(s, t) /\ t.line = s.line /\ UNCHANGED storeVars /\ log' = log
    BY <1>1, <1>2, ReadRowDoes, Alongside
  <1>4. t.seen <= InTransit(P(h).transfer, Line(h).sku).dispatched
                    - InTransit(P(h).transfer, Line(h).sku).received
    BY <1>1, <1>2, ReadRowSees
  <1>5. transit' = transit
    BY <1>3 DEF storeVars
  <1>. QED
    BY <1>1, <1>3, <1>4, <1>5 DEF Room, RowOf, InTransit, Payload, Stays, P, Line, Current

\* A line that is folded is folded once, into the row and under the event at a time.
LEMMA FoldWrites ==
    ASSUME TypeInv, NEW h \in Handlers, FoldReady(h), FoldLine(h),
           NEW key \in Transfers \X SKUs, key = <<P(h).transfer, Line(h).sku>>
    PROVE  UNCHANGED transitVars \/ Refolded(h, key)
  <1>. DEFINE sum == [transit[key] EXCEPT !.received = transit[key].received + session[h].seen]
  <1>1. transit \in [Transfers \X SKUs -> Rows] /\ transit[key] \in Rows
    BY DEF TypeInv, TypeOK, StoreTypeOK, Rows
  <1>2. CASE folded[<<Current(h), Line(h).sku>>] # 0
    BY <1>2 DEF FoldLine, AddReceived
  <1>3. CASE folded[<<Current(h), Line(h).sku>>] = 0
    <2>1. transit'[key] = sum
          /\ folded' = [folded EXCEPT ![<<Current(h), Line(h).sku>>] = session[h].seen]
      BY <1>1, <1>3 DEF FoldLine, AddReceived
    <2>2. /\ sum.dispatched = transit[key].dispatched /\ sum.from = transit[key].from
          /\ sum.failed = transit[key].failed
          /\ sum.received = transit[key].received + session[h].seen
      BY <1>1 DEF Rows
    <2>3. transit[key] # NoRow
      BY DEF FoldReady, FoldLine, Step, At, InTransit
    <2>. HIDE DEF sum
    <2>. QED
      BY <1>3, <2>1, <2>2, <2>3 DEF Refolded
  <1>. QED
    BY <1>2, <1>3

LEMMA StaysBalanced ==
    ASSUME TypeInv, TransferInv, BalanceInv, OneDispatch, LinesApart,
           NEW h \in Handlers, HandlerStep(h) \/ Fail(h), NEW key \in Transfers \X SKUs
    PROVE  Balanced(key)'
  <1>1. log' = log /\ ArrivalsOf(key[1])' = ArrivalsOf(key[1])
    BY Alongside DEF ArrivalsOf, OfKind, Recorded, Payload
  <1>2. TypeInv'
    BY TypeInvNext DEF Next
  <1>3. PICK A, sku, new : A = ArrivalsOf(key[1]) /\ sku = key[2] /\ new = folded'
    OBVIOUS
  <1>4. /\ sku \in SKUs /\ IsFiniteSet(A)
        /\ \A x \in A : x \in Ids /\ folded[<<x, sku>>] \in Nat /\ <<x, sku>> \in Ids \X SKUs
    BY <1>3, ArrivalsFinite, FoldedNat
  <1>5. /\ transit[key].received \in Nat /\ transit[key].dispatched \in Nat
        /\ transit'[key].received \in Nat /\ transit'[key].dispatched \in Nat
        /\ folded \in [Ids \X SKUs -> Nat] /\ FoldReady(h)
    BY <1>2, FoldsReady DEF TypeInv, TypeOK, StoreTypeOK
  <1>6. /\ transit[key].received <= transit[key].dispatched
        /\ transit[key].received = Sum(A, folded, sku)
    BY <1>3 DEF BalanceInv, Balanced
  <1>7. SUFFICES /\ transit'[key].received <= transit'[key].dispatched
                 /\ transit'[key].received = Sum(A, new, sku)
    BY <1>1, <1>3 DEF Balanced
  <1>8. CASE Refolded(h, key)
    <2>1. PICK c, q : c = Current(h) /\ q = session[h].seen
      OBVIOUS
    <2>2. session[h].pc = "fold" /\ key = <<P(h).transfer, Line(h).sku>>
      BY <1>8 DEF Refolded, FoldLine, Step, At
    <2>3. /\ c \in Recorded /\ Payload(c) = P(h) /\ P(h).kind = "TransferReceived" /\ q \in Nat
      BY <2>1, <2>2, PhaseKinds, HereRecorded, Here DEF Fits, KindFits, LineFits
    <2>4. c \in A
      BY <1>3, <2>2, <2>3 DEF ArrivalsOf, OfKind
    <2>5. sku = Line(h).sku
      BY <1>3, <2>2
    <2>6. folded[<<c, sku>>] = 0 /\ new = [folded EXCEPT ![<<c, sku>>] = q]
      BY <1>3, <1>8, <2>1, <2>5 DEF Refolded
    <2>7. \A x \in A : new[<<x, sku>>] = folded[<<x, sku>>] + (IF x = c THEN q ELSE 0)
      BY <1>4, <1>5, <2>3, <2>6
    <2>8. Sum(A, new, sku) = Sum(A, folded, sku) + q
      <3>1. Sum(A, new, sku) = Sum(A, folded, sku) + (IF c \in A THEN q ELSE 0)
        BY <1>4, <2>3, <2>7, SumGrows
      <3>. QED
        BY <2>4, <3>1
    <2>9. /\ transit'[key].received = transit[key].received + q
          /\ transit'[key].dispatched = transit[key].dispatched
      BY <1>8, <2>1 DEF Refolded
    <2>10. q <= transit[key].dispatched - transit[key].received
      BY <2>1, <2>2 DEF BalanceInv, Room, RowOf, InTransit, Current, P, Line
    <2>. QED
      BY <1>5, <1>6, <2>3, <2>8, <2>9, <2>10
  <1>9. CASE ~ Refolded(h, key)
    <2>1. \A x \in A : new[<<x, sku>>] = folded[<<x, sku>>]
      <3>. SUFFICES ASSUME NEW x \in A, folded'[<<x, sku>>] # folded[<<x, sku>>] PROVE FALSE
        BY <1>3
      <3>1. x \in Ids /\ FoldLine(h) /\ x = Current(h) /\ sku = Line(h).sku
        BY <1>4, FoldedAfter
      <3>2. Payload(x).transfer = key[1] /\ Payload(x) = P(h)
        BY <1>3, <3>1 DEF ArrivalsOf, P
      <3>3. key = <<P(h).transfer, Line(h).sku>>
        <4>1. key = <<key[1], key[2]>>
          OBVIOUS
        <4>. QED
          BY <1>3, <3>1, <3>2, <4>1
      <3>. QED
        BY <1>5, <1>9, <3>1, <3>3, FoldWrites DEF transitVars
    <2>2. Sum(A, new, sku) = Sum(A, folded, sku)
      <3>1. \A x \in A : new[<<x, sku>>] = folded[<<x, sku>>] + (IF x = 0 THEN 0 ELSE 0)
        BY <1>4, <2>1
      <3>2. Sum(A, new, sku) = Sum(A, folded, sku) + (IF 0 \in A THEN 0 ELSE 0)
        BY <1>4, <3>1, SumGrows
      <3>. QED
        BY <1>5, <1>6, <3>2
    <2>3. transit'[key].received = transit[key].received
      BY <1>5, <1>9, RowAfter DEF Redispatched, Killed
    <2>4. CASE transit[key] # NoRow
      <3>1. transit'[key].dispatched = transit[key].dispatched
        BY <2>4, DispatchedKept
      <3>. QED
        BY <1>6, <2>2, <2>3, <3>1
    <2>5. CASE transit[key] = NoRow
      <3>1. transit[key].received = 0
        BY <2>5 DEF NoRow
      <3>. QED
        BY <1>5, <1>6, <2>2, <2>3, <3>1
    <2>. QED
      BY <2>4, <2>5
  <1>. QED
    BY <1>8, <1>9

LEMMA BalanceIdle ==
    ASSUME BalanceInv, UNCHANGED storeVars, log' = log,
           \A g \in Handlers : session'[g] = session[g] \/ session'[g].pc = "receive"
    PROVE  BalanceInv'
  <1>1. UNCHANGED <<transit, folded, outbound>>
    BY DEF storeVars
  <1>2. RowsTrue'
    BY <1>1 DEF BalanceInv, RowsTrue, MadeByLine, Payload, Recorded, LinesOf
  <1>3. SentToDestination'
    BY <1>1 DEF BalanceInv, SentToDestination, Payload
  <1>4. ASSUME NEW g \in Handlers PROVE Room(session[g])'
    BY <1>1 DEF BalanceInv, Room, RowOf, InTransit, Payload
  <1>5. ASSUME NEW key \in Transfers \X SKUs PROVE Balanced(key)'
    <2>1. ArrivalsOf(key[1])' = ArrivalsOf(key[1])
      BY DEF ArrivalsOf, OfKind, Recorded, Payload
    <2>. QED
      BY <1>1, <2>1 DEF BalanceInv, Balanced
  <1>. QED
    BY <1>2, <1>3, <1>4, <1>5 DEF BalanceInv

LEMMA BalanceInvInit == ASSUME Init, TypeInv PROVE BalanceInv
  <1>1. /\ \A n \in Nodes : outbound[n] = {}
        /\ \A key \in Transfers \X SKUs : transit[key] = NoRow
        /\ \A id \in Ids : \A sku \in SKUs : folded[<<id, sku>>] = 0
        /\ \A h \in Handlers : session[h].pc = "idle"
        /\ DOMAIN transit = Transfers \X SKUs
    BY DEF Init, StoreInit, IdleSession
  <1>2. RowsTrue /\ SentToDestination /\ \A h \in Handlers : Room(session[h])
    BY <1>1 DEF RowsTrue, SentToDestination, Room
  <1>3. ASSUME NEW key \in Transfers \X SKUs PROVE Balanced(key)
    <2>1. PICK A, sku : A = ArrivalsOf(key[1]) /\ sku = key[2]
      OBVIOUS
    <2>2. IsFiniteSet(A) /\ sku \in SKUs /\ \A x \in A : x \in Ids
      BY <2>1, ArrivalsFinite, FoldedNat
    <2>3. \A x \in A : folded[<<x, sku>>] = 0
      BY <1>1, <2>2
    <2>4. Sum(A, folded, sku) = 0
      BY <2>2, <2>3, SumZero
    <2>5. transit[key].received = 0 /\ transit[key].dispatched = 0
      BY <1>1 DEF NoRow
    <2>. QED
      BY <2>1, <2>4, <2>5 DEF Balanced
  <1>. QED
    BY <1>2, <1>3 DEF BalanceInv

LEMMA BalanceInvNext ==
    ASSUME TypeInv, OpenInv, TransferInv, BalanceInv, OneDispatch, LinesApart,
           OrderlyDestinations, [Next]_vars
    PROVE  BalanceInv'
  <1>1. ASSUME NEW h \in Handlers, NEW n \in Nodes, Open(h, n) PROVE BalanceInv'
    <2>. DEFINE t == [IdleSession EXCEPT !.pc = "receive", !.node = n, !.last = Resume(n)]
    <2>1. t.pc = "receive"
      BY DEF IdleSession
    <2>2. UNCHANGED storeVars /\ log' = log /\ Become(h, t)
      BY <1>1 DEF Open, nodeVars
    <2>. HIDE DEF t
    <2>3. \A g \in Handlers : session'[g] = IF g = h THEN t ELSE session[g]
      BY <2>2 DEF Become, TypeInv, TypeOK
    <2>. QED
      BY <2>1, <2>2, <2>3, BalanceIdle
  <1>2. ASSUME NEW h \in Handlers, HandlerStep(h) \/ Fail(h) PROVE BalanceInv'
    <2>1. \A g \in Handlers : Room(session[g])'
      BY <1>2, RoomOwn, RoomOfOthers
    <2>2. RowsTrue' /\ SentToDestination'
      BY <1>2, RowsStayTrue, StaysSentToDestination
    <2>3. \A key \in Transfers \X SKUs : Balanced(key)'
      BY <1>2, StaysBalanced
    <2>. QED
      BY <2>1, <2>2, <2>3 DEF BalanceInv
  <1>3. ASSUME NEW n \in Nodes, Detach(n) PROVE BalanceInv'
    BY <1>3, BalanceIdle DEF Detach, nodeVars
  <1>4. CASE UNCHANGED vars
    BY <1>4, BalanceIdle DEF vars
  <1>. QED
    BY <1>1, <1>2, <1>3, <1>4 DEF Next

LEMMA BalanceSuffices == ASSUME TypeInv, BalanceInv PROVE TransitBalanced
  <1>. SUFFICES ASSUME NEW tid \in Transfers, NEW sku \in SKUs
                PROVE  /\ transit[<<tid, sku>>].received <= transit[<<tid, sku>>].dispatched
                       /\ transit[<<tid, sku>>].received =
                            MapThenSumSet(LAMBDA id : folded[<<id, sku>>],
                                {id \in OfKind("TransferReceived") : Payload(id).transfer = tid})
    BY DEF TransitBalanced
  <1>1. <<tid, sku>> \in Transfers \X SKUs
    OBVIOUS
  <1>2. /\ transit[<<tid, sku>>].received <= transit[<<tid, sku>>].dispatched
        /\ transit[<<tid, sku>>].received = Sum(ArrivalsOf(tid), folded, sku)
    BY <1>1 DEF BalanceInv, Balanced
  <1>3. MapThenSumSet(LAMBDA id : folded[<<id, sku>>], ArrivalsOf(tid))
          = Sum(ArrivalsOf(tid), folded, sku)
    BY DEF MapThenSumSet, MapThenFoldSet, Sum, Adding
  <1>. QED
    BY <1>2, <1>3 DEF ArrivalsOf

\* What has arrived of a transfer line is what its arrivals have folded in, each once, and
\* never exceeds what was dispatched, although an arrival reads what a row has left before
\* it adds to it, its session may fail between any two of its lines, and the dispatch may be
\* arbitrated again meanwhile (AddReceived and its marker; record in arbiter.go).
THEOREM TransitBalancedCorrect ==
    ASSUME OneDispatch, LinesApart, OrderlyDestinations PROVE Spec => []TransitBalanced
  <1>. DEFINE Inv == TypeInv /\ OpenInv /\ TransferInv /\ BalanceInv
  <1>1. Init => Inv
    BY TypeInvInit, OpenInvInit, TransferInvInit, BalanceInvInit
  <1>2. Inv /\ [Next]_vars => Inv'
    BY TypeInvNext, OpenInvNext, TransferInvNext, BalanceInvNext
  <1>3. Inv => TransitBalanced
    BY BalanceSuffices
  <1>. QED
    BY <1>1, <1>2, <1>3, PTL DEF Spec

-----------------------------------------------------------------------------
(* Receipts that are arbitrated in turn *)

\* Where goods are received, sessions do not overlap.  Nothing in the code sees to it: the
\* read of what there is and the insert of a fact are separate calls, and where sessions do
\* overlap an order can be overrun and a note honoured twice.
ReceiptsInTurn ==
    \A w \in Workloads :
        (\E id \in Ids : id[2] <= Len(w[id[1]]) /\ w[id[1]][id[2]].kind = "GoodsReceived")
          => w \in Serial

Has(id) == receipts[id] # NotRecorded
Alike(a, b) ==
    /\ Payload(a).note = Payload(b).note
    /\ Payload(a).lines[1].sku = Payload(b).lines[1].sku

\* Another receipt had the note, and this one was never counted.
Repeats(id) == ~ Has(id) /\ \E o \in OfKind("GoodsReceived") : Has(o) /\ Alike(o, id)

\* The one reason an event can be rejected for, whenever it is arbitrated.
Fated(id, reason) ==
    /\ reason = "unknown_sku" <=> Unknown(id)
    /\ reason = "transfer_rejected" => Payload(id).kind = "TransferDispatched"
    /\ reason = "transfer_overreceipt" => Payload(id).kind = "TransferReceived"
    /\ reason = "duplicate_receipt" => Payload(id).kind = "GoodsReceived" /\ Repeats(id)
    /\ reason = "po_overreceipt" => Payload(id).kind = "GoodsReceived" /\ Has(id)

\* All compensations of a rejection give its reason.
Uniform(rej) == \A j \in DOMAIN rej.events : rej.events[j].reason = rej.reason

\* The phases in which no validator has answered for the whole event, and those of the
\* validators that are asked next.
Early == {"decision", "append", "items"}
Checks == {"note", "total", "own", "destination", "transit", "folded"}

\* What a handler has made of the event so far, by what the event says.
Meant(s) ==
    LET id == <<s.node, s.cur>>
        reason == s.rej.reason
    IN s.pc \in Arbitrating =>
         /\ s.pc = "items" =>
              (reason = "unknown_sku" <=>
                 \E i \in LinesOf(id) : i < s.line /\ Payload(id).lines[i].sku \notin Items)
         /\ s.pc \notin Early => (reason = "unknown_sku" <=> Unknown(id))
         /\ s.pc \in Checks => ~ Unknown(id)
         /\ reason = "transfer_rejected" => Payload(id).kind = "TransferDispatched"
         /\ reason = "transfer_overreceipt" => Payload(id).kind = "TransferReceived"
         /\ reason \in {"duplicate_receipt", "po_overreceipt"} => Payload(id).kind = "GoodsReceived"
         /\ Uniform(s.rej)

\* A handler at a receipt that is going to count.
Counting(s) ==
    \/ s.pc \in {"total", "own"}
    \/ s.pc = "record" /\ s.rej.reason \in {"accepted", "po_overreceipt"}

\* What it has found in the store still holds.
Noted(s) ==
    LET id == <<s.node, s.cur>>
        reason == s.rej.reason
    IN s.pc \in Arbitrating /\ Payload(id).kind = "GoodsReceived" =>
         /\ reason = "duplicate_receipt" => Repeats(id)
         /\ s.pc \in {"comps", "emit", "enqueue", "decide"}
              /\ reason \in {"accepted", "po_overreceipt"} => Has(id)
         /\ Counting(s) => \A o \in OfKind("GoodsReceived") : Has(o) /\ Alike(o, id) => o = id
         /\ s.pc = "own" => s.seen = poTotal[OrderLine(id)]
         /\ s.pc = "record" /\ Counting(s) /\ ~ Has(id) /\ OrderLine(id) \in DOMAIN Ordered =>
              poTotal[OrderLine(id)] + Payload(id).lines[1].qty - s.rej.excess
                <= Ordered[OrderLine(id)]

InTurn == log \in Serial =>
    \A g, h \in Handlers : session[g].pc # "idle" /\ session[h].pc # "idle" => g = h

FactsSound ==
    /\ \A o \in Ids : Has(o) => o \in OfKind("GoodsReceived")
    /\ \A a, b \in OfKind("GoodsReceived") : Has(a) /\ Has(b) /\ Alike(a, b) => a = b
    /\ POWithinOrder

OneReason ==
    /\ \A id \in Ids : \A k \in DOMAIN comps[id] : Fated(id, comps[id][k].reason)
    /\ \A id \in Ids : IsRejected(id) => Fated(id, decisions[id])
    /\ \A id \in OfKind("GoodsReceived") :
          decisions[id] \in {"accepted", "po_overreceipt"} => Has(id)

ReceiptInv ==
    /\ InTurn
    /\ FactsSound
    /\ OneReason
    /\ \A h \in Handlers : Meant(session[h]) /\ Noted(session[h])

LEMMA ActsAwake ==
    ASSUME TypeInv, NEW h \in Handlers, HandlerStep(h) \/ Fail(h)
    PROVE  session[h].pc # "idle"
  BY DEF HandlerStep, ReceiveBatch, ReadDecision, StoreEvent, Validate, CheckItem, CheckNote,
       ReadTotal, CheckOrder, CheckDestination, CheckTransit, CheckFolded, Record, RecordFact,
       RecordDispatchLine, KillTransfer, ReadRow, FoldLine, ForwardDispatch, ForwardArrival,
       Settle, ReadCompensations, Emit, EnqueueCompensation, Decide, StorePushed, Ack, Notice,
       Fail, Step, At

LEMMA StaysInTurn ==
    ASSUME TypeInv, InTurn, NEW h \in Handlers, HandlerStep(h) \/ Fail(h)
    PROVE  InTurn'
  <1>1. log' = log /\ \A g \in Handlers \ {h} : session'[g] = session[g]
    BY Alongside
  <1>2. session[h].pc # "idle"
    BY ActsAwake
  <1>. QED
    BY <1>1, <1>2 DEF InTurn

\* Whoever else is at work, no receipt is being arbitrated.
LEMMA NoneBeside ==
    ASSUME TypeInv, InTurn, ReceiptsInTurn, NEW g \in Handlers, NEW h \in Handlers,
           session[g].pc \in Arbitrating, P(g).kind = "GoodsReceived", session[h].pc # "idle"
    PROVE  g = h
  <1>1. Current(g) \in Recorded /\ Payload(Current(g)) = P(g)
    BY HereRecorded
  <1>2. log \in Workloads /\ Current(g) \in Ids /\ Current(g)[2] <= Len(log[Current(g)[1]])
        /\ log[Current(g)[1]][Current(g)[2]].kind = "GoodsReceived"
    BY <1>1 DEF TypeInv, TypeOK, Recorded, Payload
  <1>3. log \in Serial
    BY <1>2 DEF ReceiptsInTurn
  <1>4. session[g].pc # "idle"
    BY PhaseKinds
  <1>. QED
    BY <1>3, <1>4 DEF InTurn

LEMMA HasAfter ==
    ASSUME TypeInv, NEW h \in Handlers, HandlerStep(h) \/ Fail(h), NEW id \in Ids
    PROVE  /\ Has(id) => Has(id)'
           /\ Has(id)' /\ ~ Has(id) => id = Current(h) /\ \E q \in Nat : Counts(h, q)
  <1>1. receipts \in [Ids -> Nat \cup {NotRecorded}] /\ NotRecorded \notin Nat
    BY DEF TypeInv, TypeOK, StoreTypeOK, NotRecorded
  <1>. QED
    BY <1>1, ReceiptsAfter DEF Counts, receiptVars, Has

LEMMA StaticAfter ==
    ASSUME log' = log
    PROVE  /\ OfKind("GoodsReceived")' = OfKind("GoodsReceived")
           /\ \A id : /\ Payload(id)' = Payload(id) /\ LinesOf(id)' = LinesOf(id)
                      /\ Unknown(id)' = Unknown(id) /\ OrderLine(id)' = OrderLine(id)
           /\ \A a, b : Alike(a, b)' = Alike(a, b)
  BY DEF OfKind, Recorded, Payload, LinesOf, Unknown, OrderLine, Alike

\* A receipt that counts has the note to itself.
LEMMA CountsAlone ==
    ASSUME TypeInv, ReceiptInv, NEW h \in Handlers, NEW q \in Nat, Counts(h, q)
    PROVE  /\ Current(h) \in OfKind("GoodsReceived") /\ P(h) = Payload(Current(h))
           /\ ~ Has(Current(h))
           /\ \A o \in OfKind("GoodsReceived") : Has(o) /\ Alike(o, Current(h)) => o = Current(h)
  <1>1. session[h].pc = "record" /\ P(h).kind = "GoodsReceived" /\ ~ Has(Current(h))
        /\ session[h].rej.reason \in {"accepted", "po_overreceipt"}
    BY DEF Counts, RecordFact, Step, At, Has
  <1>2. Current(h) \in Recorded /\ Payload(Current(h)) = P(h) /\ session[h].pc \in Arbitrating
    BY <1>1, PhaseKinds, HereRecorded
  <1>3. Noted(session[h]) /\ Counting(session[h])
    BY <1>1 DEF ReceiptInv, Counting
  <1>. QED
    BY <1>1, <1>2, <1>3 DEF Noted, OfKind, Current

LEMMA RepeatsStays ==
    ASSUME TypeInv, ReceiptInv, NEW h \in Handlers, HandlerStep(h) \/ Fail(h), NEW id \in Ids,
           Repeats(id)
    PROVE  Repeats(id)'
  <1>1. log' = log
    BY Alongside
  <1>2. PICK o \in OfKind("GoodsReceived") : Has(o) /\ Alike(o, id) /\ ~ Has(id)
    BY DEF Repeats
  <1>3. o \in Ids
    BY DEF OfKind, Recorded
  <1>4. Has(o)'
    BY <1>2, <1>3, HasAfter
  <1>5. ~ Has(id)'
    <2>. SUFFICES ASSUME Has(id)' PROVE FALSE
      OBVIOUS
    <2>1. PICK q \in Nat : id = Current(h) /\ Counts(h, q)
      BY <1>2, HasAfter
    <2>2. o = id
      BY <1>2, <2>1, CountsAlone
    <2>. QED
      BY <1>2, <2>2
  <1>. QED
    BY <1>1, <1>2, <1>4, <1>5, StaticAfter DEF Repeats

LEMMA FatedStays ==
    ASSUME TypeInv, ReceiptInv, NEW h \in Handlers, HandlerStep(h) \/ Fail(h), NEW id \in Ids,
           NEW reason, Fated(id, reason)
    PROVE  Fated(id, reason)'
  <1>1. log' = log
    BY Alongside
  <1>. QED
    BY <1>1, StaticAfter, RepeatsStays, HasAfter DEF Fated

-----------------------------------------------------------------------------
(* What a handler makes of its event *)

LEMMA UniformReject ==
    ASSUME NEW s, s.rej \in Rejections, Uniform(s.rej), DOMAIN s = Fields,
           NEW reason, s.rej.reason \in {"accepted", reason}, NEW qty
    PROVE  Uniform(Reject(s, reason, qty).rej)
  <1>. DEFINE added == Reversal(reason, s.line, qty)
              all == Append(s.rej.events, added)
  <1>1. s.rej.events \in Seq(Compensation)
    BY DEF Rejections
  <1>2. \A j \in DOMAIN s.rej.events : s.rej.events[j].reason = reason
    <2>0. \A j \in DOMAIN s.rej.events : s.rej.events[j] \in Compensation
      BY <1>1
    <2>1. \A j \in DOMAIN s.rej.events : s.rej.events[j].reason \in Reasons
      BY <2>0 DEF Compensation
    <2>. QED
      BY <2>1 DEF Uniform, Reasons
  <1>3. added.reason = reason
    BY DEF Reversal
  <1>. HIDE DEF added
  <1>4. \A j \in DOMAIN all : all[j].reason = reason
    BY <1>1, <1>2, <1>3
  <1>5. Reject(s, reason, qty).rej.events = all /\ Reject(s, reason, qty).rej.reason = reason
    BY DEF Reject, Fields, added
  <1>. QED
    BY <1>4, <1>5 DEF Uniform

\* What the earlier lines of an arrival were rejected for.
LEMMA ArrivalReason ==
    ASSUME TypeInv, NEW h \in Handlers, Meant(session[h]), session[h].pc \in {"transit", "folded"}
    PROVE  session[h].rej.reason \in {"accepted", "transfer_overreceipt"}
  <1>1. PICK s, id : s = session[h] /\ id = <<s.node, s.cur>>
    OBVIOUS
  <1>2. s.pc \in Arbitrating /\ s \in Sessions /\ Payload(id).kind = "TransferReceived"
    BY <1>1, PhaseKinds, Here DEF Fits, KindFits, E
  <1>3. s.rej.reason \in Reasons \cup {"accepted"}
    BY <1>2 DEF Sessions, Rejections
  <1>. QED
    BY <1>1, <1>2, <1>3 DEF Meant, Reasons, Checks, Early

LEMMA ValidateUniform ==
    ASSUME TypeInv, NEW h \in Handlers, Meant(session[h]), Validate(h)
    PROVE  Uniform(session'[h].rej)
  <1>1. PICK s, t : s = session[h] /\ t = session'[h]
    OBVIOUS
  <1>2. s \in Sessions /\ s.rej \in Rejections /\ DOMAIN s = Fields /\ Fits(s)
    BY <1>1, SessionFields DEF TypeInv, TypeOK, Sessions
  <1>3. s.pc \in Arbitrating
    BY <1>1, PhaseKinds DEF Validate, CheckItem, CheckNote, ReadTotal, CheckOrder,
                            CheckDestination, CheckTransit, CheckFolded, Step, At
  <1>4. Uniform(s.rej)
    BY <1>1, <1>3 DEF Meant
  <1>5. ASSUME NEW reason, s.rej.reason \in {"accepted", reason}, NEW qty
        PROVE  Uniform(Reject(s, reason, qty).rej) /\ DOMAIN Reject(s, reason, qty) = Fields
    BY <1>2, <1>4, <1>5, UniformReject, RejectDoes
  <1>6. ASSUME NEW r, DOMAIN r = Fields, Uniform(r.rej), NEW pc, NEW done,
               Become(h, NextLine(h, r, pc, done))
        PROVE  Uniform(t.rej)
    <2>1. t.rej = r.rej
      BY <1>1, <1>6, NextLineDoes
    <2>. QED
      BY <1>6, <2>1
  <1>7. CASE CheckItem(h)
    <2>. DEFINE r == IF Line(h).sku \in Items THEN s ELSE Reject(s, "unknown_sku", Line(h).qty)
                done == AfterItems(P(h).kind, r.rej.reason # "accepted")
    <2>1. s.rej.reason \in {"accepted", "unknown_sku"}
      BY <1>1, <1>2, <1>7 DEF CheckItem, Step, At, Fits, RejectionFits
    <2>2. Uniform(r.rej) /\ DOMAIN r = Fields
      BY <1>2, <1>4, <1>5, <2>1
    <2>3. Become(h, NextLine(h, r, "items", done))
      BY <1>1, <1>7 DEF CheckItem
    <2>. HIDE DEF r, done
    <2>. QED
      BY <1>1, <1>6, <2>2, <2>3
  <1>8. CASE CheckNote(h)
    <2>1. s.rej.reason = "accepted"
      BY <1>1, <1>2, <1>8 DEF CheckNote, Step, At, Fits, RejectionFits
    <2>2. CASE NoteAgain(h)
      <3>. DEFINE r == Reject(s, "duplicate_receipt", Line(h).qty)
      <3>1. Uniform(r.rej) /\ DOMAIN r = Fields
        BY <1>5, <2>1
      <3>2. t = [r EXCEPT !.pc = "record"]
        BY <1>1, <2>2, Becomes DEF NoteAgain
      <3>. HIDE DEF r
      <3>. QED
        BY <1>1, <3>1, <3>2 DEF Fields
    <2>3. CASE NoteFirst(h)
      <3>1. t.rej = s.rej
        BY <1>1, <2>3, GotoDoes DEF NoteFirst
      <3>. QED
        BY <1>1, <1>4, <3>1
    <2>. QED
      BY <1>8, <2>2, <2>3 DEF CheckNote
  <1>9. CASE ReadTotal(h)
    <2>1. t = [s EXCEPT !.pc = "own", !.seen = ReceivedAgainstPO(P(h).po, Line(h).sku)]
      BY <1>1, <1>9, Becomes DEF ReadTotal
    <2>. QED
      BY <1>1, <1>2, <1>4, <2>1 DEF Fields
  <1>10. CASE CheckOrder(h)
    <2>1. CASE Goto(h, "record")
      <3>1. t.rej = s.rej
        BY <1>1, <2>1, GotoDoes
      <3>. QED
        BY <1>1, <1>4, <3>1
    <2>2. CASE ~ Goto(h, "record")
      <3>. DEFINE excess == Excess(s.seen, Receipt(Current(h)), Line(h).qty,
                                   Ordered[<<P(h).po, Line(h).sku>>])
                  stock == Reversal("po_overreceipt", 1, excess)
                  paper == [stock EXCEPT !.paper = TRUE]
                  two == <<stock, paper>>
                  rej == [reason |-> "po_overreceipt", events |-> two, excess |-> excess]
      <3>1. t = [s EXCEPT !.pc = "record", !.rej = rej]
        BY <1>1, <1>10, <2>2, Becomes DEF CheckOrder
      <3>2. stock.reason = "po_overreceipt" /\ paper.reason = "po_overreceipt"
        BY DEF Reversal
      <3>. HIDE DEF excess, stock, paper
      <3>3. \A j \in DOMAIN two : two[j].reason = "po_overreceipt"
        BY <3>2
      <3>. HIDE DEF two
      <3>4. Uniform(rej)
        BY <3>3 DEF Uniform
      <3>. HIDE DEF rej
      <3>. QED
        BY <1>1, <1>2, <3>1, <3>4 DEF Fields
    <2>. QED
      BY <2>1, <2>2
  <1>11. CASE CheckDestination(h)
    <2>1. CASE Goto(h, "record")
      <3>1. t.rej = s.rej
        BY <1>1, <2>1, GotoDoes
      <3>. QED
        BY <1>1, <1>4, <3>1
    <2>2. CASE ~ Goto(h, "record")
      <3>. DEFINE lines == P(h).lines
                  all == [i \in 1..Len(lines) |->
                            Reversal("transfer_rejected", i, lines[i].qty)]
                  rej == [reason |-> "transfer_rejected", events |-> all, excess |-> 0]
      <3>1. t = [s EXCEPT !.pc = "record", !.rej = rej]
        BY <1>1, <1>11, <2>2, Becomes DEF CheckDestination
      <3>2. \A j \in DOMAIN all : all[j].reason = "transfer_rejected"
        BY DEF Reversal
      <3>. HIDE DEF all
      <3>3. Uniform(rej)
        BY <3>2 DEF Uniform
      <3>. HIDE DEF rej
      <3>. QED
        BY <1>1, <1>2, <3>1, <3>3 DEF Fields
    <2>. QED
      BY <2>1, <2>2
  <1>12. CASE CheckTransit(h)
    <2>. DEFINE row == InTransit(P(h).transfer, Line(h).sku)
                r == Reject(s, "transfer_overreceipt", Line(h).qty)
    <2>1. s.rej.reason \in {"accepted", "transfer_overreceipt"}
      BY <1>1, <1>12, ArrivalReason DEF CheckTransit, Step, At
    <2>2. Uniform(r.rej) /\ DOMAIN r = Fields
      BY <1>5, <2>1
    <2>3. \/ Become(h, NextLine(h, r, "transit", "row"))
          \/ Become(h, [s EXCEPT !.pc = "folded", !.seen = row.dispatched - row.received])
      BY <1>1, <1>12 DEF CheckTransit
    <2>. HIDE DEF r, row
    <2>4. CASE Become(h, NextLine(h, r, "transit", "row"))
      BY <1>1, <1>6, <2>2, <2>4
    <2>5. CASE Become(h, [s EXCEPT !.pc = "folded", !.seen = row.dispatched - row.received])
      <3>1. t = [s EXCEPT !.pc = "folded", !.seen = row.dispatched - row.received]
        BY <1>1, <2>5, Becomes
      <3>. QED
        BY <1>1, <1>2, <1>4, <3>1 DEF Fields
    <2>. QED
      BY <1>1, <2>3, <2>4, <2>5
  <1>13. CASE CheckFolded(h)
    <2>. DEFINE over == Line(h).qty - (s.seen + ReceivedFromEvent(Current(h), Line(h).sku))
                r == Surplus(s, over)
    <2>1. s.rej.reason \in {"accepted", "transfer_overreceipt"}
      BY <1>1, <1>13, ArrivalReason DEF CheckFolded, Step, At
    <2>2. Become(h, NextLine(h, r, "transit", "row"))
      BY <1>1, <1>13 DEF CheckFolded
    <2>. HIDE DEF over
    <2>3. Uniform(r.rej) /\ DOMAIN r = Fields
      BY <1>2, <1>4, <1>5, <2>1 DEF Surplus
    <2>. HIDE DEF r
    <2>. QED
      BY <1>1, <1>6, <2>2, <2>3
  <1>. QED
    BY <1>1, <1>7, <1>8, <1>9, <1>10, <1>11, <1>12, <1>13 DEF Validate

\* The handler stays at its event: what is left to show of the phase it comes to.
LEMMA MeantPhase ==
    ASSUME TypeInv, NEW h \in Handlers, HandlerStep(h) \/ Fail(h),
           NEW t, t = session'[h], Stays(session[h], t),
           NEW id, id = Current(h), NEW reason, reason = t.rej.reason,
           t.pc = "items" =>
               (reason = "unknown_sku" <=>
                  \E i \in LinesOf(id) : i < t.line /\ Payload(id).lines[i].sku \notin Items),
           t.pc \notin Early => (reason = "unknown_sku" <=> Unknown(id)),
           t.pc \in Checks => ~ Unknown(id),
           reason = "transfer_rejected" => Payload(id).kind = "TransferDispatched",
           reason = "transfer_overreceipt" => Payload(id).kind = "TransferReceived",
           reason \in {"duplicate_receipt", "po_overreceipt"} => Payload(id).kind = "GoodsReceived",
           Uniform(t.rej)
    PROVE  Meant(session[h])'
  <1>1. id = <<t.node, t.cur>> /\ log' = log
    BY Alongside DEF Stays, Current
  <1>2. Payload(id)' = Payload(id) /\ LinesOf(id)' = LinesOf(id) /\ Unknown(id)' = Unknown(id)
    BY <1>1, StaticAfter
  <1>. QED
    BY <1>1, <1>2 DEF Meant

LEMMA MeantElsewhere ==
    ASSUME NEW t, t.pc \notin Arbitrating PROVE Meant(t)'
  BY DEF Meant

\* No validator has been asked yet.
LEMMA MeantFresh ==
    ASSUME NEW t, t.pc \in {"decision", "append"}, t.rej = NoRejection PROVE Meant(t)'
  BY DEF Meant, NoRejection, Uniform, Early, Checks

LEMMA MeantOthers ==
    ASSUME TypeInv, NEW h \in Handlers, HandlerStep(h) \/ Fail(h), NEW g \in Handlers \ {h},
           Meant(session[g])
    PROVE  Meant(session[g])'
  <1>1. PICK s, id : s = session[g] /\ id = <<s.node, s.cur>>
    OBVIOUS
  <1>2. log' = log /\ session'[g] = s
    BY <1>1, Alongside
  <1>3. Payload(id)' = Payload(id) /\ LinesOf(id)' = LinesOf(id) /\ Unknown(id)' = Unknown(id)
    BY <1>2, StaticAfter
  <1>4. Meant(s)
    BY <1>1
  <1>. QED
    BY <1>1, <1>2, <1>3, <1>4 DEF Meant

\* A rejection that is kept, past the check of the items.
LEMMA MeantKept ==
    ASSUME TypeInv, NEW h \in Handlers, HandlerStep(h) \/ Fail(h), Meant(session[h]),
           NEW s, s = session[h], NEW t, t = session'[h], Stays(s, t), t.rej = s.rej,
           s.pc \in Arbitrating \ Early, t.pc \notin Early, t.pc \in Checks => s.pc \in Checks
    PROVE  Meant(session[h])'
  <1>1. PICK id, reason : id = Current(h) /\ reason = s.rej.reason
    OBVIOUS
  <1>2. id = <<s.node, s.cur>> /\ Meant(s)
    BY <1>1 DEF Current
  <1>3. /\ reason = "unknown_sku" <=> Unknown(id)
        /\ s.pc \in Checks => ~ Unknown(id)
        /\ reason = "transfer_rejected" => Payload(id).kind = "TransferDispatched"
        /\ reason = "transfer_overreceipt" => Payload(id).kind = "TransferReceived"
        /\ reason \in {"duplicate_receipt", "po_overreceipt"}
             => Payload(id).kind = "GoodsReceived"
        /\ Uniform(s.rej)
    BY <1>1, <1>2 DEF Meant, Checks, Early
  <1>. QED
    BY <1>1, <1>3, MeantPhase DEF Checks, Early

LEMMA MeantStore ==
    ASSUME TypeInv, NEW h \in Handlers, StoreEvent(h)
    PROVE  Meant(session[h])'
  <1>1. PICK s, t, id : s = session[h] /\ t = session'[h] /\ id = Current(h)
    OBVIOUS
  <1>2. /\ s.pc = "append" /\ Stays(s, t) /\ t.line = 1 /\ t.rej = NoRejection
        /\ t.pc = IF P(h).kind = "Other" THEN "decide" ELSE "items"
    BY <1>1, StoreEventDoes
  <1>3. P(h) \in Payloads /\ P(h) = Payload(id) /\ HandlerStep(h)
    BY <1>1, <1>2, Here, HereRecorded, PhaseKinds DEF HandlerStep
  <1>4. t.rej.reason = "accepted" /\ Uniform(t.rej)
    BY <1>2 DEF NoRejection, Uniform
  <1>5. CASE P(h).kind = "Other"
    <2>1. P(h).lines = <<>>
      BY <1>3, <1>5 DEF Payloads, Receipts, Dispatches, Arrivals, Others
    <2>2. ~ Unknown(id)
      BY <1>3, <2>1 DEF Unknown, LinesOf
    <2>. QED
      BY <1>1, <1>2, <1>3, <1>4, <1>5, <2>2, MeantPhase
  <1>6. CASE P(h).kind # "Other"
    <2>1. \A i \in LinesOf(id) : ~ (i < t.line)
      BY <1>2, <1>3, PayloadFields DEF LinesOf
    <2>. QED
      BY <1>1, <1>2, <1>3, <1>4, <1>6, <2>1, MeantPhase DEF Early, Checks
  <1>. QED
    BY <1>5, <1>6

LEMMA MeantItem ==
    ASSUME TypeInv, NEW h \in Handlers, Meant(session[h]), CheckItem(h)
    PROVE  Meant(session[h])'
  <1>1. PICK s, t, id : s = session[h] /\ t = session'[h] /\ id = Current(h)
    OBVIOUS
  <1>2. PICK rejected : rejected = (t.rej.reason # "accepted")
    OBVIOUS
  <1>3. /\ s.pc = "items" /\ Stays(s, t)
        /\ \/ s.line < Len(P(h).lines) /\ t.line = s.line + 1 /\ t.pc = "items"
           \/ /\ ~ (s.line < Len(P(h).lines)) /\ t.line = 1
              /\ t.pc = AfterItems(P(h).kind, rejected)
        /\ IF P(h).lines[s.line].sku \in Items THEN t.rej = s.rej
           ELSE t.rej.reason = "unknown_sku"
    BY <1>1, <1>2, CheckItemDoes DEF Line
  <1>4. HandlerStep(h) /\ Uniform(t.rej)
    BY <1>1, ValidateUniform DEF HandlerStep, Validate
  <1>5. /\ s.line \in 1..Len(P(h).lines) /\ Fits(s) /\ P(h) \in Payloads /\ P(h) = Payload(id)
        /\ s.pc \in Arbitrating /\ id = <<s.node, s.cur>> /\ P(h) = E(s)
    BY <1>1, <1>3, LineHere, Here, HereRecorded, PhaseKinds DEF Current
  <1>6. LinesOf(id) = 1..Len(P(h).lines) /\ Len(P(h).lines) \in Nat
    BY <1>5, PayloadFields DEF LinesOf
  <1>7. s.rej.reason \in {"accepted", "unknown_sku"}
    BY <1>3, <1>5 DEF Fits, RejectionFits
  <1>8. t.rej.reason \in {"accepted", "unknown_sku"}
    BY <1>3, <1>7
  <1>9. s.rej.reason = "unknown_sku" <=>
          \E i \in LinesOf(id) : i < s.line /\ P(h).lines[i].sku \notin Items
    BY <1>1, <1>3, <1>5 DEF Meant
  <1>10. t.rej.reason = "unknown_sku" <=>
           \E i \in LinesOf(id) : i < s.line + 1 /\ P(h).lines[i].sku \notin Items
    <2>1. t.rej.reason = "unknown_sku" <=> \/ s.rej.reason = "unknown_sku"
                                           \/ P(h).lines[s.line].sku \notin Items
      BY <1>3
    <2>2. \A i \in LinesOf(id) : i < s.line + 1 <=> i < s.line \/ i = s.line
      BY <1>5, <1>6
    <2>. QED
      BY <1>5, <1>6, <1>9, <2>1, <2>2
  <1>11. CASE t.pc = "items" /\ t.line = s.line + 1
    BY <1>1, <1>3, <1>4, <1>5, <1>8, <1>10, <1>11, MeantPhase DEF Early, Checks
  <1>12. CASE ~ (s.line < Len(P(h).lines)) /\ t.pc = AfterItems(P(h).kind, rejected)
    <2>1. \A i \in LinesOf(id) : i < s.line + 1
      <3>1. s.line = Len(P(h).lines)
        BY <1>5, <1>6, <1>12
      <3>. QED
        BY <1>6, <3>1
    <2>2. t.rej.reason = "unknown_sku" <=> Unknown(id)
      BY <1>5, <1>10, <2>1 DEF Unknown
    <2>3. P(h).kind \in {"TransferReceived", "GoodsReceived", "TransferDispatched"}
      BY <1>3, <1>5, PayloadFields DEF Fits, KindFits
    <2>4. rejected \in BOOLEAN /\ (rejected <=> t.rej.reason = "unknown_sku")
      BY <1>2, <1>8
    <2>5. t.pc \notin Early /\ (t.pc \in Checks => ~ rejected)
      BY <1>12, <2>3, <2>4 DEF AfterItems, Early, Checks
    <2>6. t.pc \in Checks => ~ Unknown(id)
      BY <2>2, <2>4, <2>5
    <2>7. t.pc # "items"
      BY <2>5 DEF Early
    <2>. QED
      BY <1>1, <1>3, <1>4, <1>8, <2>2, <2>6, <2>7, MeantPhase
  <1>. QED
    BY <1>3, <1>11, <1>12

\* A validator that rejects for a reason of the event's kind.
LEMMA MeantRejected ==
    ASSUME TypeInv, NEW h \in Handlers, Meant(session[h]), Validate(h),
           NEW s, s = session[h], NEW t, t = session'[h], Stays(s, t),
           s.pc \in Checks, t.pc \notin Early, NEW reason, t.rej.reason = reason,
           \/ reason \in {"duplicate_receipt", "po_overreceipt"} /\ P(h).kind = "GoodsReceived"
           \/ reason = "transfer_rejected" /\ P(h).kind = "TransferDispatched"
           \/ reason = "transfer_overreceipt" /\ P(h).kind = "TransferReceived"
    PROVE  Meant(session[h])'
  <1>1. PICK id : id = Current(h)
    OBVIOUS
  <1>2. s.pc \in Arbitrating /\ id = <<s.node, s.cur>>
    BY <1>1, PhaseKinds DEF Checks, Current
  <1>3. P(h) = Payload(id) /\ ~ Unknown(id)
    BY <1>1, <1>2, HereRecorded DEF Meant
  <1>4. HandlerStep(h) /\ Uniform(t.rej)
    BY ValidateUniform DEF HandlerStep
  <1>5. t.pc # "items"
    BY DEF Early
  <1>. QED
    BY <1>1, <1>3, <1>4, <1>5, MeantPhase

LEMMA TotalRead ==
    ASSUME TypeInv, NEW h \in Handlers, ReadTotal(h),
           NEW s, s = session[h], NEW t, t = session'[h]
    PROVE  /\ t.rej = s.rej
           /\ t.seen = poTotal[<<P(h).po, Line(h).sku>>]
  <1>1. t = [s EXCEPT !.pc = "own", !.seen = ReceivedAgainstPO(P(h).po, Line(h).sku)]
    BY Becomes DEF ReadTotal
  <1>2. DOMAIN s = Fields
    BY SessionFields DEF TypeInv, TypeOK
  <1>. QED
    BY <1>1, <1>2 DEF Fields, ReceivedAgainstPO

\* What the check of the order finds to be in excess.
Over(h) == Excess(session[h].seen, Receipt(Current(h)), Line(h).qty,
                  Ordered[<<P(h).po, Line(h).sku>>])

LEMMA OrderChecked ==
    ASSUME TypeInv, NEW h \in Handlers, CheckOrder(h),
           NEW s, s = session[h], NEW t, t = session'[h]
    PROVE  \/ Over(h) <= 0 /\ t.rej = s.rej
           \/ t.rej.reason = "po_overreceipt" /\ t.rej.excess = Over(h)
  <1>1. DOMAIN s = Fields
    BY SessionFields DEF TypeInv, TypeOK
  <1>2. \/ Over(h) <= 0 /\ Goto(h, "record")
        \/ \E all : Become(h, [s EXCEPT !.pc = "record",
              !.rej = [reason |-> "po_overreceipt", events |-> all, excess |-> Over(h)]])
    BY DEF CheckOrder, Over
  <1>3. CASE Over(h) <= 0 /\ Goto(h, "record")
    BY <1>3, GotoDoes
  <1>4. CASE \E all : Become(h, [s EXCEPT !.pc = "record",
              !.rej = [reason |-> "po_overreceipt", events |-> all, excess |-> Over(h)]])
    <2>1. PICK all, excess :
            /\ excess = Over(h)
            /\ t = [s EXCEPT !.pc = "record",
                  !.rej = [reason |-> "po_overreceipt", events |-> all, excess |-> excess]]
      BY <1>4, Becomes
    <2>2. t.rej = [reason |-> "po_overreceipt", events |-> all, excess |-> excess]
      BY <1>1, <2>1 DEF Fields
    <2>. QED
      BY <2>1, <2>2
  <1>. QED
    BY <1>2, <1>3, <1>4

LEMMA MeantValidate ==
    ASSUME TypeInv, NEW h \in Handlers, Meant(session[h]), Validate(h)
    PROVE  Meant(session[h])'
  <1>1. PICK s, t : s = session[h] /\ t = session'[h]
    OBVIOUS
  <1>2. HandlerStep(h)
    BY DEF HandlerStep
  <1>3. ASSUME s.pc \in Checks
        PROVE  s.pc \in Arbitrating \ Early /\ Fits(s) /\ P(h) = E(s)
    BY <1>1, <1>3, PhaseKinds, Here DEF Checks, Early
  <1>4. ASSUME s.pc \in Checks, Stays(s, t), t.pc \notin Early, t.rej = s.rej
        PROVE  Meant(session[h])'
    BY <1>1, <1>2, <1>3, <1>4, MeantKept
  <1>5. CASE CheckItem(h)
    BY <1>5, MeantItem
  <1>6. CASE CheckNote(h)
    <2>1. /\ s.pc = "note" /\ Stays(s, t)
          /\ t.pc \in {"total", "record"}
          /\ t.rej = s.rej \/ t.rej.reason = "duplicate_receipt"
      BY <1>1, <1>6, CheckNoteDoes
    <2>2. s.pc \in Checks /\ t.pc \notin Early
      BY <2>1 DEF Checks, Early
    <2>3. P(h).kind = "GoodsReceived"
      BY <1>3, <2>1, <2>2 DEF Fits, KindFits
    <2>. QED
      BY <1>1, <1>4, <2>1, <2>2, <2>3, MeantRejected
  <1>7. CASE ReadTotal(h)
    <2>1. s.pc = "total" /\ Stays(s, t) /\ t.pc = "own"
      BY <1>1, <1>7, ReadTotalDoes
    <2>2. t.rej = s.rej
      BY <1>1, <1>7, TotalRead
    <2>. QED
      BY <1>4, <2>1, <2>2 DEF Checks, Early
  <1>8. CASE CheckOrder(h)
    <2>1. s.pc = "own" /\ Stays(s, t) /\ t.pc = "record"
      BY <1>1, <1>8, CheckOrderDoes
    <2>2. t.rej = s.rej \/ t.rej.reason = "po_overreceipt"
      BY <1>1, <1>8, OrderChecked
    <2>3. s.pc \in Checks /\ t.pc \notin Early
      BY <2>1 DEF Checks, Early
    <2>4. P(h).kind = "GoodsReceived"
      BY <1>3, <2>1, <2>3 DEF Fits, KindFits
    <2>. QED
      BY <1>1, <1>4, <2>1, <2>2, <2>3, <2>4, MeantRejected
  <1>9. CASE CheckDestination(h)
    <2>1. s.pc = "destination" /\ Stays(s, t) /\ t.pc = "record"
      BY <1>1, <1>9, CheckDestinationDoes
    <2>2. t.rej = s.rej \/ t.rej.reason = "transfer_rejected"
      BY <1>1, <1>9, CheckDestinationDoes
    <2>3. s.pc \in Checks /\ t.pc \notin Early
      BY <2>1 DEF Checks, Early
    <2>4. P(h).kind = "TransferDispatched"
      BY <1>3, <2>1, <2>3 DEF Fits, KindFits
    <2>. QED
      BY <1>1, <1>4, <2>1, <2>2, <2>3, <2>4, MeantRejected
  <1>10. CASE CheckTransit(h)
    <2>1. s.pc = "transit" /\ Stays(s, t) /\ t.pc \in {"folded", "transit", "row"}
      BY <1>1, <1>10, CheckTransitDoes
    <2>2. t.rej = s.rej \/ t.rej.reason = "transfer_overreceipt"
      BY <1>1, <1>10, CheckTransitDoes
    <2>3. s.pc \in Checks /\ t.pc \notin Early
      BY <2>1 DEF Checks, Early
    <2>4. P(h).kind = "TransferReceived"
      BY <1>3, <2>1, <2>3 DEF Fits, KindFits
    <2>. QED
      BY <1>1, <1>4, <2>1, <2>2, <2>3, <2>4, MeantRejected
  <1>11. CASE CheckFolded(h)
    <2>1. s.pc = "folded" /\ Stays(s, t) /\ t.pc \in {"transit", "row"}
      BY <1>1, <1>11, CheckFoldedDoes
    <2>2. t.rej = s.rej \/ t.rej.reason = "transfer_overreceipt"
      <3>. DEFINE over == Line(h).qty - (s.seen + folded[<<Current(h), Line(h).sku>>])
      <3>1. IF over > 0 THEN t.rej.reason = "transfer_overreceipt" ELSE t.rej = s.rej
        BY <1>1, <1>11, CheckFoldedDoes
      <3>. HIDE DEF over
      <3>. QED
        BY <3>1
    <2>3. s.pc \in Checks /\ t.pc \notin Early
      BY <2>1 DEF Checks, Early
    <2>4. P(h).kind = "TransferReceived"
      BY <1>3, <2>1, <2>3 DEF Fits, KindFits
    <2>. QED
      BY <1>1, <1>4, <2>1, <2>2, <2>3, <2>4, MeantRejected
  <1>. QED
    BY <1>5, <1>6, <1>7, <1>8, <1>9, <1>10, <1>11 DEF Validate

\* From record on, the rejection is what the validators made it.
Later == {"record", "row", "fold", "fail", "forward", "comps", "emit", "enqueue", "decide"}

LEMMA RecordKeeps ==
    ASSUME TypeInv, NEW h \in Handlers, Record(h),
           NEW s, s = session[h], NEW t, t = session'[h]
    PROVE  s.pc \in Later /\ t.pc \in Later /\ Stays(s, t) /\ t.rej = s.rej
  <1>1. CASE RecordFact(h)
    <2>1. s.pc = "record" /\ Stays(s, t) /\ t.rej = s.rej
      BY <1>1, RecordFactDoes
    <2>2. t.pc \in {"comps", "decide"}
      BY <1>1, RecordFactDoes
    <2>. QED
      BY <2>1, <2>2 DEF Later
  <1>2. CASE RecordDispatchLine(h)
    <2>1. s.pc = "record" /\ Stays(s, t) /\ t.rej = s.rej
          /\ t.pc \in {"record", "fail", "forward"}
      BY <1>2, RecordDispatchLineDoes
    <2>. QED
      BY <2>1 DEF Later
  <1>3. CASE KillTransfer(h)
    BY <1>3, KillTransferDoes DEF Later
  <1>4. CASE ReadRow(h)
    <2>1. s.pc = "row" /\ Stays(s, t) /\ t.rej = s.rej
          /\ t.pc \in {"fold", "row", "forward"}
      BY <1>4, ReadRowDoes
    <2>. QED
      BY <2>1 DEF Later
  <1>5. CASE FoldLine(h)
    BY <1>5, FoldLineDoes DEF Later
  <1>6. CASE ForwardDispatch(h)
    BY <1>6, ForwardDispatchDoes DEF Later
  <1>7. CASE ForwardArrival(h)
    <2>1. s.pc = "forward" /\ Stays(s, t) /\ t.rej = s.rej /\ t.pc \in {"comps", "decide"}
      BY <1>7, ForwardArrivalDoes
    <2>. QED
      BY <2>1 DEF Later
  <1>. QED
    BY <1>1, <1>2, <1>3, <1>4, <1>5, <1>6, <1>7 DEF Record

LEMMA SettleKeeps ==
    ASSUME TypeInv, NEW h \in Handlers,
           ReadCompensations(h) \/ Emit(h) \/ EnqueueCompensation(h),
           NEW s, s = session[h], NEW t, t = session'[h]
    PROVE  /\ s.pc \in {"comps", "emit", "enqueue"} /\ UNCHANGED receiptVars
           /\ \/ t.pc \in {"emit", "enqueue", "decide"} /\ Stays(s, t) /\ t.rej = s.rej
              \/ t = IdleSession
  <1>1. CASE ReadCompensations(h)
    <2>1. End(h) => t = IdleSession
      BY Becomes DEF End
    <2>2. UNCHANGED receiptVars
      BY <1>1, ReadCompensationsDoes DEF storeVars, receiptVars
    <2>. QED
      BY <1>1, <2>1, <2>2, ReadCompensationsDoes
  <1>2. CASE Emit(h)
    BY <1>2, EmitDoes
  <1>3. CASE EnqueueCompensation(h)
    BY <1>3, EnqueueCompensationDoes
  <1>. QED
    BY <1>1, <1>2, <1>3

\* Where a handler comes to an event, or leaves it.
Between == {"receive", "setpushed", "ack", "idle", "decision", "append"}

LEMMA EndsBetween ==
    ASSUME TypeInv, NEW h \in Handlers,
           \/ ReceiveBatch(h) \/ ReadDecision(h) \/ Decide(h)
           \/ StorePushed(h) \/ Ack(h) \/ End(h),
           NEW t, t = session'[h]
    PROVE  t.pc \in Between /\ t.rej = NoRejection
  <1>1. PICK s : s = session[h]
    OBVIOUS
  <1>2. Fits(s) /\ IdleSession.rej = NoRejection /\ IdleSession.pc = "idle"
    BY <1>1 DEF TypeInv, IdleSession
  <1>3. s.pc \in {"receive", "decision", "setpushed", "ack"} => s.rej = NoRejection
    BY <1>2 DEF Fits, RejectionFits
  <1>4. CASE ReceiveBatch(h)
    <2>1. s.pc = "receive" /\ t.rej = s.rej /\ t.pc \in {"decision", "setpushed"}
      BY <1>1, <1>4, ReceiveBatchDoes
    <2>. QED
      BY <1>3, <2>1 DEF Between
  <1>5. CASE NextEvent(h)
    <2>1. t.pc \in {"decision", "setpushed"} /\ t.rej = NoRejection
      BY <1>5, NextEventDoes
    <2>. QED
      BY <2>1 DEF Between
  <1>6. CASE ReadDecision(h)
    <2>1. NextEvent(h) \/ (s.pc = "decision" /\ t.pc = "append" /\ t.rej = s.rej)
      BY <1>1, <1>6, ReadDecisionDoes
    <2>. QED
      BY <1>3, <1>5, <2>1 DEF Between
  <1>7. CASE StorePushed(h) \/ Ack(h) \/ End(h)
    <2>1. \/ t = IdleSession
          \/ s.pc \in {"setpushed", "ack"} /\ t.pc \in {"ack", "receive"} /\ t.rej = s.rej
      BY <1>1, <1>7, LeaveDoes
    <2>. QED
      BY <1>2, <1>3, <2>1 DEF Between
  <1>. QED
    BY <1>4, <1>5, <1>6, <1>7 DEF Decide

LEMMA MeantOwn ==
    ASSUME TypeInv, NEW h \in Handlers, HandlerStep(h) \/ Fail(h), Meant(session[h])
    PROVE  Meant(session[h])'
  <1>1. PICK s, t : s = session[h] /\ t = session'[h]
    OBVIOUS
  <1>2. Later \subseteq Arbitrating \ Early /\ Later \cap Checks = {}
        /\ Later \cap Early = {}
    BY PhaseKinds DEF Later, Early, Checks
  <1>3. ASSUME s.pc \in Later, t.pc \in Later, Stays(s, t), t.rej = s.rej
        PROVE  Meant(session[h])'
    <2>1. s.pc \in Arbitrating \ Early /\ t.pc \notin Early /\ t.pc \notin Checks
      BY <1>2, <1>3
    <2>. QED
      BY <1>1, <1>3, <2>1, MeantKept
  <1>4. CASE StoreEvent(h) \/ Validate(h)
    BY <1>4, MeantStore, MeantValidate
  <1>5. CASE Record(h)
    BY <1>1, <1>3, <1>5, RecordKeeps
  <1>6. CASE ReadCompensations(h) \/ Emit(h) \/ EnqueueCompensation(h)
    <2>1. /\ s.pc \in {"comps", "emit", "enqueue"}
          /\ \/ t.pc \in {"emit", "enqueue", "decide"} /\ Stays(s, t) /\ t.rej = s.rej
             \/ t = IdleSession
      BY <1>1, <1>6, SettleKeeps
    <2>2. CASE t = IdleSession
      <3>1. t.pc \notin Arbitrating
        BY <2>2, PhaseKinds DEF IdleSession
      <3>. QED
        BY <1>1, <3>1, MeantElsewhere
    <2>3. CASE t.pc \in {"emit", "enqueue", "decide"} /\ Stays(s, t) /\ t.rej = s.rej
      BY <1>3, <2>1, <2>3 DEF Later
    <2>. QED
      BY <2>1, <2>2, <2>3
  <1>7. CASE \/ ReceiveBatch(h) \/ ReadDecision(h) \/ Decide(h)
             \/ StorePushed(h) \/ Ack(h) \/ End(h)
    <2>1. t.pc \in Between /\ t.rej = NoRejection
      BY <1>1, <1>7, EndsBetween
    <2>2. t.pc \notin Arbitrating \/ t.pc \in {"decision", "append"}
      BY <2>1, PhaseKinds DEF Between
    <2>. QED
      BY <1>1, <2>1, <2>2, MeantElsewhere, MeantFresh
  <1>. QED
    BY <1>4, <1>5, <1>6, <1>7 DEF HandlerStep, Settle, Notice, Fail

-----------------------------------------------------------------------------
(* What the receipts and the orders are left with *)

LEMMA CountsWhat ==
    ASSUME TypeInv, NEW h \in Handlers, NEW q \in Nat, Counts(h, q)
    PROVE  q = Payload(Current(h)).lines[1].qty - session[h].rej.excess
  <1>1. /\ RecordFact(h) /\ receipts[Current(h)] = NotRecorded
        /\ session[h].rej.reason \in {"accepted", "po_overreceipt"}
        /\ receipts' = [receipts EXCEPT ![Current(h)] = q]
    BY DEF Counts
  <1>2. session[h].pc = "record" /\ session[h].pc \in Arbitrating
    BY <1>1, PhaseKinds DEF RecordFact, Step, At
  <1>3. P(h) = Payload(Current(h)) /\ Current(h) \in Ids /\ session[h].line \in 1..Len(P(h).lines)
        /\ P(h) \in Payloads /\ P(h).kind = "GoodsReceived"
    BY <1>1, <1>2, HereRecorded, Here, LineHere DEF RecordFact
  <1>4. session[h].line = 1
    <2>1. Len(P(h).lines) = 1
      BY <1>3, PayloadFields
    <2>. QED
      BY <1>3, <2>1
  <1>5. PICK qty : qty = Line(h).qty - session[h].rej.excess
    OBVIOUS
  <1>6. RecordReceipt(Current(h), P(h).po, Line(h).sku, qty)
    BY <1>1, <1>5 DEF RecordFact
  <1>7. receipts' = [receipts EXCEPT ![Current(h)] = qty]
    BY <1>1, <1>6 DEF RecordReceipt
  <1>8. q = qty
    BY <1>1, <1>3, <1>7 DEF TypeInv, TypeOK, StoreTypeOK
  <1>. QED
    BY <1>3, <1>4, <1>5, <1>8 DEF Line

LEMMA StaysWithinOrder ==
    ASSUME TypeInv, ReceiptInv, NEW h \in Handlers, HandlerStep(h) \/ Fail(h)
    PROVE  POWithinOrder'
  <1>. SUFFICES ASSUME NEW line \in DOMAIN Ordered
                PROVE  poTotal'[<<line[1], line[2]>>] <= Ordered[line]
    BY DEF POWithinOrder, ReceivedAgainstPO
  <1>1. line = <<line[1], line[2]>> /\ line \in POs \X SKUs /\ Ordered[line] \in Nat
    BY StoreAssumption
  <1>2. poTotal[line] <= Ordered[line]
    BY <1>1 DEF ReceiptInv, FactsSound, POWithinOrder, ReceivedAgainstPO
  <1>3. CASE UNCHANGED receiptVars
    BY <1>1, <1>2, <1>3 DEF receiptVars
  <1>4. CASE \E q \in Nat : Counts(h, q)
    <2>1. PICK q \in Nat : Counts(h, q)
      BY <1>4
    <2>2. PICK s, id : s = session[h] /\ id = Current(h) /\ id = <<s.node, s.cur>>
      BY DEF Current
    <2>3. poTotal' = [poTotal EXCEPT ![OrderLine(id)] = @ + q]
      BY <2>1, <2>2 DEF Counts
    <2>4. CASE line = OrderLine(id)
      <3>1. /\ s.pc = "record" /\ s.pc \in Arbitrating
            /\ s.rej.reason \in {"accepted", "po_overreceipt"}
        BY <2>1, <2>2, PhaseKinds DEF Counts, RecordFact, Step, At
      <3>2. id \in OfKind("GoodsReceived") /\ ~ Has(id)
        BY <2>1, <2>2, CountsAlone
      <3>3. Payload(id).kind = "GoodsReceived" /\ Counting(s) /\ Noted(s)
        BY <2>2, <3>1, <3>2 DEF OfKind, Counting, ReceiptInv
      <3>4. poTotal[line] + Payload(id).lines[1].qty - s.rej.excess <= Ordered[line]
        BY <2>2, <2>4, <3>1, <3>2, <3>3 DEF Noted
      <3>5. q = Payload(id).lines[1].qty - s.rej.excess
        BY <2>1, <2>2, CountsWhat
      <3>6. poTotal'[line] = poTotal[line] + q
        BY <1>1, <2>3, <2>4 DEF TypeInv, TypeOK, StoreTypeOK
      <3>7. poTotal[line] \in Nat /\ s.rej.excess \in Nat /\ Payload(id).lines[1].qty \in Nat
        <4>1. poTotal[line] \in Nat
          BY <1>1 DEF TypeInv, TypeOK, StoreTypeOK
        <4>2. s \in Sessions /\ P(h) \in Payloads /\ P(h) = Payload(id)
          BY <2>2, <3>1, Here, HereRecorded
        <4>3. s.rej.excess \in Nat
          BY <4>2 DEF Sessions, Rejections
        <4>4. 1 \in DOMAIN Payload(id).lines
          BY <3>3, <4>2, PayloadFields
        <4>. QED
          BY <4>1, <4>2, <4>3, <4>4, LineType
      <3>. QED
        BY <1>1, <3>4, <3>5, <3>6, <3>7
    <2>5. CASE line # OrderLine(id)
      <3>1. poTotal'[line] = poTotal[line]
        BY <1>1, <2>3, <2>5 DEF TypeInv, TypeOK, StoreTypeOK
      <3>. QED
        BY <1>1, <1>2, <3>1
    <2>. QED
      BY <2>4, <2>5
  <1>. QED
    BY <1>3, <1>4, ReceiptsAfter

LEMMA FactsStaySound ==
    ASSUME TypeInv, ReceiptInv, NEW h \in Handlers, HandlerStep(h) \/ Fail(h)
    PROVE  FactsSound'
  <1>1. log' = log
    BY Alongside
  <1>2. /\ OfKind("GoodsReceived")' = OfKind("GoodsReceived")
        /\ OfKind("GoodsReceived") \subseteq Ids
        /\ \A a, b : Alike(a, b)' = Alike(a, b)
    BY <1>1, StaticAfter DEF OfKind, Recorded
  <1>3. ASSUME NEW o \in Ids, Has(o)' PROVE o \in OfKind("GoodsReceived")
    <2>1. CASE Has(o)
      BY <2>1 DEF ReceiptInv, FactsSound
    <2>2. CASE ~ Has(o)
      BY <1>3, <2>2, HasAfter, CountsAlone
    <2>. QED
      BY <2>1, <2>2
  <1>4. ASSUME NEW a \in OfKind("GoodsReceived"), NEW b \in OfKind("GoodsReceived"),
               Has(a)', Has(b)', Alike(a, b)
        PROVE  a = b
    <2>1. a \in Ids /\ b \in Ids /\ Alike(b, a)
      BY <1>2, <1>4 DEF Alike
    <2>2. CASE Has(a) /\ Has(b)
      BY <1>4, <2>2 DEF ReceiptInv, FactsSound
    <2>3. CASE ~ Has(a)
      <3>1. a = Current(h) /\ \E q \in Nat : Counts(h, q)
        BY <1>4, <2>1, <2>3, HasAfter
      <3>2. Has(b) \/ b = a
        BY <1>4, <2>1, <3>1, HasAfter
      <3>. QED
        BY <2>1, <3>1, <3>2, CountsAlone
    <2>4. CASE ~ Has(b)
      <3>1. b = Current(h) /\ \E q \in Nat : Counts(h, q)
        BY <1>4, <2>1, <2>4, HasAfter
      <3>2. Has(a) \/ a = b
        BY <1>4, <2>1, <3>1, HasAfter
      <3>. QED
        BY <1>4, <3>1, <3>2, CountsAlone
    <2>. QED
      BY <2>2, <2>3, <2>4
  <1>. QED
    BY <1>2, <1>3, <1>4, StaysWithinOrder DEF FactsSound

-----------------------------------------------------------------------------
(* What a handler has found at a receipt *)

LEMMA NotedOthers ==
    ASSUME TypeInv, ReceiptInv, ReceiptsInTurn, NEW h \in Handlers, HandlerStep(h) \/ Fail(h),
           NEW g \in Handlers \ {h}
    PROVE  Noted(session[g])'
  <1>1. PICK s, id : s = session[g] /\ id = <<s.node, s.cur>> /\ id = Current(g)
    BY DEF Current
  <1>2. log' = log /\ session'[g] = s
    BY <1>1, Alongside
  <1>3. Payload(id)' = Payload(id)
    BY <1>2, StaticAfter
  <1>4. ~ (s.pc \in Arbitrating /\ Payload(id).kind = "GoodsReceived")
    <2>. SUFFICES ASSUME s.pc \in Arbitrating, Payload(id).kind = "GoodsReceived" PROVE FALSE
      OBVIOUS
    <2>1. P(g).kind = "GoodsReceived" /\ session[h].pc # "idle"
      BY <1>1, ActsAwake DEF P
    <2>2. g = h
      BY <1>1, <2>1, NoneBeside DEF ReceiptInv
    <2>. QED
      BY <2>2
  <1>. QED
    BY <1>1, <1>2, <1>3, <1>4 DEF Noted

LEMMA NotedElsewhere ==
    ASSUME NEW t, t.pc \notin Arbitrating \/ Payload(<<t.node, t.cur>>)'.kind # "GoodsReceived"
    PROVE  Noted(t)'
  BY DEF Noted

\* Nothing has been looked up, and a receipt with an unknown SKU looks nothing up.
LEMMA NotedBefore ==
    ASSUME NEW t,
           \/ t.pc \in Between \cup {"items", "note", "destination", "transit", "row"}
           \/ t.pc = "record" /\ t.rej.reason = "unknown_sku",
           t.rej.reason \in {"accepted", "unknown_sku"}
    PROVE  Noted(t)'
  BY DEF Noted, Counting, Between

LEMMA NotedPhase ==
    ASSUME TypeInv, NEW h \in Handlers, HandlerStep(h) \/ Fail(h),
           NEW t, t = session'[h], Stays(session[h], t),
           NEW id, id = Current(h), NEW reason, reason = t.rej.reason,
           reason = "duplicate_receipt" => Repeats(id)',
           t.pc \in {"comps", "emit", "enqueue", "decide"}
             /\ reason \in {"accepted", "po_overreceipt"} => Has(id)',
           Counting(t) => \A o \in OfKind("GoodsReceived") : Has(o)' /\ Alike(o, id) => o = id,
           t.pc = "own" => t.seen = poTotal'[OrderLine(id)],
           t.pc = "record" /\ Counting(t) /\ ~ Has(id)' /\ OrderLine(id) \in DOMAIN Ordered =>
              poTotal'[OrderLine(id)] + Payload(id).lines[1].qty - t.rej.excess
                <= Ordered[OrderLine(id)]
    PROVE  Noted(session[h])'
  <1>1. id = <<t.node, t.cur>> /\ log' = log
    BY Alongside DEF Stays, Current
  <1>2. /\ Payload(id)' = Payload(id) /\ OrderLine(id)' = OrderLine(id)
        /\ OfKind("GoodsReceived")' = OfKind("GoodsReceived")
        /\ \A o : Alike(o, id)' = Alike(o, id)
    BY <1>1, StaticAfter
  <1>3. Counting(t)' = Counting(t)
    BY DEF Counting
  <1>. QED
    BY <1>1, <1>2, <1>3 DEF Noted

LEMMA NotedItem ==
    ASSUME TypeInv, NEW h \in Handlers, CheckItem(h)
    PROVE  Noted(session[h])'
  <1>1. PICK s, t : s = session[h] /\ t = session'[h]
    OBVIOUS
  <1>2. PICK rejected : rejected = (t.rej.reason # "accepted")
    OBVIOUS
  <1>3. /\ s.pc = "items"
        /\ t.pc = "items" \/ t.pc = AfterItems(P(h).kind, rejected)
        /\ t.rej = s.rej \/ t.rej.reason = "unknown_sku"
    BY <1>1, <1>2, CheckItemDoes
  <1>4. /\ Fits(s) /\ P(h) = E(s) /\ P(h) \in Payloads
    BY <1>1, <1>3, Here, PhaseKinds
  <1>5. t.rej.reason \in {"accepted", "unknown_sku"}
    BY <1>3, <1>4 DEF Fits, RejectionFits
  <1>6. P(h).kind \in {"TransferReceived", "GoodsReceived", "TransferDispatched"}
        /\ rejected \in BOOLEAN
    BY <1>2, <1>3, <1>4, PayloadFields DEF Fits, KindFits
  <1>7. \/ t.pc \in {"items", "note", "destination", "transit", "row"}
        \/ t.pc = "record" /\ rejected
    BY <1>3, <1>6 DEF AfterItems
  <1>8. rejected => t.rej.reason = "unknown_sku"
    BY <1>2, <1>5
  <1>. QED
    BY <1>1, <1>5, <1>7, <1>8, NotedBefore

LEMMA NotedNote ==
    ASSUME TypeInv, ReceiptInv, NEW h \in Handlers, CheckNote(h)
    PROVE  Noted(session[h])'
  <1>1. PICK s, t, id, keyed : /\ s = session[h] /\ t = session'[h] /\ id = Current(h)
                               /\ keyed = KeyedLike(P(h))
    OBVIOUS
  <1>2. s.pc = "note" /\ UNCHANGED storeVars /\ Stays(s, t) /\ HandlerStep(h)
    BY <1>1, CheckNoteDoes DEF HandlerStep, Validate
  <1>3. /\ id \in Recorded /\ id \in Ids /\ P(h) = Payload(id) /\ Fits(s) /\ P(h) = E(s)
        /\ s.line \in 1..Len(P(h).lines) /\ P(h) \in Payloads
    BY <1>1, <1>2, HereRecorded, Here, LineHere, PhaseKinds DEF Recorded
  <1>4. P(h).kind = "GoodsReceived" /\ s.rej.reason = "accepted" /\ Len(P(h).lines) = 1
    BY <1>2, <1>3, PayloadFields DEF Fits, KindFits, RejectionFits
  <1>5. OrderLine(id) = <<P(h).po, Line(h).sku>>
    <2>1. s.line = 1
      BY <1>3, <1>4
    <2>. QED
      BY <1>1, <1>3, <2>1 DEF OrderLine, Line
  <1>6. id \in OfKind("GoodsReceived")
    BY <1>3, <1>4 DEF OfKind
  <1>7. /\ UNCHANGED <<receipts, poTotal>> /\ log' = log
        /\ \A o \in Ids : Has(o)' = Has(o)
        /\ Repeats(id)' = Repeats(id)
    <2>1. UNCHANGED <<receipts, poTotal>> /\ log' = log
      BY <1>2, Alongside DEF storeVars, receiptVars
    <2>2. \A o : Has(o)' = Has(o)
      BY <2>1 DEF Has
    <2>. QED
      BY <2>1, <2>2, StaticAfter DEF Repeats
  <1>8. \A o : o \in keyed <=> o \in Ids /\ Has(o) /\ Alike(o, id)
    BY <1>1, <1>3 DEF KeyedLike, Has, Alike
  <1>9. \A a, b \in keyed : a = b
    BY <1>8 DEF ReceiptInv, FactsSound, Alike
  <1>10. keyed \in SUBSET Ids /\ (keyed # {} => DeliveryNoteFirstSeen(keyed) \in keyed)
    <2>1. keyed \in SUBSET Ids
      BY <1>8
    <2>. QED
      BY <2>1, FirstSeen
  <1>11. CASE keyed # {} /\ DeliveryNoteFirstSeen(keyed) # id
    <2>1. t.pc = "record" /\ t.rej.reason = "duplicate_receipt"
      BY <1>1, <1>11, CheckNoteDoes
    <2>2. PICK o \in keyed : o # id
      BY <1>10, <1>11
    <2>3. id \notin keyed
      BY <1>9, <2>2
    <2>4. Repeats(id)
      BY <1>3, <1>8, <2>2, <2>3 DEF Repeats, Alike, ReceiptInv, FactsSound
    <2>5. ~ Counting(t)
      BY <2>1 DEF Counting
    <2>. QED
      BY <1>1, <1>2, <1>7, <2>1, <2>4, <2>5, NotedPhase
  <1>12. CASE ~ (keyed # {} /\ DeliveryNoteFirstSeen(keyed) # id)
    <2>1. /\ t.rej = s.rej
          /\ t.pc = IF OrderLine(id) \in DOMAIN Ordered THEN "total" ELSE "record"
      BY <1>1, <1>5, <1>12, CheckNoteDoes
    <2>2. \A o \in OfKind("GoodsReceived") : Has(o) /\ Alike(o, id) => o = id
      BY <1>8, <1>9, <1>10, <1>12 DEF OfKind, Recorded
    <2>3. \A o \in OfKind("GoodsReceived") : Has(o)' /\ Alike(o, id) => o = id
      BY <1>7, <2>2 DEF OfKind, Recorded
    <2>. QED
      BY <1>1, <1>2, <1>4, <2>1, <2>3, NotedPhase
  <1>. QED
    BY <1>11, <1>12

\* Nothing is written, so what was found of the other receipts still holds.
LEMMA NotedAlike ==
    ASSUME UNCHANGED storeVars, log' = log, NEW id
    PROVE  /\ Has(id)' = Has(id) /\ Repeats(id)' = Repeats(id) /\ poTotal' = poTotal
           /\ \A o : Has(o)' = Has(o)
  <1>1. UNCHANGED <<receipts, poTotal>> /\ \A o : Has(o)' = Has(o)
    BY DEF storeVars, receiptVars, Has
  <1>. QED
    BY <1>1, StaticAfter DEF Repeats

LEMMA NotedTotal ==
    ASSUME TypeInv, ReceiptInv, NEW h \in Handlers, ReadTotal(h)
    PROVE  Noted(session[h])'
  <1>1. PICK s, t, id : s = session[h] /\ t = session'[h] /\ id = Current(h)
    OBVIOUS
  <1>2. s.pc = "total" /\ UNCHANGED storeVars /\ Stays(s, t) /\ t.pc = "own" /\ HandlerStep(h)
    BY <1>1, ReadTotalDoes DEF HandlerStep, Validate
  <1>3. t.rej = s.rej /\ t.seen = poTotal[<<P(h).po, Line(h).sku>>]
    BY <1>1, TotalRead
  <1>4. /\ P(h) = Payload(id) /\ Fits(s) /\ P(h) = E(s) /\ id = <<s.node, s.cur>>
        /\ s.line \in 1..Len(P(h).lines) /\ P(h) \in Payloads /\ s.pc \in Arbitrating
    BY <1>1, <1>2, HereRecorded, Here, LineHere, PhaseKinds DEF Current
  <1>5. P(h).kind = "GoodsReceived" /\ s.rej.reason = "accepted"
    BY <1>2, <1>4 DEF Fits, KindFits, RejectionFits
  <1>6. OrderLine(id) = <<P(h).po, Line(h).sku>>
    <2>1. Len(P(h).lines) = 1
      BY <1>4, <1>5, PayloadFields
    <2>2. s.line = 1
      BY <1>4, <2>1
    <2>. QED
      BY <1>1, <1>4, <2>2 DEF OrderLine, Line
  <1>7. \A o \in OfKind("GoodsReceived") : Has(o) /\ Alike(o, id) => o = id
    BY <1>1, <1>2, <1>4, <1>5 DEF ReceiptInv, Noted, Counting
  <1>8. poTotal' = poTotal /\ \A o : Has(o)' = Has(o)
    BY <1>2, Alongside, NotedAlike
  <1>. QED
    BY <1>1, <1>2, <1>3, <1>5, <1>6, <1>7, <1>8, NotedPhase

LEMMA NotedOrder ==
    ASSUME TypeInv, ReceiptInv, NEW h \in Handlers, CheckOrder(h)
    PROVE  Noted(session[h])'
  <1>1. PICK s, t, id : s = session[h] /\ t = session'[h] /\ id = Current(h)
    OBVIOUS
  <1>2. s.pc = "own" /\ UNCHANGED storeVars /\ Stays(s, t) /\ t.pc = "record" /\ HandlerStep(h)
    BY <1>1, CheckOrderDoes DEF HandlerStep, Validate
  <1>3. \/ Over(h) <= 0 /\ t.rej = s.rej
        \/ t.rej.reason = "po_overreceipt" /\ t.rej.excess = Over(h)
    BY <1>1, OrderChecked
  <1>4. /\ P(h) = Payload(id) /\ Fits(s) /\ P(h) = E(s) /\ id = <<s.node, s.cur>>
        /\ s.line \in 1..Len(P(h).lines) /\ P(h) \in Payloads /\ s.pc \in Arbitrating
        /\ id \in Ids
    BY <1>1, <1>2, HereRecorded, Here, LineHere, PhaseKinds DEF Current
  <1>5. /\ P(h).kind = "GoodsReceived" /\ s.rej.reason = "accepted" /\ s.rej.excess = 0
        /\ <<P(h).po, P(h).lines[s.line].sku>> \in DOMAIN Ordered
    BY <1>2, <1>4 DEF Fits, KindFits, RejectionFits
  <1>6. PICK ol, qty : /\ ol = OrderLine(id) /\ ol = <<P(h).po, Line(h).sku>>
                       /\ qty = P(h).lines[1].qty /\ qty = Line(h).qty
                       /\ ol \in DOMAIN Ordered /\ qty \in Nat /\ qty > 0
    <2>1. Len(P(h).lines) = 1
      BY <1>4, <1>5, PayloadFields
    <2>2. s.line = 1 /\ 1 \in DOMAIN P(h).lines
      BY <1>4, <2>1, PayloadFields
    <2>3. P(h).lines[1].qty \in Nat \ {0}
      BY <1>4, <2>2, LineType
    <2>. QED
      BY <1>1, <1>4, <1>5, <2>2, <2>3 DEF OrderLine, Line
  <1>7. /\ \A o \in OfKind("GoodsReceived") : Has(o) /\ Alike(o, id) => o = id
        /\ s.seen = poTotal[ol]
    BY <1>1, <1>2, <1>4, <1>5, <1>6 DEF ReceiptInv, Noted, Counting
  <1>8. ol \in POs \X SKUs /\ Ordered[ol] \in Nat /\ ol = <<ol[1], ol[2]>>
    BY <1>6, StoreAssumption
  <1>9. poTotal[ol] \in Nat /\ poTotal[ol] <= Ordered[ol]
    BY <1>6, <1>8 DEF ReceiptInv, FactsSound, POWithinOrder, ReceivedAgainstPO,
                      TypeInv, TypeOK, StoreTypeOK
  <1>10. /\ poTotal' = poTotal /\ \A o : Has(o)' = Has(o)
    BY <1>2, Alongside, NotedAlike
  <1>11. ASSUME ~ Has(id)
         PROVE  poTotal[ol] + qty - t.rej.excess <= Ordered[ol]
    <2>1. Over(h) = Excess(poTotal[ol], 0, qty, Ordered[ol])
      BY <1>1, <1>6, <1>7, <1>11 DEF Over, Receipt, Has
    <2>. DEFINE rest == poTotal[ol] + qty - Ordered[ol]
    <2>2. Over(h) = IF rest < qty THEN rest ELSE qty
      BY <1>6, <1>8, <1>9, <2>1 DEF Excess, Min2
    <2>3. CASE t.rej.excess = Over(h)
      BY <1>6, <1>8, <1>9, <2>2, <2>3
    <2>4. CASE Over(h) <= 0 /\ t.rej = s.rej
      BY <1>5, <1>6, <1>8, <1>9, <2>2, <2>4
    <2>. QED
      BY <1>3, <2>3, <2>4
  <1>12. t.rej.reason \in {"accepted", "po_overreceipt"}
    BY <1>3, <1>5
  <1>13. /\ \A o \in OfKind("GoodsReceived") : Has(o)' /\ Alike(o, id) => o = id
         /\ ~ Has(id)' => poTotal'[ol] + Payload(id).lines[1].qty - t.rej.excess <= Ordered[ol]
    BY <1>4, <1>6, <1>7, <1>10, <1>11
  <1>. QED
    BY <1>1, <1>2, <1>6, <1>12, <1>13, NotedPhase

LEMMA NotedFact ==
    ASSUME TypeInv, ReceiptInv, NEW h \in Handlers, RecordFact(h)
    PROVE  Noted(session[h])'
  <1>1. PICK s, t, id : s = session[h] /\ t = session'[h] /\ id = Current(h)
    OBVIOUS
  <1>2. s.pc = "record" /\ P(h).kind = "GoodsReceived" /\ Stays(s, t) /\ t.rej = s.rej
    BY <1>1, RecordFactDoes
  <1>3. t.pc \in {"comps", "decide"}
    BY <1>1, RecordFactDoes
  <1>4. HandlerStep(h)
    BY DEF HandlerStep, Record
  <1>5. P(h) = Payload(id) /\ id = <<s.node, s.cur>> /\ id \in Ids /\ s.pc \in Arbitrating
    BY <1>1, <1>2, HereRecorded, Here, PhaseKinds DEF Current
  <1>6. s.rej.reason = "duplicate_receipt" => Repeats(id)'
    <2>1. s.rej.reason = "duplicate_receipt" => Repeats(id)
      BY <1>1, <1>2, <1>5 DEF ReceiptInv, Noted
    <2>. QED
      BY <1>4, <1>5, <2>1, RepeatsStays
  <1>7. ASSUME s.rej.reason \in {"accepted", "po_overreceipt"} PROVE Has(id)'
    <2>1. CASE Has(id)
      BY <1>4, <1>5, <2>1, HasAfter
    <2>2. CASE ~ Has(id)
      <3>1. PICK qty : qty = Line(h).qty - s.rej.excess
        OBVIOUS
      <3>2. receipts' = [receipts EXCEPT ![id] = qty]
        BY <1>1, <1>7, <2>2, <3>1 DEF RecordFact, RecordReceipt, Has
      <3>3. qty \in Nat
        <4>1. /\ s \in Sessions /\ Fits(s) /\ P(h) = E(s) /\ P(h) \in Payloads
              /\ s.line \in DOMAIN P(h).lines
          BY <1>1, <1>2, <1>5, Here, LineHere DEF LinesOf, P
        <4>2. s.rej.excess \in Nat /\ s.rej.excess <= Line(h).qty
          BY <1>1, <1>2, <1>7, <4>1 DEF Fits, RejectionFits, Sessions, Rejections, Line
        <4>3. Line(h).qty \in Nat
          BY <1>1, <4>1, LineType DEF Line
        <4>. QED
          BY <3>1, <4>2, <4>3
      <3>4. receipts'[id] = qty
        BY <1>5, <3>2 DEF TypeInv, TypeOK, StoreTypeOK
      <3>. QED
        BY <3>3, <3>4 DEF Has, NotRecorded
    <2>. QED
      BY <2>1, <2>2
  <1>8. ~ Counting(t) /\ t.pc # "own" /\ t.pc # "record"
    BY <1>3 DEF Counting
  <1>. QED
    BY <1>1, <1>2, <1>4, <1>6, <1>7, <1>8, NotedPhase

LEMMA NotedOwn ==
    ASSUME TypeInv, ReceiptInv, NEW h \in Handlers, HandlerStep(h) \/ Fail(h)
    PROVE  Noted(session[h])'
  <1>1. PICK s, t, id : s = session[h] /\ t = session'[h] /\ id = Current(h)
                        /\ id = <<s.node, s.cur>>
    BY DEF Current
  <1>2. log' = log /\ Payload(id)' = Payload(id)
    BY Alongside, StaticAfter
  <1>3. ASSUME s.pc \in Arbitrating, P(h).kind # "GoodsReceived", Stays(s, t)
        PROVE  Noted(session[h])'
    <2>1. P(h) = Payload(id) /\ id = <<t.node, t.cur>>
      BY <1>1, <1>3, HereRecorded DEF Stays
    <2>. QED
      BY <1>1, <1>2, <1>3, <2>1, NotedElsewhere
  <1>4. ASSUME s.pc \in Arbitrating
        PROVE  Fits(s) /\ P(h) = E(s) /\ P(h) = Payload(id)
    BY <1>1, <1>4, Here, HereRecorded
  <1>5. CASE StoreEvent(h)
    <2>1. s.pc = "append" /\ Stays(s, t) /\ t.rej = NoRejection
      BY <1>1, <1>5, StoreEventDoes
    <2>2. t.pc = IF P(h).kind = "Other" THEN "decide" ELSE "items"
      BY <1>1, <1>5, StoreEventDoes
    <2>3. CASE P(h).kind = "Other"
      BY <1>3, <2>1, <2>3, PhaseKinds
    <2>4. CASE P(h).kind # "Other"
      BY <1>1, <2>1, <2>2, <2>4, NotedBefore DEF NoRejection
    <2>. QED
      BY <2>3, <2>4
  <1>6. CASE CheckItem(h) \/ CheckNote(h) \/ ReadTotal(h) \/ CheckOrder(h) \/ RecordFact(h)
    BY <1>6, NotedItem, NotedNote, NotedTotal, NotedOrder, NotedFact
  <1>7. CASE CheckDestination(h)
    <2>1. s.pc = "destination" /\ Stays(s, t)
      BY <1>1, <1>7, CheckDestinationDoes
    <2>2. s.pc \in Arbitrating
      BY <2>1, PhaseKinds
    <2>3. P(h).kind # "GoodsReceived"
      BY <1>4, <2>1, <2>2 DEF Fits, KindFits
    <2>. QED
      BY <1>3, <2>1, <2>2, <2>3
  <1>8. CASE CheckTransit(h) \/ CheckFolded(h)
    <2>1. s.pc \in {"transit", "folded"} /\ Stays(s, t)
      <3>1. CASE CheckTransit(h)
        BY <1>1, <3>1, CheckTransitDoes
      <3>2. CASE CheckFolded(h)
        BY <1>1, <3>2, CheckFoldedDoes
      <3>. QED
        BY <1>8, <3>1, <3>2
    <2>2. s.pc \in Arbitrating
      BY <2>1, PhaseKinds
    <2>3. P(h).kind # "GoodsReceived"
      BY <1>4, <2>1, <2>2 DEF Fits, KindFits
    <2>. QED
      BY <1>3, <2>1, <2>2, <2>3
  <1>9. CASE Record(h) /\ ~ RecordFact(h)
    <2>1. s.pc \in Later /\ Stays(s, t)
      BY <1>1, <1>9, RecordKeeps
    <2>2. s.pc \in Arbitrating
      BY <2>1, PhaseKinds DEF Later
    <2>3. P(h).kind # "GoodsReceived"
      <3>1. CASE RecordDispatchLine(h) \/ ForwardDispatch(h) \/ ForwardArrival(h)
        BY <3>1 DEF RecordDispatchLine, ForwardDispatch, ForwardArrival
      <3>2. CASE KillTransfer(h) \/ ReadRow(h) \/ FoldLine(h)
        <4>1. s.pc \in {"fail", "row", "fold"}
          BY <1>1, <3>2 DEF KillTransfer, ReadRow, FoldLine, Step, At
        <4>. QED
          BY <1>4, <2>2, <4>1 DEF Fits, KindFits
      <3>. QED
        BY <1>9, <3>1, <3>2 DEF Record
    <2>. QED
      BY <1>3, <2>1, <2>2, <2>3
  <1>10. CASE ReadCompensations(h) \/ Emit(h) \/ EnqueueCompensation(h)
    <2>1. /\ s.pc \in {"comps", "emit", "enqueue"} /\ UNCHANGED receiptVars
          /\ \/ t.pc \in {"emit", "enqueue", "decide"} /\ Stays(s, t) /\ t.rej = s.rej
             \/ t = IdleSession
      BY <1>1, <1>10, SettleKeeps
    <2>2. CASE t = IdleSession
      <3>1. t.pc \notin Arbitrating
        BY <2>2, PhaseKinds DEF IdleSession
      <3>. QED
        BY <1>1, <3>1, NotedElsewhere
    <2>3. CASE t.pc \in {"emit", "enqueue", "decide"} /\ Stays(s, t) /\ t.rej = s.rej
      <3>1. s.pc \in Arbitrating /\ HandlerStep(h)
        BY <1>10, <2>1, PhaseKinds DEF HandlerStep, Settle
      <3>2. CASE P(h).kind # "GoodsReceived"
        BY <1>3, <2>3, <3>1, <3>2
      <3>3. CASE P(h).kind = "GoodsReceived"
        <4>1. /\ s.rej.reason = "duplicate_receipt" => Repeats(id)
              /\ s.rej.reason \in {"accepted", "po_overreceipt"} => Has(id)
          BY <1>1, <1>4, <2>1, <3>1, <3>3 DEF ReceiptInv, Noted
        <4>2. Has(id)' = Has(id) /\ id \in Ids
          BY <1>1, <2>1, <3>1, Here DEF receiptVars, Has
        <4>3. /\ s.rej.reason = "duplicate_receipt" => Repeats(id)'
              /\ s.rej.reason \in {"accepted", "po_overreceipt"} => Has(id)'
          BY <3>1, <4>1, <4>2, RepeatsStays
        <4>4. ~ Counting(t) /\ t.pc # "own" /\ t.pc # "record"
          BY <2>3 DEF Counting
        <4>. QED
          BY <1>1, <2>3, <3>1, <4>3, <4>4, NotedPhase
      <3>. QED
        BY <3>2, <3>3
    <2>. QED
      BY <2>1, <2>2, <2>3
  <1>11. CASE \/ ReceiveBatch(h) \/ ReadDecision(h) \/ Decide(h)
              \/ StorePushed(h) \/ Ack(h) \/ End(h)
    <2>1. t.pc \in Between /\ t.rej = NoRejection
      BY <1>1, <1>11, EndsBetween
    <2>. QED
      BY <1>1, <2>1, NotedBefore DEF NoRejection
  <1>. QED
    BY <1>5, <1>6, <1>7, <1>8, <1>9, <1>10, <1>11
       DEF HandlerStep, Validate, Record, Settle, Notice, Fail

-----------------------------------------------------------------------------
(* The one reason of an event *)

LEMMA ReasonFated ==
    ASSUME TypeInv, NEW h \in Handlers, Meant(session[h]), Noted(session[h]),
           session[h].pc \in {"comps", "emit", "enqueue", "decide"}
    PROVE  Fated(Current(h), session[h].rej.reason)
  <1>1. PICK s, id, reason : s = session[h] /\ id = Current(h) /\ id = <<s.node, s.cur>>
                             /\ reason = s.rej.reason
    BY DEF Current
  <1>2. s.pc \in Arbitrating /\ s.pc \notin Early
    BY <1>1, PhaseKinds DEF Early
  <1>3. /\ reason = "unknown_sku" <=> Unknown(id)
        /\ reason = "transfer_rejected" => Payload(id).kind = "TransferDispatched"
        /\ reason = "transfer_overreceipt" => Payload(id).kind = "TransferReceived"
        /\ reason \in {"duplicate_receipt", "po_overreceipt"}
             => Payload(id).kind = "GoodsReceived"
    BY <1>1, <1>2 DEF Meant
  <1>4. Payload(id).kind = "GoodsReceived" =>
          /\ reason = "duplicate_receipt" => Repeats(id)
          /\ reason = "po_overreceipt" => Has(id)
    BY <1>1, <1>2 DEF Noted
  <1>. QED
    BY <1>1, <1>3, <1>4 DEF Fated

LEMMA OneReasonStays ==
    ASSUME TypeInv, ReceiptInv, NEW h \in Handlers, HandlerStep(h) \/ Fail(h)
    PROVE  OneReason'
  <1>1. PICK s, here, reason : s = session[h] /\ here = Current(h) /\ here = <<s.node, s.cur>>
                               /\ reason = s.rej.reason
    BY DEF Current
  <1>2. Meant(s) /\ Noted(s)
    BY <1>1 DEF ReceiptInv
  <1>3. ASSUME s.pc \in {"emit", "decide"} PROVE Fated(here, reason)
    BY <1>1, <1>2, <1>3, ReasonFated
  <1>4. log' = log /\ OfKind("GoodsReceived")' = OfKind("GoodsReceived")
    BY Alongside, StaticAfter
  <1>5. ASSUME NEW id \in Ids, NEW k \in DOMAIN comps'[id]
        PROVE  Fated(id, comps[id][k].reason)'
    <2>. PICK of : of = comps'[id][k].reason
      OBVIOUS
    <2>1. Fated(id, of)
      <3>1. CASE comps' = comps
        BY <1>5, <3>1 DEF ReceiptInv, OneReason
      <3>2. CASE Emit(h)
        <4>1. /\ s.pc = "emit" /\ here \in Ids
              /\ comps' = [comps EXCEPT ![here] = Append(@, s.rej.events[s.line])]
          <5>1. s.pc = "emit"
            BY <1>1, <3>2 DEF Emit, Step, At
          <5>2. here \in Ids
            BY <1>1, <5>1, Here, PhaseKinds
          <5>. QED
            BY <1>1, <3>2, <5>1, <5>2 DEF Emit, InsertCompensation
        <4>2. comps \in [Ids -> Seq(Compensation)]
          BY DEF TypeInv, TypeOK, StoreTypeOK
        <4>3. CASE id # here
          <5>1. comps'[id] = comps[id]
            BY <4>1, <4>2, <4>3
          <5>. QED
            BY <1>5, <5>1 DEF ReceiptInv, OneReason
        <4>4. CASE id = here
          <5>1. PICK c, old : c = s.rej.events[s.line] /\ old = comps[id]
            OBVIOUS
          <5>2. comps'[id] = Append(old, c) /\ old \in Seq(Compensation)
            BY <4>1, <4>2, <4>4, <5>1
          <5>3. (k \in DOMAIN old /\ comps'[id][k] = old[k]) \/ comps'[id][k] = c
            BY <1>5, <5>2
          <5>4. c.reason = reason
            <6>1. s.pc \in Arbitrating
              BY <4>1, PhaseKinds
            <6>2. s.line \in DOMAIN s.rej.events /\ Uniform(s.rej)
              BY <1>1, <1>2, <4>1, <6>1, Here DEF Fits, LineFits, Meant
            <6>. QED
              BY <1>1, <5>1, <6>2 DEF Uniform
          <5>5. CASE k \in DOMAIN old /\ comps'[id][k] = old[k]
            BY <5>1, <5>5 DEF ReceiptInv, OneReason
          <5>6. CASE comps'[id][k] = c
            BY <1>3, <4>1, <4>4, <5>4, <5>6
          <5>. QED
            BY <5>3, <5>5, <5>6
        <4>. QED
          BY <4>3, <4>4
      <3>. QED
        BY <3>1, <3>2, CompsAfter
    <2>2. Fated(id, of)'
      BY <2>1, FatedStays
    <2>. QED
      BY <2>2
  <1>6. ASSUME NEW id \in Ids
        PROVE  \/ decisions'[id] = decisions[id]
               \/ s.pc = "decide" /\ id = here /\ decisions'[id] = reason
    <2>1. CASE Decide(h)
      <3>1. s.pc = "decide" /\ decisions' = [decisions EXCEPT ![here] = reason]
        BY <1>1, <2>1, DecideDoes
      <3>2. decisions \in [Ids -> Verdicts]
        BY DEF TypeInv, TypeOK, StoreTypeOK
      <3>. QED
        BY <3>1, <3>2
    <2>. QED
      BY <2>1, DecisionsAfter
  <1>7. ASSUME NEW id \in Ids, decisions'[id] \in Reasons
        PROVE  Fated(id, decisions[id])'
    <2>. PICK of : of = decisions'[id]
      OBVIOUS
    <2>1. Fated(id, of)
      BY <1>3, <1>6, <1>7 DEF ReceiptInv, OneReason, IsRejected
    <2>2. Fated(id, of)'
      BY <2>1, FatedStays
    <2>. QED
      BY <2>2
  <1>8. ASSUME NEW id \in OfKind("GoodsReceived"),
               decisions'[id] \in {"accepted", "po_overreceipt"}
        PROVE  Has(id)'
    <2>1. id \in Ids /\ Payload(id).kind = "GoodsReceived"
      BY DEF OfKind, Recorded
    <2>2. Has(id)
      <3>1. CASE decisions'[id] = decisions[id]
        BY <1>8, <3>1 DEF ReceiptInv, OneReason
      <3>2. CASE s.pc = "decide" /\ id = here /\ decisions'[id] = reason
        BY <1>1, <1>2, <1>8, <2>1, <3>2, PhaseKinds DEF Noted
      <3>. QED
        BY <1>6, <2>1, <3>1, <3>2
    <2>. QED
      BY <2>1, <2>2, HasAfter
  <1>. QED
    BY <1>4, <1>5, <1>7, <1>8 DEF OneReason, IsRejected

LEMMA ReceiptIdle ==
    ASSUME ReceiptInv, UNCHANGED storeVars, log' = log, InTurn',
           \A g \in Handlers : session'[g] = session[g] \/ session'[g].pc = "receive"
    PROVE  ReceiptInv'
  <1>1. UNCHANGED <<comps, decisions, receipts, poTotal>>
    BY DEF storeVars, logVars, receiptVars
  <1>2. /\ OfKind("GoodsReceived")' = OfKind("GoodsReceived")
        /\ \A id : /\ Payload(id)' = Payload(id) /\ LinesOf(id)' = LinesOf(id)
                   /\ Unknown(id)' = Unknown(id) /\ OrderLine(id)' = OrderLine(id)
                   /\ Has(id)' = Has(id) /\ Repeats(id)' = Repeats(id)
        /\ \A a, b : Alike(a, b)' = Alike(a, b)
    BY StaticAfter, NotedAlike
  <1>3. \A id, reason : Fated(id, reason)' = Fated(id, reason)
    BY <1>2 DEF Fated
  <1>4. OneReason'
    BY <1>1, <1>2, <1>3 DEF ReceiptInv, OneReason, IsRejected
  <1>5. FactsSound'
    BY <1>1, <1>2 DEF ReceiptInv, FactsSound, POWithinOrder, ReceivedAgainstPO
  <1>6. ASSUME NEW g \in Handlers PROVE Meant(session[g])' /\ Noted(session[g])'
    <2>1. CASE session'[g].pc = "receive"
      BY <2>1, PhaseKinds, MeantElsewhere, NotedElsewhere
    <2>2. CASE session'[g] = session[g]
      <3>1. PICK s : s = session[g]
        OBVIOUS
      <3>2. Meant(s) /\ Noted(s)
        BY <3>1 DEF ReceiptInv
      <3>3. Meant(s)'
        BY <1>2, <3>2 DEF Meant
      <3>4. Noted(s)'
        BY <1>1, <1>2, <3>2 DEF Noted
      <3>. QED
        BY <2>2, <3>1, <3>3, <3>4
    <2>. QED
      BY <2>1, <2>2
  <1>. QED
    BY <1>4, <1>5, <1>6 DEF ReceiptInv

LEMMA ReceiptInvInit == ASSUME Init PROVE ReceiptInv
  <1>1. /\ \A id \in Ids : comps[id] = <<>> /\ decisions[id] = "undecided" /\ ~ Has(id)
        /\ \A line \in POs \X SKUs : poTotal[line] = 0
        /\ \A h \in Handlers : session[h].pc = "idle"
    BY DEF Init, StoreInit, IdleSession, Has
  <1>2. OfKind("GoodsReceived") \subseteq Ids
    BY DEF OfKind, Recorded
  <1>3. POWithinOrder
    <2>. SUFFICES ASSUME NEW line \in DOMAIN Ordered
                  PROVE  poTotal[<<line[1], line[2]>>] <= Ordered[line]
      BY DEF POWithinOrder, ReceivedAgainstPO
    <2>1. line = <<line[1], line[2]>> /\ line \in POs \X SKUs /\ Ordered[line] \in Nat
      BY StoreAssumption
    <2>. QED
      BY <1>1, <2>1
  <1>4. FactsSound
    BY <1>1, <1>2, <1>3 DEF FactsSound
  <1>5. OneReason
    BY <1>1, <1>2 DEF OneReason, IsRejected, Reasons
  <1>6. \A h \in Handlers : Meant(session[h]) /\ Noted(session[h])
    BY <1>1, PhaseKinds DEF Meant, Noted
  <1>. QED
    BY <1>1, <1>4, <1>5, <1>6 DEF ReceiptInv, InTurn

LEMMA ReceiptInvNext ==
    ASSUME TypeInv, ReceiptInv, ReceiptsInTurn, [Next]_vars
    PROVE  ReceiptInv'
  <1>1. ASSUME NEW h \in Handlers, NEW n \in Nodes, Open(h, n) PROVE ReceiptInv'
    <2>. DEFINE t == [IdleSession EXCEPT !.pc = "receive", !.node = n, !.last = Resume(n)]
    <2>1. t.pc = "receive"
      BY DEF IdleSession
    <2>2. UNCHANGED storeVars /\ log' = log /\ Become(h, t)
          /\ (log \in Serial => \A g \in Handlers : session[g].pc = "idle")
      BY <1>1 DEF Open, nodeVars, At
    <2>. HIDE DEF t
    <2>3. \A g \in Handlers : session'[g] = IF g = h THEN t ELSE session[g]
      BY <2>2 DEF Become, TypeInv, TypeOK
    <2>4. InTurn'
      BY <2>2, <2>3 DEF InTurn
    <2>. QED
      BY <2>1, <2>2, <2>3, <2>4, ReceiptIdle
  <1>2. ASSUME NEW h \in Handlers, HandlerStep(h) \/ Fail(h) PROVE ReceiptInv'
    <2>1. InTurn'
      BY <1>2, StaysInTurn DEF ReceiptInv
    <2>2. \A g \in Handlers \ {h} : Meant(session[g])' /\ Noted(session[g])'
      BY <1>2, MeantOthers, NotedOthers DEF ReceiptInv
    <2>3. Meant(session[h])' /\ Noted(session[h])'
      BY <1>2, MeantOwn, NotedOwn DEF ReceiptInv
    <2>4. FactsSound' /\ OneReason'
      BY <1>2, FactsStaySound, OneReasonStays
    <2>. QED
      BY <2>1, <2>2, <2>3, <2>4 DEF ReceiptInv
  <1>3. ASSUME NEW n \in Nodes, Detach(n) PROVE ReceiptInv'
    <2>1. UNCHANGED <<storeVars, log, session>>
      BY <1>3 DEF Detach, nodeVars
    <2>2. InTurn'
      BY <2>1 DEF ReceiptInv, InTurn
    <2>. QED
      BY <2>1, <2>2, ReceiptIdle
  <1>4. CASE UNCHANGED vars
    <2>1. UNCHANGED <<storeVars, log, session>>
      BY <1>4 DEF vars
    <2>2. InTurn'
      BY <2>1 DEF ReceiptInv, InTurn
    <2>. QED
      BY <2>1, <2>2, ReceiptIdle
  <1>. QED
    BY <1>1, <1>2, <1>3, <1>4 DEF Next

LEMMA FatedOnce ==
    ASSUME NEW id, NEW a \in Reasons, NEW b \in Reasons, Fated(id, a), Fated(id, b)
    PROVE  a = b
  BY DEF Fated, Reasons, Repeats

\* The compensations on record for a rejected receipt, dispatch or arrival are those of the
\* reason decided.  ReadCompensations takes a set of the right size for this attempt's and
\* never looks at its reasons, while receipts, orders and transfers have changed since the
\* attempt that left it; where receipts are arbitrated in turn, a retry finds the reason
\* the attempt before it found.
THEOREM PartialSetNeverWholeCorrect ==
    ASSUME ReceiptsInTurn PROVE Spec => []PartialSetNeverWhole
  <1>. DEFINE Inv == TypeInv /\ ReceiptInv
  <1>1. Init => Inv
    BY TypeInvInit, ReceiptInvInit
  <1>2. Inv /\ [Next]_vars => Inv'
    BY TypeInvNext, ReceiptInvNext
  <1>3. Inv => PartialSetNeverWhole
    <2>. SUFFICES ASSUME Inv, NEW id \in Ids, IsRejected(id), NEW k \in DOMAIN comps[id]
                  PROVE  comps[id][k].reason = decisions[id]
      BY DEF PartialSetNeverWhole
    <2>1. comps[id] \in Seq(Compensation)
      BY DEF TypeInv, TypeOK, StoreTypeOK
    <2>2. comps[id][k] \in Compensation
      BY <2>1
    <2>3. comps[id][k].reason \in Reasons
      BY <2>2 DEF Compensation
    <2>4. Fated(id, comps[id][k].reason) /\ Fated(id, decisions[id])
      BY DEF ReceiptInv, OneReason
    <2>. QED
      BY <2>3, <2>4, FatedOnce DEF IsRejected
  <1>. QED
    BY <1>1, <1>2, <1>3, PTL DEF Spec

\* Where receipts are arbitrated in turn, no order is received past what was ordered and
\* no note is honoured twice, wherever an attempt fails between the look at the store and
\* the insert of the fact (poOverReceipt and duplicateDeliveryNote in validators.go).
THEOREM ReceiptsWithinOrderCorrect ==
    ASSUME ReceiptsInTurn PROVE Spec => [](POWithinOrder /\ NoteHonouredOnce)
  <1>. DEFINE Inv == TypeInv /\ ReceiptInv
  <1>1. Init => Inv
    BY TypeInvInit, ReceiptInvInit
  <1>2. Inv /\ [Next]_vars => Inv'
    BY TypeInvNext, ReceiptInvNext
  <1>3. Inv => POWithinOrder /\ NoteHonouredOnce
    <2>. SUFFICES ASSUME Inv PROVE NoteHonouredOnce
      BY DEF ReceiptInv, FactsSound
    <2>. SUFFICES ASSUME NEW a \in OfKind("GoodsReceived"), NEW b \in OfKind("GoodsReceived"),
                         Alike(a, b),
                         {decisions[a], decisions[b]} \subseteq {"accepted", "po_overreceipt"}
                  PROVE  a = b
      BY DEF NoteHonouredOnce, Alike
    <2>1. Has(a) /\ Has(b)
      BY DEF ReceiptInv, OneReason
    <2>. QED
      BY <2>1 DEF ReceiptInv, FactsSound
  <1>. QED
    BY <1>1, <1>2, <1>3, PTL DEF Spec
=============================================================================
