---------------------------- MODULE ArbiterProofs ----------------------------
(***************************************************************************)
(* Proofs about central arbitration, for every set of nodes, handlers,     *)
(* workloads and reference data, every number of failures, and streams     *)
(* whose handler outlives its client: the state stays well typed (the      *)
(* quantities central books are never negative, no loop runs off the lines *)
(* of an event or the events of a rejection); no cursor passes an event    *)
(* without a decision; a decision settles an event for good; no line of an *)
(* event is compensated twice.  The last two are about nodes whose         *)
(* sessions do not overlap, whatever those of other nodes do meanwhile.    *)
(***************************************************************************)
EXTENDS ArbiterProperties, TLAPS

Outside == {"idle", "receive", "setpushed", "ack"}
Arbitrating == Phases \ Outside

\* The event a session record is working on.
E(s) == Payload(<<s.node, s.cur>>)

\* A handler outside "idle" serves a node; one that arbitrates is within its batch.
Placed(s) ==
    /\ s.pc # "idle" => s.node \in Nodes
    /\ s.pc \in Arbitrating => s.cur \in 1..s.last /\ s.last <= Len(log[s.node])

\* The validators and the steps of record run for the events they are written for.
KindFits(s) ==
    /\ s.pc = "items" => E(s).kind # "Other"
    /\ s.pc \in {"note", "total", "own"} => E(s).kind = "GoodsReceived"
    /\ s.pc \in {"total", "own"} => <<E(s).po, E(s).lines[s.line].sku>> \in DOMAIN Ordered
    /\ s.pc \in {"destination", "fail"} => E(s).kind = "TransferDispatched"
    /\ s.pc \in {"transit", "folded", "row", "fold"} => E(s).kind = "TransferReceived"
    /\ s.pc = "record" => E(s).kind \in {"GoodsReceived", "TransferDispatched"}

\* Every loop stays within the lines of the event or the events of the rejection.
LineFits(s) ==
    /\ s.pc \in {"items", "note", "total", "own", "transit", "folded", "record", "row", "fold"}
         => s.line \in DOMAIN E(s).lines
    /\ s.pc \in {"receive", "decision", "append", "destination", "fail", "forward", "comps",
                 "setpushed", "ack"} => s.line = 1
    /\ s.pc = "emit" => s.line \in DOMAIN s.rej.events
    /\ s.pc = "fold" => s.seen \in Nat

\* What a rejection has come to when each phase begins.
RejectionFits(s) ==
    /\ s.rej.reason # "accepted" => s.rej.events # <<>>
    /\ s.pc \in {"receive", "decision", "append", "setpushed", "ack"} => s.rej = NoRejection
    /\ s.pc = "items" => \/ s.rej.reason = "unknown_sku"
                         \/ s.rej.reason = "accepted" /\ s.rej.excess = 0
    /\ s.pc \in {"note", "total", "own"} => s.rej.reason = "accepted" /\ s.rej.excess = 0
    /\ s.pc \in {"fail", "comps", "emit"} => s.rej.reason # "accepted"
    /\ s.pc = "record" /\ E(s).kind = "GoodsReceived"
         /\ s.rej.reason \in {"accepted", "po_overreceipt"}
         => s.rej.excess <= E(s).lines[s.line].qty

Fits(s) == Placed(s) /\ KindFits(s) /\ LineFits(s) /\ RejectionFits(s)

\* TypeOK alone is not inductive: that a quantity stays a natural number depends on
\* where the handler is and on what its validators have found.
TypeInv == TypeOK /\ \A h \in Handlers : Fits(session[h])

-----------------------------------------------------------------------------
(* The data of a step *)

\* What central arbitrates is an event of a known kind (the payloads of event.go).
LEMMA EventType ==
    ASSUME TypeOK, NEW s \in Sessions, Placed(s), s.pc \in Arbitrating
    PROVE  /\ <<s.node, s.cur>> \in Ids
           /\ E(s) \in Payloads
  <1>1. s.node \in Nodes /\ s.cur \in 1..s.last /\ s.last <= Len(log[s.node])
    BY DEF Placed, Arbitrating, Outside
  <1>2. log \in [Nodes -> Seq(Payloads)] /\ Len(log[s.node]) <= MaxSeq
    BY <1>1, ArbiterAssumption DEF TypeOK
  <1>3. log[s.node] \in Seq(Payloads)
    BY <1>1, <1>2
  <1>4. s.cur \in 1..Len(log[s.node]) /\ s.cur \in 1..MaxSeq
    BY <1>1, <1>2, <1>3, StoreAssumption DEF Sessions
  <1>. QED
    BY <1>1, <1>3, <1>4 DEF Ids, E, Payload

\* The fields of an event by its kind, and the lines of one that has any.
LEMMA PayloadFields ==
    ASSUME NEW p \in Payloads
    PROVE  /\ p.kind = "GoodsReceived" => p \in Receipts
           /\ p.kind = "TransferDispatched" => p \in Dispatches
           /\ p.kind = "TransferReceived" => p \in Arrivals
           /\ p.lines \in Seq(LineItem)
           /\ p.kind # "Other" => Len(p.lines) >= 1
           /\ p.kind = "GoodsReceived" => Len(p.lines) = 1
           /\ p.kind \in {"GoodsReceived", "TransferDispatched", "TransferReceived", "Other"}
  <1>1. \A lines \in Lines : lines \in Seq(LineItem) /\ Len(lines) >= 1
    BY DEF Lines
  <1>2. p \in Receipts => p.kind = "GoodsReceived" /\ p.lines \in OneLine
    BY DEF Receipts
  <1>3. p \in Dispatches => p.kind = "TransferDispatched" /\ p.lines \in Lines
    BY DEF Dispatches
  <1>4. p \in Arrivals => p.kind = "TransferReceived" /\ p.lines \in Lines
    BY DEF Arrivals
  <1>5. p \in Others => p.kind = "Other" /\ p.lines = <<>>
    BY DEF Others
  <1>6. OneLine \subseteq Lines /\ \A lines \in OneLine : Len(lines) = 1
    BY DEF OneLine
  <1>7. <<>> \in Seq(LineItem)
    OBVIOUS
  <1>8. p \in Receipts \/ p \in Dispatches \/ p \in Arrivals \/ p \in Others
    BY DEF Payloads
  <1>. QED
    BY <1>1, <1>2, <1>3, <1>4, <1>5, <1>6, <1>7, <1>8

\* The line a loop is at is a line of the event.
LEMMA LineType ==
    ASSUME NEW p \in Payloads, NEW i \in DOMAIN p.lines
    PROVE  /\ p.lines[i] \in LineItem
           /\ p.lines[i].sku \in SKUs
           /\ p.lines[i].qty \in Nat \ {0}
           /\ i \in 1..Len(p.lines)
  <1>1. p.lines \in Seq(LineItem)
    BY PayloadFields
  <1>2. p.lines[i] \in LineItem /\ i \in 1..Len(p.lines)
    BY <1>1
  <1>. QED
    BY <1>2 DEF LineItem

\* What a handler that arbitrates can count on.
LEMMA Here ==
    ASSUME TypeInv, NEW h \in Handlers, session[h].pc \in Arbitrating
    PROVE  /\ session[h] \in Sessions
           /\ Fits(session[h])
           /\ Current(h) \in Ids
           /\ P(h) \in Payloads
           /\ P(h) = E(session[h])
           /\ session[h].node \in Nodes
           /\ session[h].cur \in 1..session[h].last
           /\ session[h].last <= Len(log[session[h].node])
  <1>1. session[h] \in Sessions /\ Fits(session[h])
    BY DEF TypeInv, TypeOK
  <1>2. <<session[h].node, session[h].cur>> \in Ids /\ E(session[h]) \in Payloads
    BY <1>1, EventType DEF TypeInv, Fits
  <1>. QED
    BY <1>1, <1>2 DEF Fits, Placed, Arbitrating, Outside, Current, P, E

-----------------------------------------------------------------------------
(* What the writes of the store keep *)

LEMMA RecordReceiptType ==
    ASSUME StoreTypeOK, NEW id \in Ids, NEW po \in POs, NEW sku \in SKUs, NEW qty \in Nat,
           RecordReceipt(id, po, sku, qty)
    PROVE  receipts' \in [Ids -> Nat \cup {NotRecorded}] /\ poTotal' \in [POs \X SKUs -> Nat]
  <1>1. receipts \in [Ids -> Nat \cup {NotRecorded}] /\ poTotal \in [POs \X SKUs -> Nat]
    BY DEF StoreTypeOK
  <1>2. <<po, sku>> \in POs \X SKUs
    OBVIOUS
  <1>3. poTotal[<<po, sku>>] + qty \in Nat
    BY <1>1, <1>2
  <1>4. CASE receipts[id] = NotRecorded
    <2>1. receipts' = [receipts EXCEPT ![id] = qty]
      BY <1>4 DEF RecordReceipt
    <2>2. poTotal' = [poTotal EXCEPT ![<<po, sku>>] = poTotal[<<po, sku>>] + qty]
      BY <1>4 DEF RecordReceipt
    <2>3. receipts' \in [Ids -> Nat \cup {NotRecorded}]
      BY <1>1, <2>1, Zenon
    <2>4. poTotal' \in [POs \X SKUs -> Nat]
      BY <1>1, <1>3, <2>2, Zenon
    <2>. QED
      BY <2>3, <2>4
  <1>5. CASE receipts[id] # NotRecorded
    BY <1>1, <1>5 DEF RecordReceipt, receiptVars
  <1>. QED
    BY <1>4, <1>5

Rows == [from : Nat, to : Nat, dispatched : Nat, received : Nat, failed : BOOLEAN]

LEMMA RecordDispatchType ==
    ASSUME StoreTypeOK, NEW tid \in Transfers, NEW from \in Nat, NEW to \in Nat,
           NEW line \in LineItem, RecordDispatch(tid, from, to, line)
    PROVE  transit' \in [Transfers \X SKUs -> Rows]
  <1>. DEFINE key == <<tid, line.sku>>
              fresh == [from |-> from, to |-> to, dispatched |-> line.qty,
                        received |-> 0, failed |-> FALSE]
              row == IF transit[key] = NoRow THEN fresh
                     ELSE [transit[key] EXCEPT !.dispatched = line.qty]
  <1>1. transit \in [Transfers \X SKUs -> Rows] /\ line.sku \in SKUs /\ line.qty \in Nat
    BY DEF StoreTypeOK, Rows, LineItem
  <1>2. transit[key] \in Rows
    BY <1>1
  <1>3. fresh \in Rows /\ [transit[key] EXCEPT !.dispatched = line.qty] \in Rows
    BY <1>1, <1>2 DEF Rows
  <1>4. row \in Rows
    BY <1>3
  <1>5. transit' = [transit EXCEPT ![key] = row]
    BY DEF RecordDispatch
  <1>. HIDE DEF row
  <1>. QED
    BY <1>1, <1>4, <1>5, Zenon

LEMMA FailTransferType ==
    ASSUME StoreTypeOK, NEW tid, FailTransfer(tid)
    PROVE  transit' \in [Transfers \X SKUs -> Rows]
  <1>1. transit \in [Transfers \X SKUs -> Rows]
    BY DEF StoreTypeOK, Rows
  <1>2. \A row \in Rows : [row EXCEPT !.failed = TRUE] \in Rows
    BY DEF Rows
  <1>. QED
    BY <1>1, <1>2 DEF FailTransfer

LEMMA AddReceivedType ==
    ASSUME StoreTypeOK, NEW id \in Ids, NEW tid \in Transfers, NEW sku \in SKUs,
           NEW qty \in Nat, AddReceived(id, tid, sku, qty)
    PROVE  /\ folded' \in [Ids \X SKUs -> Nat]
           /\ transit' \in [Transfers \X SKUs -> Rows]
  <1>1. folded \in [Ids \X SKUs -> Nat] /\ transit \in [Transfers \X SKUs -> Rows]
    BY DEF StoreTypeOK, Rows
  <1>2. CASE folded[<<id, sku>>] # 0
    BY <1>1, <1>2 DEF AddReceived, transitVars
  <1>3. CASE folded[<<id, sku>>] = 0
    <2>. DEFINE old == transit[<<tid, sku>>]
                row == [old EXCEPT !.received = old.received + qty]
    <2>1. old \in Rows
      BY <1>1
    <2>2. row \in Rows
      BY <2>1 DEF Rows
    <2>3. /\ transit' = [transit EXCEPT ![<<tid, sku>>] = row]
          /\ folded' = [folded EXCEPT ![<<id, sku>>] = qty]
      BY <1>1, <1>3 DEF AddReceived
    <2>. HIDE DEF row
    <2>. QED
      BY <1>1, <2>2, <2>3, Zenon
  <1>. QED
    BY <1>2, <1>3

LEMMA EnqueueType ==
    ASSUME StoreTypeOK, NEW target, NEW env \in Envelopes, Enqueue(target, env)
    PROVE  outbound' \in [Nodes -> SUBSET Envelopes]
  BY DEF StoreTypeOK, Enqueue

LEMMA InsertCompensationType ==
    ASSUME StoreTypeOK, NEW id \in Ids, NEW c \in Compensation, InsertCompensation(id, c)
    PROVE  comps' \in [Ids -> Seq(Compensation)]
  <1>1. comps \in [Ids -> Seq(Compensation)]
    BY DEF StoreTypeOK
  <1>2. Append(comps[id], c) \in Seq(Compensation)
    BY <1>1
  <1>3. comps' = [comps EXCEPT ![id] = Append(comps[id], c)]
    BY DEF InsertCompensation
  <1>. QED
    BY <1>1, <1>2, <1>3, Zenon

-----------------------------------------------------------------------------
(* One step of one handler *)

\* A step of h that leaves a session record that fits and a well-typed store.
Acts(h) ==
    /\ \E t \in Sessions : Become(h, t) /\ Fits(t)
    /\ UNCHANGED <<log, cursor, client, failures>>
    /\ StoreTypeOK'

\* Such a step keeps the invariant: the logs do not change, nor the other handlers.
LEMMA ActsPreserve ==
    ASSUME TypeInv, NEW h \in Handlers, Acts(h)
    PROVE  TypeInv'
  <1>1. PICK t \in Sessions : Become(h, t) /\ Fits(t)
    BY DEF Acts
  <1>2. log' = log /\ TypeOK'
    BY <1>1 DEF Acts, TypeInv, TypeOK, Become
  <1>3. ASSUME NEW g \in Handlers PROVE Fits(session[g])'
    <2>1. session'[g] = IF g = h THEN t ELSE session[g]
      BY <1>1 DEF TypeInv, TypeOK, Become
    <2>2. Fits(session'[g])
      BY <1>1, <2>1 DEF TypeInv
    <2>. QED
      BY <2>2, <1>2 DEF Fits, Placed, KindFits, LineFits, RejectionFits, E, Payload
  <1>. QED
    BY <1>2, <1>3 DEF TypeInv

\* So does a step that leaves every handler alone.
LEMMA FitsKept ==
    ASSUME TypeInv, session' = session, log' = log
    PROVE  \A g \in Handlers : Fits(session[g])'
  <1>. SUFFICES ASSUME NEW g \in Handlers PROVE Fits(session[g])'
    OBVIOUS
  <1>1. Fits(session'[g])
    BY DEF TypeInv
  <1>. QED
    BY <1>1 DEF Fits, Placed, KindFits, LineFits, RejectionFits, E, Payload

\* A handler that serves nobody.
LEMMA IdleFits == IdleSession \in Sessions /\ Fits(IdleSession)
  <1>1. NoRejection \in Rejections
    BY DEF NoRejection, Rejections
  <1>2. IdleSession \in Sessions
    BY <1>1 DEF IdleSession, Sessions, Phases
  <1>3. Fits(IdleSession)
    BY DEF Fits, Placed, KindFits, LineFits, RejectionFits, IdleSession, NoRejection,
           Arbitrating, Outside
  <1>. QED
    BY <1>2, <1>3

\* The next event of a batch, or the end of it, finds a fresh session record.
LEMMA NextEventFits ==
    ASSUME TypeInv, NEW h \in Handlers, session[h].pc \in Arbitrating, NextEvent(h)
    PROVE  \E t \in Sessions : Become(h, t) /\ Fits(t)
  <1>. DEFINE s == session[h]
              next == IF s.cur < s.last THEN "decision" ELSE "setpushed"
              t == [IdleSession EXCEPT !.node = s.node, !.cur = s.cur + 1, !.last = s.last,
                                       !.high = s.high, !.pc = next]
  <1>1. s \in Sessions /\ s.node \in Nodes /\ s.cur \in 1..s.last /\ s.last <= Len(log[s.node])
    BY Here
  <1>2. /\ t.pc = IF s.cur < s.last THEN "decision" ELSE "setpushed"
        /\ t.node = s.node /\ t.cur = s.cur + 1 /\ t.last = s.last /\ t.line = 1
        /\ t.rej = NoRejection
    BY DEF IdleSession
  <1>3. t \in Sessions
    <2>1. next \in Phases /\ s.last \in Nat /\ s.high \in Nat /\ s.cur + 1 \in Nat
      BY <1>1 DEF Sessions, Phases
    <2>. QED
      BY <1>1, <2>1, IdleFits, Zenon DEF Sessions
  <1>4. Placed(t)
    BY <1>1, <1>2 DEF Sessions, Placed, Arbitrating, Outside
  <1>5. KindFits(t) /\ LineFits(t) /\ RejectionFits(t)
    BY <1>2 DEF KindFits, LineFits, RejectionFits, NoRejection
  <1>. QED
    BY <1>3, <1>4, <1>5 DEF Fits, NextEvent

\* The loop over the lines goes to the next line or starts what comes after it.
LEMMA NextLineStep ==
    ASSUME NEW h, NEW s \in Sessions, P(h) \in Payloads, s.line \in DOMAIN P(h).lines,
           NEW pc \in Phases, NEW done \in Phases,
           NEW t, t = NextLine(h, s, pc, done)
    PROVE  /\ t \in Sessions
           /\ t.node = s.node /\ t.cur = s.cur /\ t.last = s.last /\ t.rej = s.rej
           /\ \/ t.pc = pc /\ t.line \in DOMAIN P(h).lines
              \/ t.pc = done /\ t.line = 1
  <1>1. P(h).lines \in Seq(LineItem) /\ s.line \in 1..Len(P(h).lines)
    BY PayloadFields, LineType
  <1>2. s.line + 1 \in Nat /\ 1 \in Nat /\ 0 \in Int
    BY <1>1 DEF Sessions
  <1>3. CASE s.line < Len(P(h).lines)
    <2>1. t = [s EXCEPT !.line = s.line + 1, !.seen = 0, !.pc = pc]
      BY <1>3 DEF NextLine
    <2>2. t \in Sessions
      BY <1>2, <2>1, Zenon DEF Sessions
    <2>3. /\ t.node = s.node /\ t.cur = s.cur /\ t.last = s.last /\ t.rej = s.rej
          /\ t.pc = pc /\ t.line = s.line + 1
      BY <2>1 DEF Sessions
    <2>. QED
      BY <1>1, <1>3, <2>2, <2>3
  <1>4. CASE ~ (s.line < Len(P(h).lines))
    <2>1. t = [s EXCEPT !.line = 1, !.seen = 0, !.pc = done]
      BY <1>4 DEF NextLine
    <2>2. t \in Sessions
      BY <1>2, <2>1, Zenon DEF Sessions
    <2>3. /\ t.node = s.node /\ t.cur = s.cur /\ t.last = s.last /\ t.rej = s.rej
          /\ t.pc = done /\ t.line = 1
      BY <2>1 DEF Sessions
    <2>. QED
      BY <2>2, <2>3
  <1>. QED
    BY <1>3, <1>4

\* A step that changes the phase of a handler changes nothing else of its record.
LEMMA GotoStep ==
    ASSUME NEW s \in Sessions, NEW pc \in Phases, NEW t, t = [s EXCEPT !.pc = pc]
    PROVE  /\ t \in Sessions
           /\ t.pc = pc /\ t.node = s.node /\ t.cur = s.cur /\ t.last = s.last
           /\ t.line = s.line /\ t.seen = s.seen /\ t.rej = s.rej
  BY DEF Sessions

\* A rejection collects one more event, of the line the handler is at.
LEMMA RejectStep ==
    ASSUME NEW s \in Sessions, NEW reason \in Reasons, NEW qty \in Nat \ {0},
           NEW t, t = Reject(s, reason, qty)
    PROVE  /\ t \in Sessions
           /\ t.pc = s.pc /\ t.node = s.node /\ t.cur = s.cur /\ t.last = s.last
           /\ t.line = s.line
           /\ t.rej.reason = reason /\ t.rej.events # <<>>
  <1>. DEFINE c == Reversal(reason, s.line, qty)
              r == [reason |-> reason, events |-> Append(s.rej.events, c),
                    excess |-> s.rej.excess + qty]
  <1>1. s.line \in Nat /\ s.rej \in Rejections
    BY DEF Sessions
  <1>2. c \in Compensation
    BY <1>1 DEF Reversal, Compensation
  <1>3. s.rej.events \in Seq(Compensation) /\ s.rej.excess \in Nat
    BY <1>1 DEF Rejections
  <1>4. Append(s.rej.events, c) \in Seq(Compensation) /\ Append(s.rej.events, c) # <<>>
    BY <1>2, <1>3
  <1>5. s.rej.excess + qty \in Nat
    BY <1>3
  <1>6. r \in Rejections
    BY <1>4, <1>5 DEF Rejections
  <1>7. t = [s EXCEPT !.rej = r]
    BY DEF Reject
  <1>8. t \in Sessions
    BY <1>6, <1>7, Zenon DEF Sessions
  <1>9. /\ t.pc = s.pc /\ t.node = s.node /\ t.cur = s.cur /\ t.last = s.last
        /\ t.line = s.line /\ t.rej = r
    BY <1>7 DEF Sessions
  <1>10. r.reason = reason /\ r.events = Append(s.rej.events, c)
    OBVIOUS
  <1>. QED
    BY <1>4, <1>8, <1>9, <1>10

\* A step that only reads the store leaves it well typed.
LEMMA ReadsOnly ==
    ASSUME TypeInv, UNCHANGED storeVars
    PROVE  StoreTypeOK'
  BY DEF TypeInv, TypeOK, StoreTypeOK, storeVars

-----------------------------------------------------------------------------
(* Sessions *)

LEMMA ReceiveBatchActs ==
    ASSUME TypeInv, NEW h \in Handlers, ReceiveBatch(h)
    PROVE  Acts(h)
  <1>. DEFINE s == session[h]
              n == s.node
  <1>1. s \in Sessions /\ Fits(s) /\ s.pc = "receive"
    BY DEF TypeInv, TypeOK, ReceiveBatch, Step, At
  <1>2. n \in Nodes /\ s.line = 1 /\ s.rej = NoRejection /\ s.last \in Nat
    BY <1>1 DEF Fits, Placed, LineFits, RejectionFits, Sessions
  <1>3. pushed[n] \in Nat
    BY <1>2 DEF TypeInv, TypeOK, StoreTypeOK
  <1>4. CASE \E k \in 1..MaxBatch :
                /\ s.last + k <= Len(log[n])
                /\ Become(h, [s EXCEPT !.pc = "decision", !.cur = s.last + 1,
                                       !.last = s.last + k,
                                       !.high = Max2(pushed[n], s.last + k)])
    <2>1. PICK k \in 1..MaxBatch :
                /\ s.last + k <= Len(log[n])
                /\ Become(h, [s EXCEPT !.pc = "decision", !.cur = s.last + 1,
                                       !.last = s.last + k,
                                       !.high = Max2(pushed[n], s.last + k)])
      BY <1>4
    <2>2. k \in Nat \ {0}
      BY ArbiterAssumption
    <2>. DEFINE high == Max2(pushed[n], s.last + k)
                t == [s EXCEPT !.pc = "decision", !.cur = s.last + 1, !.last = s.last + k,
                               !.high = high]
    <2>3. "decision" \in Phases /\ s.last + 1 \in Nat /\ s.last + k \in Nat /\ high \in Nat
      BY <1>2, <1>3, <2>2 DEF Phases, Max2
    <2>4. t \in Sessions
      BY <1>1, <2>3, Zenon DEF Sessions
    <2>5. /\ t.pc = "decision" /\ t.node = n /\ t.cur = s.last + 1 /\ t.last = s.last + k
          /\ t.line = 1 /\ t.rej = NoRejection
      BY <1>1, <1>2 DEF Sessions
    <2>6. Placed(t)
      BY <1>2, <2>1, <2>2, <2>5 DEF Placed
    <2>7. KindFits(t) /\ LineFits(t) /\ RejectionFits(t)
      BY <2>5 DEF KindFits, LineFits, RejectionFits, NoRejection
    <2>. QED
      BY <2>1, <2>4, <2>6, <2>7, ReadsOnly DEF Acts, Fits, ReceiveBatch, Step, nodeVars
  <1>5. CASE Become(h, [s EXCEPT !.pc = "setpushed", !.cur = s.last + 1, !.high = pushed[n]])
    <2>. DEFINE t == [s EXCEPT !.pc = "setpushed", !.cur = s.last + 1, !.high = pushed[n]]
    <2>1. "setpushed" \in Phases /\ s.last + 1 \in Nat
      BY <1>2 DEF Phases
    <2>2. t \in Sessions
      BY <1>1, <1>3, <2>1, Zenon DEF Sessions
    <2>3. t.pc = "setpushed" /\ t.node = n /\ t.line = 1 /\ t.rej = NoRejection
      BY <1>1, <1>2 DEF Sessions
    <2>4. Fits(t)
      BY <1>2, <2>3 DEF Fits, Placed, KindFits, LineFits, RejectionFits, NoRejection,
                        Arbitrating, Outside
    <2>. QED
      BY <1>5, <2>2, <2>4, ReadsOnly DEF Acts, ReceiveBatch, Step, nodeVars
  <1>. QED
    BY <1>4, <1>5 DEF ReceiveBatch

LEMMA StorePushedActs ==
    ASSUME TypeInv, NEW h \in Handlers, StorePushed(h)
    PROVE  Acts(h)
  <1>. DEFINE s == session[h]
              t == [s EXCEPT !.pc = "ack"]
  <1>1. s \in Sessions /\ Fits(s) /\ s.pc = "setpushed" /\ s.high \in Nat
    BY DEF TypeInv, TypeOK, StorePushed, Step, At, Sessions
  <1>2. t \in Sessions /\ t.pc = "ack" /\ t.node = s.node /\ t.line = s.line /\ t.rej = s.rej
    BY <1>1, GotoStep DEF Phases
  <1>3. Fits(t)
    BY <1>1, <1>2 DEF Fits, Placed, KindFits, LineFits, RejectionFits, Arbitrating, Outside
  <1>4. StoreTypeOK'
    BY <1>1 DEF TypeInv, TypeOK, StoreTypeOK, StorePushed, SetPushedSeq, logVars,
                receiptVars, transitVars
  <1>. QED
    BY <1>2, <1>3, <1>4 DEF Acts, StorePushed, Step, Goto, nodeVars

-----------------------------------------------------------------------------
(* The retry check, the log and the validators *)

LEMMA ReadDecisionActs ==
    ASSUME TypeInv, NEW h \in Handlers, ReadDecision(h)
    PROVE  Acts(h)
  <1>. DEFINE s == session[h]
              t == [s EXCEPT !.pc = "append"]
  <1>1. s \in Sessions /\ Fits(s) /\ s.pc = "decision" /\ s.pc \in Arbitrating
    BY DEF TypeInv, TypeOK, ReadDecision, Step, At, Arbitrating, Outside, Phases
  <1>2. CASE NextEvent(h)
    BY <1>1, <1>2, NextEventFits, ReadsOnly DEF Acts, ReadDecision, Step, nodeVars
  <1>3. CASE Goto(h, "append")
    <2>1. /\ t \in Sessions /\ t.pc = "append" /\ t.node = s.node /\ t.cur = s.cur
          /\ t.last = s.last /\ t.line = s.line /\ t.rej = s.rej
      BY <1>1, GotoStep DEF Phases
    <2>2. Fits(t)
      BY <1>1, <2>1 DEF Fits, Placed, KindFits, LineFits, RejectionFits
    <2>. QED
      BY <1>3, <2>1, <2>2, ReadsOnly DEF Acts, ReadDecision, Step, Goto, nodeVars
  <1>. QED
    BY <1>2, <1>3 DEF ReadDecision

LEMMA StoreEventActs ==
    ASSUME TypeInv, NEW h \in Handlers, StoreEvent(h)
    PROVE  Acts(h)
  <1>. DEFINE s == session[h]
              next == IF P(h).kind = "Other" THEN "decide" ELSE "items"
              t == [s EXCEPT !.pc = next]
  <1>1. s \in Sessions /\ Fits(s) /\ s.pc = "append" /\ s.pc \in Arbitrating
    BY DEF TypeInv, TypeOK, StoreEvent, Step, At, Arbitrating, Outside, Phases
  <1>2. P(h) \in Payloads /\ P(h) = E(s) /\ Current(h) \in Ids
    BY <1>1, Here
  <1>3. /\ t \in Sessions /\ t.pc = next /\ t.node = s.node /\ t.cur = s.cur
        /\ t.last = s.last /\ t.line = s.line /\ t.rej = s.rej
    BY <1>1, GotoStep DEF Phases
  <1>4. E(t) = P(h)
    BY <1>2, <1>3 DEF E
  <1>5. E(t).kind # "Other" => t.line \in DOMAIN E(t).lines
    <2>1. P(h).lines \in Seq(LineItem) /\ (P(h).kind # "Other" => Len(P(h).lines) >= 1)
      BY <1>2, PayloadFields
    <2>. QED
      BY <1>1, <1>3, <1>4, <2>1 DEF Fits, LineFits
  <1>6. s.rej = NoRejection
    BY <1>1 DEF Fits, RejectionFits
  <1>7. Placed(t)
    BY <1>1, <1>3 DEF Fits, Placed
  <1>8. KindFits(t) /\ LineFits(t) /\ RejectionFits(t)
    BY <1>3, <1>4, <1>5, <1>6 DEF KindFits, LineFits, RejectionFits, NoRejection
  <1>9. StoreTypeOK'
    BY <1>2 DEF TypeInv, TypeOK, StoreTypeOK, StoreEvent, AppendEvent, receiptVars,
                transitVars, queueVars
  <1>. QED
    BY <1>3, <1>7, <1>8, <1>9 DEF Acts, Fits, StoreEvent, Step, Goto, nodeVars

LEMMA CheckItemActs ==
    ASSUME TypeInv, NEW h \in Handlers, CheckItem(h)
    PROVE  Acts(h)
  <1>. DEFINE s == session[h]
              r == IF Line(h).sku \in Items THEN s ELSE Reject(s, "unknown_sku", Line(h).qty)
              done == AfterItems(P(h).kind, r.rej.reason # "accepted")
              t == NextLine(h, r, "items", done)
  <1>1. s \in Sessions /\ Fits(s) /\ s.pc = "items" /\ s.pc \in Arbitrating
    BY DEF TypeInv, TypeOK, CheckItem, Step, At, Arbitrating, Outside, Phases
  <1>2. P(h) \in Payloads /\ P(h) = E(s)
    BY <1>1, Here
  <1>3. s.line \in DOMAIN P(h).lines /\ P(h).kind # "Other"
    BY <1>1, <1>2 DEF Fits, LineFits, KindFits
  <1>4. Line(h).qty \in Nat \ {0}
    BY <1>2, <1>3, LineType DEF Line
  <1>5. /\ r \in Sessions
        /\ r.node = s.node /\ r.cur = s.cur /\ r.last = s.last /\ r.line = s.line
        /\ \/ r.rej.reason = "unknown_sku" /\ r.rej.events # <<>>
           \/ r.rej = s.rej
    <2>1. CASE Line(h).sku \in Items
      BY <1>1, <2>1
    <2>2. CASE Line(h).sku \notin Items
      <3>1. r = Reject(s, "unknown_sku", Line(h).qty) /\ "unknown_sku" \in Reasons
        BY <2>2 DEF Reasons
      <3>. HIDE DEF r
      <3>. QED
        BY <1>1, <1>4, <3>1, RejectStep
    <2>. QED
      BY <2>1, <2>2
  <1>6. /\ P(h).kind \in {"GoodsReceived", "TransferDispatched", "TransferReceived"}
        /\ Len(P(h).lines) >= 1 /\ P(h).lines \in Seq(LineItem)
    BY <1>2, <1>3, PayloadFields
  <1>7. /\ done \in Phases
        /\ P(h).kind = "GoodsReceived" /\ r.rej.reason = "accepted" => done = "note"
        /\ P(h).kind = "GoodsReceived" /\ r.rej.reason # "accepted" => done = "record"
        /\ P(h).kind = "TransferDispatched" => done \in {"destination", "record"}
        /\ P(h).kind = "TransferReceived" => done \in {"transit", "row"}
    BY <1>6 DEF AfterItems, Phases
  <1>8. "items" \in Phases
    BY DEF Phases
  <1>9. /\ t \in Sessions
        /\ t.node = r.node /\ t.cur = r.cur /\ t.last = r.last /\ t.rej = r.rej
        /\ \/ t.pc = "items" /\ t.line \in DOMAIN P(h).lines
           \/ t.pc = done /\ t.line = 1
    BY <1>2, <1>3, <1>5, <1>7, <1>8, NextLineStep
  <1>10. E(t) = P(h) /\ 1 \in DOMAIN P(h).lines
    BY <1>2, <1>5, <1>6, <1>9 DEF E
  <1>11. /\ s.rej.reason # "accepted" => s.rej.events # <<>>
         /\ \/ s.rej.reason = "unknown_sku"
            \/ s.rej.reason = "accepted" /\ s.rej.excess = 0
    BY <1>1 DEF Fits, RejectionFits
  <1>12. /\ t.rej.reason # "accepted" => t.rej.events # <<>>
         /\ \/ t.rej.reason = "unknown_sku"
            \/ t.rej.reason = "accepted" /\ t.rej.excess = 0
    BY <1>5, <1>9, <1>11
  <1>. HIDE DEF t, r, done
  <1>13. Placed(t)
    BY <1>1, <1>5, <1>9 DEF Fits, Placed
  <1>14. KindFits(t) /\ LineFits(t)
    BY <1>3, <1>6, <1>7, <1>9, <1>10 DEF KindFits, LineFits
  <1>15. RejectionFits(t)
    BY <1>3, <1>6, <1>7, <1>9, <1>10, <1>12 DEF RejectionFits
  <1>. QED
    BY <1>9, <1>13, <1>14, <1>15, ReadsOnly DEF t, r, done, Acts, Fits, CheckItem, Step,
                                                nodeVars

LEMMA CheckNoteActs ==
    ASSUME TypeInv, NEW h \in Handlers, CheckNote(h)
    PROVE  Acts(h)
  <1>. DEFINE s == session[h]
  <1>1. s \in Sessions /\ Fits(s) /\ s.pc = "note" /\ s.pc \in Arbitrating
    BY DEF TypeInv, TypeOK, CheckNote, Step, At, Arbitrating, Outside, Phases
  <1>2. P(h) \in Payloads /\ P(h) = E(s)
    BY <1>1, Here
  <1>3. /\ s.line \in DOMAIN P(h).lines /\ P(h).kind = "GoodsReceived"
        /\ s.rej.reason = "accepted" /\ s.rej.excess = 0
    BY <1>1, <1>2 DEF Fits, LineFits, KindFits, RejectionFits
  <1>4. Line(h).qty \in Nat \ {0}
    BY <1>2, <1>3, LineType DEF Line
  <1>5. CASE NoteAgain(h)
    <2>. DEFINE r == Reject(s, "duplicate_receipt", Line(h).qty)
                t == [r EXCEPT !.pc = "record"]
    <2>. "duplicate_receipt" \in Reasons
      BY DEF Reasons
    <2>1. /\ r \in Sessions
          /\ r.node = s.node /\ r.cur = s.cur /\ r.last = s.last /\ r.line = s.line
          /\ r.rej.reason = "duplicate_receipt" /\ r.rej.events # <<>>
      BY <1>1, <1>4, RejectStep
    <2>2. /\ t \in Sessions /\ t.pc = "record" /\ t.node = r.node /\ t.cur = r.cur
          /\ t.last = r.last /\ t.line = r.line /\ t.rej = r.rej
      BY <2>1, GotoStep DEF Phases
    <2>3. E(t) = P(h)
      BY <1>2, <2>1, <2>2 DEF E
    <2>4. Fits(t)
      BY <1>1, <1>3, <2>1, <2>2, <2>3 DEF Fits, Placed, KindFits, LineFits, RejectionFits
    <2>. QED
      BY <1>5, <2>2, <2>4, ReadsOnly DEF Acts, NoteAgain, CheckNote, Step, nodeVars
  <1>6. CASE NoteFirst(h)
    <2>. DEFINE pc == IF <<P(h).po, Line(h).sku>> \in DOMAIN Ordered THEN "total" ELSE "record"
                t == [s EXCEPT !.pc = pc]
    <2>1. /\ t \in Sessions /\ t.pc = pc /\ t.node = s.node /\ t.cur = s.cur
          /\ t.last = s.last /\ t.line = s.line /\ t.rej = s.rej
      BY <1>1, GotoStep DEF Phases
    <2>2. E(t) = P(h)
      BY <1>2, <2>1 DEF E
    <2>3. KindFits(t) /\ LineFits(t)
      BY <1>3, <2>1, <2>2 DEF KindFits, LineFits, Line
    <2>4. RejectionFits(t) /\ Placed(t)
      BY <1>1, <1>3, <1>4, <2>1, <2>2 DEF Fits, RejectionFits, Placed, Line
    <2>. QED
      BY <1>6, <2>1, <2>3, <2>4, ReadsOnly DEF Acts, Fits, NoteFirst, Goto, CheckNote, Step,
                                               nodeVars
  <1>. QED
    BY <1>5, <1>6 DEF CheckNote

LEMMA ReadTotalActs ==
    ASSUME TypeInv, NEW h \in Handlers, ReadTotal(h)
    PROVE  Acts(h)
  <1>. DEFINE s == session[h]
              total == ReceivedAgainstPO(P(h).po, Line(h).sku)
              t == [s EXCEPT !.pc = "own", !.seen = total]
  <1>1. s \in Sessions /\ Fits(s) /\ s.pc = "total" /\ s.pc \in Arbitrating
    BY DEF TypeInv, TypeOK, ReadTotal, Step, At, Arbitrating, Outside, Phases
  <1>2. P(h) \in Payloads /\ P(h) = E(s)
    BY <1>1, Here
  <1>3. s.line \in DOMAIN P(h).lines /\ P(h).kind = "GoodsReceived"
    BY <1>1, <1>2 DEF Fits, LineFits, KindFits
  <1>4. P(h).po \in POs /\ Line(h).sku \in SKUs
    BY <1>2, <1>3, LineType, PayloadFields DEF Line, Receipts
  <1>5. total \in Int
    BY <1>4 DEF TypeInv, TypeOK, StoreTypeOK, ReceivedAgainstPO
  <1>6. "own" \in Phases
    BY DEF Phases
  <1>7. t \in Sessions
    BY <1>1, <1>5, <1>6, Zenon DEF Sessions
  <1>8. /\ t.pc = "own" /\ t.node = s.node /\ t.cur = s.cur /\ t.last = s.last
        /\ t.line = s.line /\ t.rej = s.rej
    BY <1>1 DEF Sessions
  <1>9. E(t) = P(h)
    BY <1>2, <1>8 DEF E
  <1>10. Fits(t)
    BY <1>1, <1>2, <1>8, <1>9 DEF Fits, Placed, KindFits, LineFits, RejectionFits
  <1>. QED
    BY <1>7, <1>10, ReadsOnly DEF Acts, ReadTotal, Step, nodeVars

LEMMA CheckOrderActs ==
    ASSUME TypeInv, NEW h \in Handlers, CheckOrder(h)
    PROVE  Acts(h)
  <1>. DEFINE s == session[h]
              excess == Excess(s.seen, Receipt(Current(h)), Line(h).qty,
                               Ordered[<<P(h).po, Line(h).sku>>])
              stock == Reversal("po_overreceipt", 1, excess)
              rej == [reason |-> "po_overreceipt",
                      events |-> <<stock, [stock EXCEPT !.paper = TRUE]>>,
                      excess |-> excess]
  <1>1. s \in Sessions /\ Fits(s) /\ s.pc = "own" /\ s.pc \in Arbitrating
    BY DEF TypeInv, TypeOK, CheckOrder, Step, At, Arbitrating, Outside, Phases
  <1>2. P(h) \in Payloads /\ P(h) = E(s) /\ Current(h) \in Ids
    BY <1>1, Here
  <1>3. /\ s.line \in DOMAIN P(h).lines /\ P(h).kind = "GoodsReceived"
        /\ s.rej.reason = "accepted" /\ s.rej.excess = 0
        /\ <<P(h).po, Line(h).sku>> \in DOMAIN Ordered
    BY <1>1, <1>2 DEF Fits, LineFits, KindFits, RejectionFits, Line
  <1>4. Line(h).qty \in Nat \ {0}
    BY <1>2, <1>3, LineType DEF Line
  <1>5. Ordered[<<P(h).po, Line(h).sku>>] \in Nat
    BY <1>3, StoreAssumption
  <1>6. s.seen \in Int /\ Receipt(Current(h)) \in Nat
    BY <1>1, <1>2 DEF TypeInv, TypeOK, StoreTypeOK, Receipt, Sessions
  <1>7. excess \in Int /\ excess <= Line(h).qty
    BY <1>4, <1>5, <1>6 DEF Excess, Min2
  <1>. HIDE DEF excess
  <1>8. CASE Goto(h, "record")
    <2>. DEFINE t == [s EXCEPT !.pc = "record"]
    <2>1. /\ t \in Sessions /\ t.pc = "record" /\ t.node = s.node /\ t.cur = s.cur
          /\ t.last = s.last /\ t.line = s.line /\ t.rej = s.rej
      BY <1>1, GotoStep DEF Phases
    <2>2. E(t) = P(h)
      BY <1>2, <2>1 DEF E
    <2>3. KindFits(t) /\ LineFits(t)
      BY <1>3, <2>1, <2>2 DEF KindFits, LineFits
    <2>4. RejectionFits(t) /\ Placed(t)
      BY <1>1, <1>3, <1>4, <2>1, <2>2 DEF Fits, RejectionFits, Placed, Line
    <2>. QED
      BY <1>8, <2>1, <2>3, <2>4, ReadsOnly DEF Acts, Fits, Goto, CheckOrder, Step, nodeVars
  <1>9. CASE excess > 0 /\ Become(h, [s EXCEPT !.pc = "record", !.rej = rej])
    <2>. DEFINE t == [s EXCEPT !.pc = "record", !.rej = rej]
    <2>1. excess \in Nat \ {0}
      BY <1>7, <1>9
    <2>2. stock \in Compensation /\ [stock EXCEPT !.paper = TRUE] \in Compensation
      BY <2>1 DEF Reversal, Compensation, Reasons
    <2>. HIDE DEF stock
    <2>3. rej \in Rejections
      BY <2>1, <2>2 DEF Rejections, Reasons
    <2>4. rej.reason = "po_overreceipt" /\ rej.excess = excess /\ rej.events # <<>>
      OBVIOUS
    <2>. HIDE DEF rej
    <2>5. "record" \in Phases
      BY DEF Phases
    <2>6. t \in Sessions
      BY <1>1, <2>3, <2>5, Zenon DEF Sessions
    <2>7. /\ t.pc = "record" /\ t.node = s.node /\ t.cur = s.cur
          /\ t.last = s.last /\ t.line = s.line /\ t.rej = rej
      BY <1>1 DEF Sessions
    <2>8. E(t) = P(h)
      BY <1>2, <2>7 DEF E
    <2>9. KindFits(t) /\ LineFits(t)
      BY <1>3, <2>7, <2>8 DEF KindFits, LineFits
    <2>10. RejectionFits(t) /\ Placed(t)
      BY <1>1, <1>7, <2>4, <2>7, <2>8 DEF Fits, RejectionFits, Placed, Line
    <2>. QED
      BY <1>9, <2>6, <2>9, <2>10, ReadsOnly DEF Acts, Fits, CheckOrder, Step, nodeVars
  <1>. QED
    BY <1>7, <1>8, <1>9 DEF CheckOrder, excess

LEMMA CheckDestinationActs ==
    ASSUME TypeInv, NEW h \in Handlers, CheckDestination(h)
    PROVE  Acts(h)
  <1>. DEFINE s == session[h]
              p == P(h)
              reversals == [i \in 1..Len(p.lines) |->
                              Reversal("transfer_rejected", i, p.lines[i].qty)]
              rej == [reason |-> "transfer_rejected", events |-> reversals, excess |-> 0]
  <1>1. s \in Sessions /\ Fits(s) /\ s.pc = "destination" /\ s.pc \in Arbitrating
    BY DEF TypeInv, TypeOK, CheckDestination, Step, At, Arbitrating, Outside, Phases
  <1>2. p \in Payloads /\ p = E(s)
    BY <1>1, Here
  <1>3. p.kind = "TransferDispatched" /\ s.line = 1
    BY <1>1, <1>2 DEF Fits, LineFits, KindFits
  <1>4. p.lines \in Seq(LineItem) /\ Len(p.lines) >= 1
    BY <1>2, <1>3, PayloadFields
  <1>5. CASE Goto(h, "record")
    <2>. DEFINE t == [s EXCEPT !.pc = "record"]
    <2>1. /\ t \in Sessions /\ t.pc = "record" /\ t.node = s.node /\ t.cur = s.cur
          /\ t.last = s.last /\ t.line = s.line /\ t.rej = s.rej
      BY <1>1, GotoStep DEF Phases
    <2>2. E(t) = p
      BY <1>2, <2>1 DEF E
    <2>3. KindFits(t) /\ LineFits(t)
      BY <1>3, <1>4, <2>1, <2>2 DEF KindFits, LineFits
    <2>4. RejectionFits(t) /\ Placed(t)
      BY <1>1, <1>3, <2>1, <2>2 DEF Fits, RejectionFits, Placed
    <2>. QED
      BY <1>5, <2>1, <2>3, <2>4, ReadsOnly DEF Acts, Fits, Goto, CheckDestination, Step,
                                               nodeVars
  <1>6. CASE Become(h, [s EXCEPT !.pc = "record", !.rej = rej])
    <2>. DEFINE t == [s EXCEPT !.pc = "record", !.rej = rej]
    <2>1. \A i \in 1..Len(p.lines) : p.lines[i].qty \in Nat \ {0}
      BY <1>2, <1>4, LineType
    <2>2. \A i \in 1..Len(p.lines) :
             Reversal("transfer_rejected", i, p.lines[i].qty) \in Compensation
      BY <1>4, <2>1 DEF Reversal, Compensation, Reasons
    <2>3. reversals \in Seq(Compensation) /\ Len(reversals) = Len(p.lines)
      BY <1>4, <2>2
    <2>. HIDE DEF reversals
    <2>4. rej \in Rejections
      BY <2>3 DEF Rejections, Reasons
    <2>5. rej.reason = "transfer_rejected" /\ rej.events # <<>>
      BY <1>4, <2>3
    <2>. HIDE DEF rej
    <2>6. "record" \in Phases
      BY DEF Phases
    <2>7. t \in Sessions
      BY <1>1, <2>4, <2>6, Zenon DEF Sessions
    <2>8. /\ t.pc = "record" /\ t.node = s.node /\ t.cur = s.cur
          /\ t.last = s.last /\ t.line = s.line /\ t.rej = rej
      BY <1>1 DEF Sessions
    <2>9. E(t) = p
      BY <1>2, <2>8 DEF E
    <2>10. KindFits(t) /\ LineFits(t)
      BY <1>3, <1>4, <2>8, <2>9 DEF KindFits, LineFits
    <2>11. RejectionFits(t) /\ Placed(t)
      BY <1>1, <1>3, <2>5, <2>8, <2>9 DEF Fits, RejectionFits, Placed
    <2>. QED
      BY <1>6, <2>7, <2>10, <2>11, ReadsOnly DEF Acts, Fits, CheckDestination, Step, nodeVars
  <1>. QED
    BY <1>5, <1>6 DEF CheckDestination

LEMMA CheckTransitActs ==
    ASSUME TypeInv, NEW h \in Handlers, CheckTransit(h)
    PROVE  Acts(h)
  <1>. DEFINE s == session[h]
              row == InTransit(P(h).transfer, Line(h).sku)
  <1>1. s \in Sessions /\ Fits(s) /\ s.pc = "transit" /\ s.pc \in Arbitrating
    BY DEF TypeInv, TypeOK, CheckTransit, Step, At, Arbitrating, Outside, Phases
  <1>2. P(h) \in Payloads /\ P(h) = E(s)
    BY <1>1, Here
  <1>3. s.line \in DOMAIN P(h).lines /\ P(h).kind = "TransferReceived"
    BY <1>1, <1>2 DEF Fits, LineFits, KindFits
  <1>4. /\ Line(h).qty \in Nat \ {0} /\ Line(h).sku \in SKUs /\ P(h).transfer \in Transfers
        /\ 1 \in DOMAIN P(h).lines
    BY <1>2, <1>3, LineType, PayloadFields DEF Line, Arrivals
  <1>5. CASE Become(h, NextLine(h, Reject(s, "transfer_overreceipt", Line(h).qty),
                                "transit", "row"))
    <2>. DEFINE r == Reject(s, "transfer_overreceipt", Line(h).qty)
                t == NextLine(h, r, "transit", "row")
    <2>. "transfer_overreceipt" \in Reasons /\ "transit" \in Phases /\ "row" \in Phases
      BY DEF Reasons, Phases
    <2>1. /\ r \in Sessions
          /\ r.node = s.node /\ r.cur = s.cur /\ r.last = s.last /\ r.line = s.line
          /\ r.rej.reason = "transfer_overreceipt" /\ r.rej.events # <<>>
      BY <1>1, <1>4, RejectStep
    <2>. HIDE DEF r
    <2>2. /\ t \in Sessions
          /\ t.node = r.node /\ t.cur = r.cur /\ t.last = r.last /\ t.rej = r.rej
          /\ \/ t.pc = "transit" /\ t.line \in DOMAIN P(h).lines
             \/ t.pc = "row" /\ t.line = 1
      BY <1>2, <1>3, <2>1, NextLineStep
    <2>. HIDE DEF t
    <2>3. E(t) = P(h)
      BY <1>2, <2>1, <2>2 DEF E
    <2>4. Fits(t)
      BY <1>1, <1>3, <1>4, <2>1, <2>2, <2>3 DEF Fits, Placed, KindFits, LineFits, RejectionFits
    <2>. QED
      BY <1>5, <2>2, <2>4, ReadsOnly DEF t, r, Acts, CheckTransit, Step, nodeVars
  <1>6. CASE Become(h, [s EXCEPT !.pc = "folded", !.seen = row.dispatched - row.received])
    <2>. DEFINE seen == row.dispatched - row.received
                t == [s EXCEPT !.pc = "folded", !.seen = seen]
    <2>1. seen \in Int /\ "folded" \in Phases
      BY <1>4 DEF TypeInv, TypeOK, StoreTypeOK, InTransit, Phases
    <2>2. t \in Sessions
      BY <1>1, <2>1, Zenon DEF Sessions
    <2>3. /\ t.pc = "folded" /\ t.node = s.node /\ t.cur = s.cur /\ t.last = s.last
          /\ t.line = s.line /\ t.rej = s.rej
      BY <1>1 DEF Sessions
    <2>4. E(t) = P(h)
      BY <1>2, <2>3 DEF E
    <2>5. Fits(t)
      BY <1>1, <1>2, <2>3, <2>4 DEF Fits, Placed, KindFits, LineFits, RejectionFits
    <2>. QED
      BY <1>6, <2>2, <2>5, ReadsOnly DEF Acts, CheckTransit, Step, nodeVars
  <1>. QED
    BY <1>5, <1>6 DEF CheckTransit

LEMMA CheckFoldedActs ==
    ASSUME TypeInv, NEW h \in Handlers, CheckFolded(h)
    PROVE  Acts(h)
  <1>. DEFINE s == session[h]
              over == Line(h).qty - (s.seen + ReceivedFromEvent(Current(h), Line(h).sku))
              r == Surplus(s, over)
              t == NextLine(h, r, "transit", "row")
  <1>1. s \in Sessions /\ Fits(s) /\ s.pc = "folded" /\ s.pc \in Arbitrating
    BY DEF TypeInv, TypeOK, CheckFolded, Step, At, Arbitrating, Outside, Phases
  <1>2. P(h) \in Payloads /\ P(h) = E(s) /\ Current(h) \in Ids
    BY <1>1, Here
  <1>3. s.line \in DOMAIN P(h).lines /\ P(h).kind = "TransferReceived"
    BY <1>1, <1>2 DEF Fits, LineFits, KindFits
  <1>4. Line(h).qty \in Nat \ {0} /\ Line(h).sku \in SKUs /\ 1 \in DOMAIN P(h).lines
    BY <1>2, <1>3, LineType, PayloadFields DEF Line
  <1>5. ReceivedFromEvent(Current(h), Line(h).sku) \in Nat /\ s.seen \in Int
    BY <1>1, <1>2, <1>4 DEF TypeInv, TypeOK, StoreTypeOK, ReceivedFromEvent, Sessions
  <1>6. over \in Int
    BY <1>4, <1>5
  <1>. HIDE DEF over
  <1>7. /\ r \in Sessions
        /\ r.node = s.node /\ r.cur = s.cur /\ r.last = s.last /\ r.line = s.line
        /\ r.rej.reason # "accepted" => r.rej.events # <<>>
    <2>1. CASE over > 0
      <3>1. /\ r = Reject(s, "transfer_overreceipt", over)
            /\ "transfer_overreceipt" \in Reasons /\ over \in Nat \ {0}
        BY <1>6, <2>1 DEF Surplus, Reasons
      <3>. HIDE DEF r
      <3>. QED
        BY <1>1, <3>1, RejectStep
    <2>2. CASE ~ (over > 0)
      BY <1>1, <2>2 DEF Surplus, Fits, RejectionFits
    <2>. QED
      BY <2>1, <2>2
  <1>. HIDE DEF r
  <1>8. "transit" \in Phases /\ "row" \in Phases
    BY DEF Phases
  <1>9. /\ t \in Sessions
        /\ t.node = r.node /\ t.cur = r.cur /\ t.last = r.last /\ t.rej = r.rej
        /\ \/ t.pc = "transit" /\ t.line \in DOMAIN P(h).lines
           \/ t.pc = "row" /\ t.line = 1
    BY <1>2, <1>3, <1>7, <1>8, NextLineStep
  <1>. HIDE DEF t
  <1>10. E(t) = P(h)
    BY <1>2, <1>7, <1>9 DEF E
  <1>11. Fits(t)
    BY <1>1, <1>3, <1>4, <1>7, <1>9, <1>10 DEF Fits, Placed, KindFits, LineFits, RejectionFits
  <1>. QED
    BY <1>9, <1>11, ReadsOnly DEF t, r, over, Acts, CheckFolded, Step, nodeVars

-----------------------------------------------------------------------------
(* record and fanOut *)

LEMMA RecordFactActs ==
    ASSUME TypeInv, NEW h \in Handlers, RecordFact(h)
    PROVE  Acts(h)
  <1>. DEFINE s == session[h]
              next == IF Rejected(h) THEN "comps" ELSE "decide"
              t == [s EXCEPT !.pc = next]
              counted == Line(h).qty - s.rej.excess
  <1>1. s \in Sessions /\ Fits(s) /\ s.pc = "record" /\ s.pc \in Arbitrating
    BY DEF TypeInv, TypeOK, RecordFact, Step, At, Arbitrating, Outside, Phases
  <1>2. P(h) \in Payloads /\ P(h) = E(s) /\ Current(h) \in Ids
    BY <1>1, Here
  <1>3. s.line \in DOMAIN P(h).lines /\ P(h).kind = "GoodsReceived"
    BY <1>1, <1>2 DEF Fits, LineFits, RecordFact
  <1>4. /\ Line(h).qty \in Nat \ {0} /\ Line(h).sku \in SKUs /\ P(h).po \in POs
        /\ Line(h) = P(h).lines[s.line] /\ s.line = 1
    BY <1>2, <1>3, LineType, PayloadFields DEF Line, Receipts
  <1>5. /\ t \in Sessions /\ t.pc = next /\ t.node = s.node /\ t.cur = s.cur
        /\ t.last = s.last /\ t.line = s.line /\ t.rej = s.rej
    BY <1>1, GotoStep DEF Phases
  <1>6. Fits(t)
    BY <1>1, <1>4, <1>5 DEF Fits, Placed, KindFits, LineFits, RejectionFits, Rejected
  <1>7. s.rej.excess \in Nat
    BY <1>1 DEF Sessions, Rejections
  <1>8. s.rej.reason \in {"accepted", "po_overreceipt"} => counted \in Nat
    BY <1>1, <1>2, <1>3, <1>4, <1>7 DEF Fits, RejectionFits
  <1>9. CASE /\ s.rej.reason \in {"accepted", "po_overreceipt"}
             /\ RecordReceipt(Current(h), P(h).po, Line(h).sku, counted)
    <2>1. counted \in Nat /\ StoreTypeOK
      BY <1>8, <1>9 DEF TypeInv, TypeOK
    <2>. HIDE DEF counted
    <2>2. receipts' \in [Ids -> Nat \cup {NotRecorded}] /\ poTotal' \in [POs \X SKUs -> Nat]
      BY <1>2, <1>4, <1>9, <2>1, RecordReceiptType
    <2>3. StoreTypeOK'
      BY <2>2 DEF TypeInv, TypeOK, StoreTypeOK, RecordFact, logVars, transitVars, queueVars
    <2>. QED
      BY <1>5, <1>6, <2>3 DEF Acts, RecordFact, Goto, Step, nodeVars
  <1>10. CASE UNCHANGED receiptVars
    <2>1. StoreTypeOK'
      BY <1>10 DEF TypeInv, TypeOK, StoreTypeOK, RecordFact, logVars, receiptVars, transitVars,
                   queueVars
    <2>. QED
      BY <1>5, <1>6, <2>1 DEF Acts, RecordFact, Goto, Step, nodeVars
  <1>. QED
    BY <1>9, <1>10 DEF RecordFact

LEMMA RecordDispatchLineActs ==
    ASSUME TypeInv, NEW h \in Handlers, RecordDispatchLine(h)
    PROVE  Acts(h)
  <1>. DEFINE s == session[h]
              done == IF Rejected(h) THEN "fail" ELSE "forward"
              t == NextLine(h, s, "record", done)
  <1>1. s \in Sessions /\ Fits(s) /\ s.pc = "record" /\ s.pc \in Arbitrating
    BY DEF TypeInv, TypeOK, RecordDispatchLine, Step, At, Arbitrating, Outside, Phases
  <1>2. P(h) \in Payloads /\ P(h) = E(s) /\ s.node \in Nodes
    BY <1>1, Here
  <1>3. s.line \in DOMAIN P(h).lines /\ P(h).kind = "TransferDispatched"
    BY <1>1, <1>2 DEF Fits, LineFits, RecordDispatchLine
  <1>4. Line(h) \in LineItem /\ P(h).transfer \in Transfers /\ P(h).to \in Nat
    BY <1>2, <1>3, LineType, PayloadFields, StoreAssumption DEF Line, Dispatches
  <1>5. "record" \in Phases /\ done \in Phases
    BY DEF Phases
  <1>6. /\ t \in Sessions
        /\ t.node = s.node /\ t.cur = s.cur /\ t.last = s.last /\ t.rej = s.rej
        /\ \/ t.pc = "record" /\ t.line \in DOMAIN P(h).lines
           \/ t.pc = done /\ t.line = 1
    BY <1>1, <1>2, <1>3, <1>5, NextLineStep
  <1>. HIDE DEF t
  <1>7. E(t) = P(h)
    BY <1>2, <1>6 DEF E
  <1>8. Fits(t)
    BY <1>1, <1>3, <1>6, <1>7 DEF Fits, Placed, KindFits, LineFits, RejectionFits, Rejected
  <1>9. transit' \in [Transfers \X SKUs -> Rows]
    <2>1. s.node \in Nat /\ StoreTypeOK
      BY <1>2, StoreAssumption DEF TypeInv, TypeOK
    <2>. QED
      BY <1>4, <2>1, RecordDispatchType DEF RecordDispatchLine
  <1>10. StoreTypeOK'
    BY <1>9 DEF TypeInv, TypeOK, StoreTypeOK, Rows, RecordDispatchLine, logVars, receiptVars,
                queueVars
  <1>. QED
    BY <1>6, <1>8, <1>10 DEF t, done, Acts, RecordDispatchLine, Step, nodeVars

LEMMA KillTransferActs ==
    ASSUME TypeInv, NEW h \in Handlers, KillTransfer(h)
    PROVE  Acts(h)
  <1>. DEFINE s == session[h]
              t == [s EXCEPT !.pc = "comps"]
  <1>1. s \in Sessions /\ Fits(s) /\ s.pc = "fail"
    BY DEF TypeInv, TypeOK, KillTransfer, Step, At
  <1>2. /\ t \in Sessions /\ t.pc = "comps" /\ t.node = s.node /\ t.cur = s.cur
        /\ t.last = s.last /\ t.line = s.line /\ t.rej = s.rej
    BY <1>1, GotoStep DEF Phases
  <1>3. Fits(t)
    BY <1>1, <1>2 DEF Fits, Placed, KindFits, LineFits, RejectionFits, Arbitrating, Outside,
                      Phases
  <1>4. transit' \in [Transfers \X SKUs -> Rows]
    BY FailTransferType DEF TypeInv, TypeOK, KillTransfer
  <1>5. StoreTypeOK'
    BY <1>4 DEF TypeInv, TypeOK, StoreTypeOK, Rows, KillTransfer, logVars, receiptVars,
                queueVars
  <1>. QED
    BY <1>2, <1>3, <1>5 DEF Acts, KillTransfer, Goto, Step, nodeVars

LEMMA ReadRowActs ==
    ASSUME TypeInv, NEW h \in Handlers, ReadRow(h)
    PROVE  Acts(h)
  <1>. DEFINE s == session[h]
              row == InTransit(P(h).transfer, Line(h).sku)
              accepted == Min2(Line(h).qty, row.dispatched - row.received)
  <1>1. s \in Sessions /\ Fits(s) /\ s.pc = "row" /\ s.pc \in Arbitrating
    BY DEF TypeInv, TypeOK, ReadRow, Step, At, Arbitrating, Outside, Phases
  <1>2. P(h) \in Payloads /\ P(h) = E(s)
    BY <1>1, Here
  <1>3. s.line \in DOMAIN P(h).lines /\ P(h).kind = "TransferReceived"
    BY <1>1, <1>2 DEF Fits, LineFits, KindFits
  <1>4. Line(h).qty \in Nat /\ Line(h).sku \in SKUs /\ P(h).transfer \in Transfers
    BY <1>2, <1>3, LineType, PayloadFields DEF Line, Arrivals
  <1>5. accepted \in Int
    BY <1>4 DEF TypeInv, TypeOK, StoreTypeOK, InTransit, Min2
  <1>. HIDE DEF accepted
  <1>6. CASE Become(h, NextLine(h, s, "row", "forward"))
    <2>. DEFINE t == NextLine(h, s, "row", "forward")
    <2>1. "row" \in Phases /\ "forward" \in Phases
      BY DEF Phases
    <2>2. /\ t \in Sessions
          /\ t.node = s.node /\ t.cur = s.cur /\ t.last = s.last /\ t.rej = s.rej
          /\ \/ t.pc = "row" /\ t.line \in DOMAIN P(h).lines
             \/ t.pc = "forward" /\ t.line = 1
      BY <1>1, <1>2, <1>3, <2>1, NextLineStep
    <2>. HIDE DEF t
    <2>3. E(t) = P(h)
      BY <1>2, <2>2 DEF E
    <2>4. Fits(t)
      BY <1>1, <1>3, <2>2, <2>3 DEF Fits, Placed, KindFits, LineFits, RejectionFits
    <2>. QED
      BY <1>6, <2>2, <2>4, ReadsOnly DEF t, Acts, ReadRow, Step, nodeVars
  <1>7. CASE accepted > 0 /\ Become(h, [s EXCEPT !.pc = "fold", !.seen = accepted])
    <2>. DEFINE t == [s EXCEPT !.pc = "fold", !.seen = accepted]
    <2>1. "fold" \in Phases
      BY DEF Phases
    <2>2. t \in Sessions
      BY <1>1, <1>5, <2>1, Zenon DEF Sessions
    <2>3. /\ t.pc = "fold" /\ t.node = s.node /\ t.cur = s.cur /\ t.last = s.last
          /\ t.line = s.line /\ t.rej = s.rej /\ t.seen = accepted
      BY <1>1 DEF Sessions
    <2>4. E(t) = P(h)
      BY <1>2, <2>3 DEF E
    <2>5. Fits(t)
      BY <1>1, <1>3, <1>5, <1>7, <2>3, <2>4 DEF Fits, Placed, KindFits, LineFits, RejectionFits
    <2>. QED
      BY <1>7, <2>2, <2>5, ReadsOnly DEF Acts, ReadRow, Step, nodeVars
  <1>. QED
    BY <1>5, <1>6, <1>7 DEF ReadRow, accepted

LEMMA FoldLineActs ==
    ASSUME TypeInv, NEW h \in Handlers, FoldLine(h)
    PROVE  Acts(h)
  <1>. DEFINE s == session[h]
              t == NextLine(h, s, "row", "forward")
  <1>1. s \in Sessions /\ Fits(s) /\ s.pc = "fold" /\ s.pc \in Arbitrating
    BY DEF TypeInv, TypeOK, FoldLine, Step, At, Arbitrating, Outside, Phases
  <1>2. P(h) \in Payloads /\ P(h) = E(s) /\ Current(h) \in Ids
    BY <1>1, Here
  <1>3. s.line \in DOMAIN P(h).lines /\ P(h).kind = "TransferReceived" /\ s.seen \in Nat
    BY <1>1, <1>2 DEF Fits, LineFits, KindFits
  <1>4. Line(h).sku \in SKUs /\ P(h).transfer \in Transfers
    BY <1>2, <1>3, LineType, PayloadFields DEF Line, Arrivals
  <1>5. "row" \in Phases /\ "forward" \in Phases
    BY DEF Phases
  <1>6. /\ t \in Sessions
        /\ t.node = s.node /\ t.cur = s.cur /\ t.last = s.last /\ t.rej = s.rej
        /\ \/ t.pc = "row" /\ t.line \in DOMAIN P(h).lines
           \/ t.pc = "forward" /\ t.line = 1
    BY <1>1, <1>2, <1>3, <1>5, NextLineStep
  <1>. HIDE DEF t
  <1>7. E(t) = P(h)
    BY <1>2, <1>6 DEF E
  <1>8. Fits(t)
    BY <1>1, <1>3, <1>6, <1>7 DEF Fits, Placed, KindFits, LineFits, RejectionFits
  <1>9. folded' \in [Ids \X SKUs -> Nat] /\ transit' \in [Transfers \X SKUs -> Rows]
    BY <1>2, <1>3, <1>4, AddReceivedType DEF TypeInv, TypeOK, FoldLine
  <1>10. StoreTypeOK'
    BY <1>9 DEF TypeInv, TypeOK, StoreTypeOK, Rows, FoldLine, logVars, receiptVars, queueVars
  <1>. QED
    BY <1>6, <1>8, <1>10 DEF t, Acts, FoldLine, Step, nodeVars

\* The envelope of an event that some handler is arbitrating.
LEMMA EnvelopeType ==
    ASSUME NEW id \in Ids, NEW k \in Nat
    PROVE  EventRef(id) \in Envelopes /\ CompRef(id, k) \in Envelopes
  BY DEF EventRef, CompRef, Envelopes

LEMMA ForwardDispatchActs ==
    ASSUME TypeInv, NEW h \in Handlers, ForwardDispatch(h)
    PROVE  Acts(h)
  <1>. DEFINE s == session[h]
              t == [s EXCEPT !.pc = "decide"]
  <1>1. s \in Sessions /\ Fits(s) /\ s.pc = "forward" /\ s.pc \in Arbitrating
    BY DEF TypeInv, TypeOK, ForwardDispatch, Step, At, Arbitrating, Outside, Phases
  <1>2. EventRef(Current(h)) \in Envelopes
    BY <1>1, Here, EnvelopeType
  <1>3. /\ t \in Sessions /\ t.pc = "decide" /\ t.node = s.node /\ t.cur = s.cur
        /\ t.last = s.last /\ t.line = s.line /\ t.rej = s.rej
    BY <1>1, GotoStep DEF Phases
  <1>4. Fits(t)
    BY <1>1, <1>3 DEF Fits, Placed, KindFits, LineFits, RejectionFits
  <1>5. outbound' \in [Nodes -> SUBSET Envelopes]
    BY <1>2, EnqueueType DEF TypeInv, TypeOK, ForwardDispatch
  <1>6. StoreTypeOK'
    BY <1>5 DEF TypeInv, TypeOK, StoreTypeOK, ForwardDispatch, logVars, receiptVars,
                transitVars
  <1>. QED
    BY <1>3, <1>4, <1>6 DEF Acts, ForwardDispatch, Goto, Step, nodeVars

LEMMA ForwardArrivalActs ==
    ASSUME TypeInv, NEW h \in Handlers, ForwardArrival(h)
    PROVE  Acts(h)
  <1>. DEFINE s == session[h]
              next == IF Rejected(h) THEN "comps" ELSE "decide"
              t == [s EXCEPT !.pc = next]
  <1>1. s \in Sessions /\ Fits(s) /\ s.pc = "forward" /\ s.pc \in Arbitrating
    BY DEF TypeInv, TypeOK, ForwardArrival, Step, At, Arbitrating, Outside, Phases
  <1>2. EventRef(Current(h)) \in Envelopes
    BY <1>1, Here, EnvelopeType
  <1>3. /\ t \in Sessions /\ t.pc = next /\ t.node = s.node /\ t.cur = s.cur
        /\ t.last = s.last /\ t.line = s.line /\ t.rej = s.rej
    BY <1>1, GotoStep DEF Phases
  <1>4. Fits(t)
    BY <1>1, <1>3 DEF Fits, Placed, KindFits, LineFits, RejectionFits, Rejected
  <1>5. outbound' \in [Nodes -> SUBSET Envelopes]
    <2>1. CASE UNCHANGED outbound
      BY <2>1 DEF TypeInv, TypeOK, StoreTypeOK
    <2>2. CASE \E target : Enqueue(target, EventRef(Current(h)))
      BY <1>2, <2>2, EnqueueType DEF TypeInv, TypeOK
    <2>. QED
      BY <2>1, <2>2 DEF ForwardArrival
  <1>6. StoreTypeOK'
    BY <1>5 DEF TypeInv, TypeOK, StoreTypeOK, ForwardArrival, logVars, receiptVars, transitVars
  <1>. QED
    BY <1>3, <1>4, <1>6 DEF Acts, ForwardArrival, Goto, Step, nodeVars

-----------------------------------------------------------------------------
(* Compensation and decision *)

LEMMA EmitActs ==
    ASSUME TypeInv, NEW h \in Handlers, Emit(h)
    PROVE  Acts(h)
  <1>. DEFINE s == session[h]
              id == Current(h)
              queue == s.queue \cup {Len(comps[id]) + 1}
              line == IF s.line < Len(s.rej.events) THEN s.line + 1 ELSE 1
              pc == IF s.line < Len(s.rej.events) THEN "emit" ELSE "enqueue"
              t == [s EXCEPT !.queue = queue, !.line = line, !.pc = pc]
  <1>1. s \in Sessions /\ Fits(s) /\ s.pc = "emit" /\ s.pc \in Arbitrating
    BY DEF TypeInv, TypeOK, Emit, Step, At, Arbitrating, Outside, Phases
  <1>2. id \in Ids
    BY <1>1, Here
  <1>3. /\ s.rej.events \in Seq(Compensation) /\ s.queue \subseteq Nat
        /\ s.line \in 1..Len(s.rej.events) /\ s.rej.reason # "accepted"
    BY <1>1 DEF Sessions, Rejections, Fits, LineFits, RejectionFits
  <1>4. comps[id] \in Seq(Compensation)
    BY <1>2 DEF TypeInv, TypeOK, StoreTypeOK
  <1>5. queue \in SUBSET Nat /\ line \in Nat /\ pc \in Phases
    BY <1>3, <1>4 DEF Phases
  <1>6. t \in Sessions
    BY <1>1, <1>5, Zenon DEF Sessions
  <1>7. /\ t.pc = pc /\ t.node = s.node /\ t.cur = s.cur /\ t.last = s.last
        /\ t.line = line /\ t.rej = s.rej
    BY <1>1 DEF Sessions
  <1>8. Fits(t)
    BY <1>1, <1>3, <1>7 DEF Fits, Placed, KindFits, LineFits, RejectionFits
  <1>9. comps' \in [Ids -> Seq(Compensation)]
    <2>1. s.rej.events[s.line] \in Compensation
      BY <1>3
    <2>. QED
      BY <1>2, <2>1, InsertCompensationType DEF TypeInv, TypeOK, Emit
  <1>10. StoreTypeOK'
    BY <1>9 DEF TypeInv, TypeOK, StoreTypeOK, Emit, receiptVars, transitVars, queueVars
  <1>. QED
    BY <1>6, <1>8, <1>10 DEF Acts, Emit, Step, nodeVars

LEMMA EnqueueCompensationActs ==
    ASSUME TypeInv, NEW h \in Handlers, EnqueueCompensation(h)
    PROVE  Acts(h)
  <1>. DEFINE s == session[h]
  <1>1. s \in Sessions /\ Fits(s) /\ s.pc = "enqueue" /\ s.pc \in Arbitrating
    BY DEF TypeInv, TypeOK, EnqueueCompensation, Step, At, Arbitrating, Outside, Phases
  <1>2. PICK k \in s.queue :
          /\ Enqueue(s.node, CompRef(Current(h), k))
          /\ Become(h, [s EXCEPT !.queue = s.queue \ {k},
                                 !.pc = IF s.queue = {k} THEN "decide" ELSE "enqueue"])
    BY DEF EnqueueCompensation
  <1>. DEFINE pc == IF s.queue = {k} THEN "decide" ELSE "enqueue"
              t == [s EXCEPT !.queue = s.queue \ {k}, !.pc = pc]
  <1>3. s.queue \subseteq Nat /\ s.queue \ {k} \in SUBSET Nat /\ pc \in Phases
    BY <1>1 DEF Sessions, Phases
  <1>4. t \in Sessions
    BY <1>1, <1>3, Zenon DEF Sessions
  <1>5. /\ t.pc = pc /\ t.node = s.node /\ t.cur = s.cur /\ t.last = s.last
        /\ t.line = s.line /\ t.rej = s.rej
    BY <1>1 DEF Sessions
  <1>6. Fits(t)
    BY <1>1, <1>5 DEF Fits, Placed, KindFits, LineFits, RejectionFits
  <1>7. CompRef(Current(h), k) \in Envelopes
    BY <1>1, <1>3, Here, EnvelopeType
  <1>8. outbound' \in [Nodes -> SUBSET Envelopes]
    BY <1>2, <1>7, EnqueueType DEF TypeInv, TypeOK
  <1>9. StoreTypeOK'
    BY <1>8 DEF TypeInv, TypeOK, StoreTypeOK, EnqueueCompensation, logVars, receiptVars,
                transitVars
  <1>. QED
    BY <1>2, <1>4, <1>6, <1>9 DEF Acts, EnqueueCompensation, Step, nodeVars

LEMMA DecideActs ==
    ASSUME TypeInv, NEW h \in Handlers, Decide(h)
    PROVE  Acts(h)
  <1>1. session[h] \in Sessions /\ session[h].pc \in Arbitrating
    BY DEF TypeInv, TypeOK, Decide, Step, At, Arbitrating, Outside, Phases
  <1>2. \E t \in Sessions : Become(h, t) /\ Fits(t)
    BY <1>1, NextEventFits DEF Decide
  <1>3. session[h].rej.reason \in Verdicts
    BY <1>1 DEF Sessions, Rejections, Verdicts
  <1>4. StoreTypeOK'
    BY <1>3 DEF TypeInv, TypeOK, StoreTypeOK, Decide, RecordDecision, receiptVars, transitVars,
                queueVars
  <1>. QED
    BY <1>2, <1>4 DEF Acts, Decide, Step, nodeVars

-----------------------------------------------------------------------------
(* Steps that open, acknowledge or end a session *)

\* A step that leaves the store and the logs alone, and a session record that fits.
LEMMA SessionStep ==
    ASSUME TypeInv, NEW h \in Handlers, NEW t \in Sessions, Fits(t), Become(h, t),
           UNCHANGED <<storeVars, log>>,
           cursor' \in [Nodes -> Nat], client' \in [Nodes -> Handlers \cup {NoHandler}],
           failures' \in Nat
    PROVE  TypeInv'
  <1>1. TypeOK'
    BY ReadsOnly DEF TypeInv, TypeOK, Become
  <1>2. ASSUME NEW g \in Handlers PROVE Fits(session[g])'
    <2>1. session'[g] = IF g = h THEN t ELSE session[g]
      BY DEF TypeInv, TypeOK, Become
    <2>2. Fits(session'[g])
      BY <2>1 DEF TypeInv
    <2>. QED
      BY <2>2 DEF Fits, Placed, KindFits, LineFits, RejectionFits, E, Payload
  <1>. QED
    BY <1>1, <1>2 DEF TypeInv

LEMMA EndPreserves ==
    ASSUME TypeInv, NEW h \in Handlers, End(h), failures' \in Nat
    PROVE  TypeInv'
  <1>1. client' \in [Nodes -> Handlers \cup {NoHandler}]
    BY DEF TypeInv, TypeOK, End
  <1>. QED
    BY <1>1, IdleFits, SessionStep DEF TypeInv, TypeOK, End, nodeVars

LEMMA OpenPreserves ==
    ASSUME TypeInv, NEW h \in Handlers, NEW n \in Nodes, Open(h, n)
    PROVE  TypeInv'
  <1>. DEFINE t == [IdleSession EXCEPT !.pc = "receive", !.node = n, !.last = Resume(n)]
  <1>1. Resume(n) \in Nat /\ "receive" \in Phases
    BY DEF TypeInv, TypeOK, StoreTypeOK, Resume, Min2, Phases
  <1>2. t \in Sessions
    BY <1>1, IdleFits, Zenon DEF Sessions
  <1>3. t.pc = "receive" /\ t.node = n /\ t.line = 1 /\ t.rej = NoRejection
    BY DEF IdleSession
  <1>4. Fits(t)
    BY <1>3 DEF Fits, Placed, KindFits, LineFits, RejectionFits, NoRejection, Arbitrating,
                Outside
  <1>5. client' \in [Nodes -> Handlers \cup {NoHandler}]
    BY DEF TypeInv, TypeOK, Open
  <1>. QED
    BY <1>2, <1>4, <1>5, SessionStep DEF TypeInv, TypeOK, Open, nodeVars

LEMMA AckPreserves ==
    ASSUME TypeInv, NEW h \in Handlers, Ack(h)
    PROVE  TypeInv'
  <1>. DEFINE s == session[h]
              t == [s EXCEPT !.pc = "receive"]
  <1>1. s \in Sessions /\ Fits(s) /\ s.pc = "ack" /\ s.high \in Nat
    BY DEF TypeInv, TypeOK, Ack, At, Sessions
  <1>2. /\ cursor' \in [Nodes -> Nat]
        /\ UNCHANGED <<storeVars, log, failures>>
    BY <1>1 DEF TypeInv, TypeOK, Ack
  <1>3. CASE Goto(h, "receive") /\ UNCHANGED client
    <2>1. /\ t \in Sessions /\ t.pc = "receive" /\ t.node = s.node /\ t.line = s.line
          /\ t.rej = s.rej
      BY <1>1, GotoStep DEF Phases
    <2>2. Fits(t)
      BY <1>1, <2>1 DEF Fits, Placed, KindFits, LineFits, RejectionFits, Arbitrating, Outside
    <2>. QED
      BY <1>2, <1>3, <2>1, <2>2, SessionStep DEF TypeInv, TypeOK, Goto
  <1>4. CASE Become(h, IdleSession) /\ client' = [client EXCEPT ![s.node] = NoHandler]
    <2>1. client' \in [Nodes -> Handlers \cup {NoHandler}]
      BY <1>4 DEF TypeInv, TypeOK
    <2>. QED
      BY <1>2, <1>4, <2>1, IdleFits, SessionStep DEF TypeInv, TypeOK
  <1>. QED
    BY <1>3, <1>4 DEF Ack

LEMMA DetachPreserves ==
    ASSUME TypeInv, NEW n \in Nodes, Detach(n)
    PROVE  TypeInv'
  <1>1. client' \in [Nodes -> Handlers \cup {NoHandler}] /\ failures' \in Nat
    BY DEF TypeInv, TypeOK, Detach
  <1>2. TypeOK' /\ session' = session /\ log' = log
    BY <1>1, ReadsOnly DEF TypeInv, TypeOK, Detach, nodeVars
  <1>. QED
    BY <1>2, FitsKept DEF TypeInv

\* Compensations are replayed or emitted, or the attempt fails and the session ends.
LEMMA ReadCompensationsPreserves ==
    ASSUME TypeInv, NEW h \in Handlers, ReadCompensations(h)
    PROVE  TypeInv'
  <1>. DEFINE s == session[h]
              k == Len(CompensationsOf(Current(h)))
  <1>1. s \in Sessions /\ Fits(s) /\ s.pc = "comps" /\ s.pc \in Arbitrating
    BY DEF TypeInv, TypeOK, ReadCompensations, At, Arbitrating, Outside, Phases
  <1>2. failures' \in Nat
    BY DEF TypeInv, TypeOK, ReadCompensations
  <1>3. s.rej.events \in Seq(Compensation) /\ s.rej.events # <<>> /\ s.line = 1
    BY <1>1 DEF Sessions, Rejections, Fits, LineFits, RejectionFits
  <1>4. CASE Goto(h, "emit") /\ UNCHANGED <<storeVars, nodeVars, client>>
    <2>. DEFINE t == [s EXCEPT !.pc = "emit"]
    <2>1. /\ t \in Sessions /\ t.pc = "emit" /\ t.node = s.node /\ t.cur = s.cur
          /\ t.last = s.last /\ t.line = s.line /\ t.rej = s.rej
      BY <1>1, GotoStep DEF Phases
    <2>2. 1 \in DOMAIN s.rej.events
      BY <1>3
    <2>3. Fits(t)
      BY <1>1, <1>3, <2>1, <2>2 DEF Fits, Placed, KindFits, LineFits, RejectionFits
    <2>. QED
      BY <1>2, <1>4, <2>1, <2>3, SessionStep DEF TypeInv, TypeOK, Goto, nodeVars
  <1>5. CASE /\ Become(h, [s EXCEPT !.pc = "enqueue", !.queue = 1..k])
             /\ UNCHANGED <<storeVars, nodeVars, client>>
    <2>. DEFINE t == [s EXCEPT !.pc = "enqueue", !.queue = 1..k]
    <2>1. 1..k \in SUBSET Nat /\ "enqueue" \in Phases
      BY DEF Phases
    <2>2. t \in Sessions
      BY <1>1, <2>1, Zenon DEF Sessions
    <2>3. /\ t.pc = "enqueue" /\ t.node = s.node /\ t.cur = s.cur /\ t.last = s.last
          /\ t.line = s.line /\ t.rej = s.rej
      BY <1>1 DEF Sessions
    <2>4. Fits(t)
      BY <1>1, <2>3 DEF Fits, Placed, KindFits, LineFits, RejectionFits
    <2>. QED
      BY <1>2, <1>5, <2>2, <2>4, SessionStep DEF TypeInv, TypeOK, nodeVars
  <1>6. CASE End(h)
    BY <1>2, <1>6, EndPreserves
  <1>. QED
    BY <1>4, <1>5, <1>6 DEF ReadCompensations

-----------------------------------------------------------------------------
(* The theorem *)

LEMMA TypeInvInit == ASSUME Init PROVE TypeInv
  <1>1. StoreTypeOK
    BY StoreAssumption DEF Init, StoreInit, StoreTypeOK, Verdicts, NoRow
  <1>2. TypeOK
    BY <1>1, IdleFits DEF Init, TypeOK
  <1>. QED
    BY <1>2, IdleFits DEF Init, TypeInv

LEMMA HandlerStepPreserves ==
    ASSUME TypeInv, NEW h \in Handlers, HandlerStep(h)
    PROVE  TypeInv'
  <1>1. CASE ReceiveBatch(h) \/ ReadDecision(h) \/ StoreEvent(h) \/ StorePushed(h)
    BY <1>1, ReceiveBatchActs, ReadDecisionActs, StoreEventActs, StorePushedActs, ActsPreserve
  <1>2. CASE Validate(h)
    BY <1>2, CheckItemActs, CheckNoteActs, ReadTotalActs, CheckOrderActs, CheckDestinationActs,
       CheckTransitActs, CheckFoldedActs, ActsPreserve DEF Validate
  <1>3. CASE Record(h)
    BY <1>3, RecordFactActs, RecordDispatchLineActs, KillTransferActs, ReadRowActs,
       FoldLineActs, ForwardDispatchActs, ForwardArrivalActs, ActsPreserve DEF Record
  <1>4. CASE Settle(h)
    BY <1>4, EmitActs, EnqueueCompensationActs, DecideActs, ActsPreserve,
       ReadCompensationsPreserves DEF Settle
  <1>5. CASE Ack(h)
    BY <1>5, AckPreserves
  <1>6. CASE Notice(h)
    BY <1>6, EndPreserves DEF Notice, TypeInv, TypeOK
  <1>. QED
    BY <1>1, <1>2, <1>3, <1>4, <1>5, <1>6 DEF HandlerStep

LEMMA TypeInvNext == ASSUME TypeInv, [Next]_vars PROVE TypeInv'
  <1>1. ASSUME NEW h \in Handlers, NEW n \in Nodes, Open(h, n) PROVE TypeInv'
    BY <1>1, OpenPreserves
  <1>2. ASSUME NEW h \in Handlers, HandlerStep(h) PROVE TypeInv'
    BY <1>2, HandlerStepPreserves
  <1>3. ASSUME NEW h \in Handlers, Fail(h) PROVE TypeInv'
    BY <1>3, EndPreserves DEF Fail, TypeInv, TypeOK
  <1>4. ASSUME NEW n \in Nodes, Detach(n) PROVE TypeInv'
    BY <1>4, DetachPreserves
  <1>5. CASE UNCHANGED vars
    <2>1. TypeOK'
      BY <1>5, ReadsOnly DEF vars, TypeInv, TypeOK
    <2>. QED
      BY <1>5, <2>1, FitsKept DEF vars, TypeInv
  <1>. QED
    BY <1>1, <1>2, <1>3, <1>4, <1>5 DEF Next

\* Central's books stay well typed whatever the nodes record: no receipt fact, total or
\* in-transit balance is negative, every compensation reverses a positive quantity, and
\* every handler that arbitrates is at a line its event has.
THEOREM TypeCorrect == Spec => []TypeOK
  <1>1. Init => TypeInv
    BY TypeInvInit
  <1>2. TypeInv /\ [Next]_vars => TypeInv'
    BY TypeInvNext
  <1>3. TypeInv => TypeOK
    BY DEF TypeInv
  <1>. QED
    BY <1>1, <1>2, <1>3, PTL DEF Spec

-----------------------------------------------------------------------------
(* What a handler vouches for *)

\* The events of its node a handler takes for done: those up to the end of its last
\* batch, and once it has read PushedSeq those up to what it will acknowledge, but
\* for the ones of the batch that are still to be arbitrated.
Vouched(s) ==
    {i \in 1..MaxSeq :
        /\ i <= s.last \/ (s.pc # "receive" /\ i <= s.high)
        /\ s.pc \in Arbitrating => i \notin s.cur..s.last}

VouchedDecided(s) ==
    s.pc # "idle" => \A i \in Vouched(s) : Decided(<<s.node, i>>)

\* AckedDecided is not inductive: what a handler is about to acknowledge is not yet
\* in a cursor.
AckInv == AckedDecided /\ \A h \in Handlers : VouchedDecided(session[h])

-----------------------------------------------------------------------------
(* Steps in the middle of an event *)

Fields == {"pc", "node", "cur", "last", "high", "line", "seen", "rej", "queue"}

\* The handler is still at the same event of the same batch.
SameBatch(s, t) ==
    /\ s.pc \in Arbitrating /\ t.pc \in Arbitrating
    /\ t.node = s.node /\ t.cur = s.cur /\ t.last = s.last /\ t.high = s.high

Works(h) ==
    /\ \E t : Become(h, t) /\ SameBatch(session[h], t)
    /\ UNCHANGED <<cursor, decisions, pushed>>

LEMMA SessionFields == \A s \in Sessions : DOMAIN s = Fields
  BY DEF Sessions, Fields

LEMMA PhaseKinds ==
    /\ {"decision", "append", "items", "note", "total", "own", "destination", "transit",
        "folded", "record", "row", "fold", "fail", "forward", "comps", "emit", "enqueue",
        "decide"} \subseteq Arbitrating
    /\ "idle" \notin Arbitrating /\ "receive" \notin Arbitrating
    /\ "setpushed" \notin Arbitrating /\ "ack" \notin Arbitrating
  BY DEF Arbitrating, Phases, Outside

LEMMA GotoBatch ==
    ASSUME NEW s, DOMAIN s = Fields, s.pc \in Arbitrating, NEW pc \in Arbitrating
    PROVE  SameBatch(s, [s EXCEPT !.pc = pc])
  BY DEF SameBatch, Fields

LEMMA NextLineBatch ==
    ASSUME NEW h, NEW s, DOMAIN s = Fields, s.pc \in Arbitrating,
           NEW pc \in Arbitrating, NEW done \in Arbitrating
    PROVE  SameBatch(s, NextLine(h, s, pc, done))
  BY DEF SameBatch, Fields, NextLine

LEMMA RejectBatch ==
    ASSUME NEW s, DOMAIN s = Fields, NEW reason, NEW qty
    PROVE  /\ DOMAIN Reject(s, reason, qty) = Fields
           /\ Reject(s, reason, qty).pc = s.pc
           /\ s.pc \in Arbitrating => SameBatch(s, Reject(s, reason, qty))
  BY DEF SameBatch, Fields, Reject

LEMMA SameBatchTransitive ==
    ASSUME NEW r, NEW s, NEW t, SameBatch(r, s), SameBatch(s, t)
    PROVE  SameBatch(r, t)
  BY DEF SameBatch

\* No decision is undone.
DecidedNext(id) == decisions'[id] # "undecided"
DecisionsStay == \A id \in Ids : Decided(id) => DecidedNext(id)

LEMMA DecisionsKept == ASSUME decisions' = decisions PROVE DecisionsStay
  BY DEF Decided, DecidedNext, DecisionsStay

LEMMA StoreEventWorks ==
    ASSUME TypeInv, NEW h \in Handlers, StoreEvent(h)
    PROVE  Works(h)
  <1>. DEFINE next == IF P(h).kind = "Other" THEN "decide" ELSE "items"
  <1>1. DOMAIN session[h] = Fields /\ session[h].pc \in Arbitrating /\ next \in Arbitrating
    BY SessionFields, PhaseKinds DEF TypeInv, TypeOK, StoreEvent, Step, At
  <1>. QED
    BY <1>1, GotoBatch DEF Works, StoreEvent, Step, Goto, nodeVars, queueVars

\* Every validator only reads, and goes on within the event.
LEMMA ValidateWorks ==
    ASSUME TypeInv, NEW h \in Handlers, Validate(h)
    PROVE  Works(h)
  <1>. DEFINE s == session[h]
  <1>1. DOMAIN s = Fields
    BY SessionFields DEF TypeInv, TypeOK
  <1>2. s.pc \in Arbitrating /\ UNCHANGED <<cursor, decisions, pushed>>
    BY PhaseKinds DEF Validate, CheckItem, CheckNote, ReadTotal, CheckOrder, CheckDestination,
                      CheckTransit, CheckFolded, Step, At, nodeVars, storeVars
  <1>3. ASSUME CheckItem(h) PROVE \E t : Become(h, t) /\ SameBatch(s, t)
    <2>. DEFINE r == IF Line(h).sku \in Items THEN s
                     ELSE Reject(s, "unknown_sku", Line(h).qty)
                done == AfterItems(P(h).kind, r.rej.reason # "accepted")
    <2>1. DOMAIN r = Fields /\ SameBatch(s, r)
      BY <1>1, <1>2, RejectBatch DEF SameBatch
    <2>2. done \in Arbitrating
      <3>1. s.pc = "items" /\ s \in Sessions /\ Fits(s)
        BY <1>3 DEF TypeInv, TypeOK, CheckItem, Step, At
      <3>2. P(h) \in Payloads /\ P(h).kind # "Other"
        BY <1>2, <3>1, Here DEF Fits, KindFits
      <3>. QED
        BY <3>2, PayloadFields, PhaseKinds DEF AfterItems
    <2>. HIDE DEF r, done
    <2>3. SameBatch(r, NextLine(h, r, "items", done))
      BY <2>1, <2>2, NextLineBatch, PhaseKinds DEF SameBatch
    <2>4. SameBatch(s, NextLine(h, r, "items", done))
      BY <2>1, <2>3, SameBatchTransitive
    <2>. QED
      BY <1>3, <2>4 DEF r, done, CheckItem
  <1>4. ASSUME CheckNote(h) PROVE \E t : Become(h, t) /\ SameBatch(s, t)
    <2>1. CASE NoteAgain(h)
      <3>. DEFINE r == Reject(s, "duplicate_receipt", Line(h).qty)
      <3>1. DOMAIN r = Fields /\ SameBatch(s, r)
        BY <1>1, <1>2, RejectBatch
      <3>. HIDE DEF r
      <3>2. SameBatch(r, [r EXCEPT !.pc = "record"])
        BY <3>1, GotoBatch, PhaseKinds DEF SameBatch
      <3>. QED
        BY <2>1, <3>1, <3>2, SameBatchTransitive DEF r, NoteAgain
    <2>2. CASE NoteFirst(h)
      BY <1>1, <1>2, <2>2, GotoBatch, PhaseKinds DEF NoteFirst, Goto
    <2>. QED
      BY <1>4, <2>1, <2>2 DEF CheckNote
  <1>5. ASSUME ReadTotal(h) PROVE \E t : Become(h, t) /\ SameBatch(s, t)
    <2>1. \A seen : SameBatch(s, [s EXCEPT !.pc = "own", !.seen = seen])
      BY <1>1, <1>2, PhaseKinds DEF SameBatch, Fields
    <2>. QED
      BY <1>5, <2>1 DEF ReadTotal
  <1>6. SameBatch(s, [s EXCEPT !.pc = "record"])
    BY <1>1, <1>2, GotoBatch, PhaseKinds
  <1>7. \A rej : SameBatch(s, [s EXCEPT !.pc = "record", !.rej = rej])
    BY <1>1, <1>2, PhaseKinds DEF SameBatch, Fields
  <1>8. ASSUME CheckOrder(h) PROVE \E t : Become(h, t) /\ SameBatch(s, t)
    BY <1>8, <1>6, <1>7 DEF CheckOrder, Goto
  <1>9. ASSUME CheckDestination(h) PROVE \E t : Become(h, t) /\ SameBatch(s, t)
    BY <1>9, <1>6, <1>7 DEF CheckDestination, Goto
  <1>10. ASSUME CheckTransit(h) PROVE \E t : Become(h, t) /\ SameBatch(s, t)
    <2>. DEFINE r == Reject(s, "transfer_overreceipt", Line(h).qty)
    <2>1. DOMAIN r = Fields /\ SameBatch(s, r)
      BY <1>1, <1>2, RejectBatch
    <2>. HIDE DEF r
    <2>2. SameBatch(s, NextLine(h, r, "transit", "row"))
      BY <2>1, NextLineBatch, SameBatchTransitive, PhaseKinds DEF SameBatch
    <2>3. \A seen : SameBatch(s, [s EXCEPT !.pc = "folded", !.seen = seen])
      BY <1>1, <1>2, PhaseKinds DEF SameBatch, Fields
    <2>. QED
      BY <1>10, <2>2, <2>3 DEF r, CheckTransit
  <1>11. ASSUME CheckFolded(h) PROVE \E t : Become(h, t) /\ SameBatch(s, t)
    <2>. DEFINE over == Line(h).qty - (s.seen + ReceivedFromEvent(Current(h), Line(h).sku))
                r == Surplus(s, over)
    <2>1. DOMAIN r = Fields /\ SameBatch(s, r)
      BY <1>1, <1>2, RejectBatch DEF Surplus, SameBatch
    <2>. HIDE DEF r
    <2>2. SameBatch(s, NextLine(h, r, "transit", "row"))
      BY <2>1, NextLineBatch, SameBatchTransitive, PhaseKinds DEF SameBatch
    <2>. QED
      BY <1>11, <2>2 DEF r, CheckFolded
  <1>. QED
    BY <1>2, <1>3, <1>4, <1>5, <1>8, <1>9, <1>10, <1>11 DEF Validate, Works

\* record and fanOut write to the store, never a decision.
LEMMA RecordWorks ==
    ASSUME TypeInv, NEW h \in Handlers, Record(h)
    PROVE  Works(h)
  <1>. DEFINE s == session[h]
  <1>1. DOMAIN s = Fields
    BY SessionFields DEF TypeInv, TypeOK
  <1>2. s.pc \in Arbitrating
    BY PhaseKinds DEF Record, RecordFact, RecordDispatchLine, KillTransfer, ReadRow, FoldLine,
                      ForwardDispatch, ForwardArrival, Step, At
  <1>3. UNCHANGED <<cursor, decisions, pushed>>
    BY DEF Record, RecordFact, RecordDispatchLine, KillTransfer, ReadRow, FoldLine,
           ForwardDispatch, ForwardArrival, Step, nodeVars, storeVars, logVars, queueVars
  <1>4. \A pc \in Arbitrating : SameBatch(s, [s EXCEPT !.pc = pc])
    BY <1>1, <1>2, GotoBatch
  <1>5. \A pc, done \in Arbitrating : SameBatch(s, NextLine(h, s, pc, done))
    BY <1>1, <1>2, NextLineBatch
  <1>6. \A seen : SameBatch(s, [s EXCEPT !.pc = "fold", !.seen = seen])
    BY <1>1, <1>2, PhaseKinds DEF SameBatch, Fields
  <1>7. CASE RecordFact(h) \/ KillTransfer(h) \/ ForwardDispatch(h) \/ ForwardArrival(h)
    <2>1. \E pc \in Arbitrating : Goto(h, pc)
      BY <1>7, PhaseKinds DEF RecordFact, KillTransfer, ForwardDispatch, ForwardArrival
    <2>. QED
      BY <1>3, <1>4, <2>1 DEF Works, Goto
  <1>8. CASE RecordDispatchLine(h) \/ FoldLine(h)
    <2>1. \E pc, done \in Arbitrating : Become(h, NextLine(h, s, pc, done))
      BY <1>8, PhaseKinds DEF RecordDispatchLine, FoldLine
    <2>. QED
      BY <1>3, <1>5, <2>1 DEF Works
  <1>9. CASE ReadRow(h)
    <2>1. \/ Become(h, NextLine(h, s, "row", "forward"))
          \/ \E seen : Become(h, [s EXCEPT !.pc = "fold", !.seen = seen])
      BY <1>9 DEF ReadRow
    <2>. QED
      BY <1>3, <1>5, <1>6, <2>1, PhaseKinds DEF Works
  <1>. QED
    BY <1>7, <1>8, <1>9 DEF Record

LEMMA EmitWorks ==
    ASSUME TypeInv, NEW h \in Handlers, Emit(h) \/ EnqueueCompensation(h)
    PROVE  Works(h)
  <1>. DEFINE s == session[h]
  <1>1. DOMAIN s = Fields
    BY SessionFields DEF TypeInv, TypeOK
  <1>2. s.pc \in Arbitrating
    BY PhaseKinds DEF Emit, EnqueueCompensation, Step, At
  <1>3. UNCHANGED <<cursor, decisions, pushed>>
    BY DEF Emit, EnqueueCompensation, Step, nodeVars, logVars, queueVars
  <1>4. CASE Emit(h)
    <2>1. \E pc \in Arbitrating : \E queue, line :
             Become(h, [s EXCEPT !.queue = queue, !.line = line, !.pc = pc])
      BY <1>4, PhaseKinds DEF Emit
    <2>2. \A pc \in Arbitrating : \A queue, line :
             SameBatch(s, [s EXCEPT !.queue = queue, !.line = line, !.pc = pc])
      BY <1>1, <1>2 DEF SameBatch, Fields
    <2>. QED
      BY <1>3, <2>1, <2>2 DEF Works
  <1>5. CASE EnqueueCompensation(h)
    <2>1. \E pc \in Arbitrating : \E queue :
             Become(h, [s EXCEPT !.queue = queue, !.pc = pc])
      BY <1>5, PhaseKinds DEF EnqueueCompensation
    <2>2. \A pc \in Arbitrating : \A queue : SameBatch(s, [s EXCEPT !.queue = queue, !.pc = pc])
      BY <1>1, <1>2 DEF SameBatch, Fields
    <2>. QED
      BY <1>3, <2>1, <2>2 DEF Works
  <1>. QED
    BY <1>4, <1>5

-----------------------------------------------------------------------------
(* What each step does to the invariant *)

\* Only h moves; what it and the cursors stand for stays decided.
LEMMA VouchedStep ==
    ASSUME TypeInv, AckInv, NEW h \in Handlers, NEW t, Become(h, t),
           DecisionsStay, AckedDecided',
           t.pc # "idle" => t.node \in Nodes /\ \A i \in Vouched(t) : DecidedNext(<<t.node, i>>)
    PROVE  AckInv'
  <1>. SUFFICES ASSUME NEW g \in Handlers PROVE VouchedDecided(session[g])'
    BY DEF AckInv
  <1>1. session'[g] = IF g = h THEN t ELSE session[g]
    BY DEF TypeInv, TypeOK, Become
  <1>2. CASE g = h
    BY <1>1, <1>2 DEF VouchedDecided, Vouched, Decided, DecidedNext
  <1>3. CASE g # h
    <2>1. session[g].pc # "idle" => session[g].node \in Nodes
      BY DEF TypeInv, Fits, Placed
    <2>2. \A i \in Vouched(session[g]) : session[g].pc # "idle" =>
             DecidedNext(<<session[g].node, i>>)
      BY <2>1 DEF AckInv, VouchedDecided, Vouched, Ids, DecisionsStay
    <2>. QED
      BY <1>1, <1>3, <2>2 DEF VouchedDecided, Decided, DecidedNext
  <1>. QED
    BY <1>2, <1>3

\* The cursors do not move and no decision is lost.
LEMMA CursorsStay ==
    ASSUME AckInv, UNCHANGED <<cursor, pushed>>, DecisionsStay
    PROVE  AckedDecided'
  <1>. SUFFICES ASSUME NEW n \in Nodes, NEW i \in 1..MaxSeq, i <= cursor[n] \/ i <= pushed[n]
                PROVE  Decided(<<n, i>>)'
    BY DEF AckedDecided
  <1>1. Decided(<<n, i>>) /\ <<n, i>> \in Ids
    BY DEF AckInv, AckedDecided, Ids
  <1>. QED
    BY <1>1 DEF DecisionsStay, DecidedNext, Decided

LEMMA WorksPreserve ==
    ASSUME TypeInv, AckInv, NEW h \in Handlers, Works(h)
    PROVE  AckInv'
  <1>1. PICK t : Become(h, t) /\ SameBatch(session[h], t)
    BY DEF Works
  <1>2. DecisionsStay
    BY DecisionsKept DEF Works
  <1>3. AckedDecided'
    BY <1>2, CursorsStay DEF Works
  <1>4. session[h].pc # "idle" /\ session[h].pc # "receive" /\ t.pc # "receive"
    BY <1>1, PhaseKinds DEF SameBatch
  <1>5. t.node \in Nodes
    BY <1>1, <1>4 DEF TypeInv, Fits, Placed, SameBatch
  <1>6. ASSUME NEW i \in Vouched(t) PROVE DecidedNext(<<t.node, i>>)
    <2>1. i \in Vouched(session[h]) /\ t.node = session[h].node
      BY <1>1, <1>4 DEF Vouched, SameBatch
    <2>2. Decided(<<t.node, i>>) /\ <<t.node, i>> \in Ids
      BY <1>4, <1>5, <2>1 DEF AckInv, VouchedDecided, Vouched, Ids
    <2>. QED
      BY <1>2, <2>2 DEF DecisionsStay
  <1>. QED
    BY <1>1, <1>2, <1>3, <1>5, <1>6, VouchedStep

\* The next event of the batch, or the end of it, when this one is decided.
LEMMA NextEventPreserves ==
    ASSUME TypeInv, AckInv, NEW h \in Handlers, session[h].pc \in Arbitrating, NextEvent(h),
           UNCHANGED <<cursor, pushed>>,
           DecidedNext(Current(h)),
           DecisionsStay
    PROVE  AckInv'
  <1>. DEFINE s == session[h]
              next == IF s.cur < s.last THEN "decision" ELSE "setpushed"
              t == [IdleSession EXCEPT !.node = s.node, !.cur = s.cur + 1, !.last = s.last,
                                       !.high = s.high, !.pc = next]
  <1>1. s \in Sessions /\ s.node \in Nodes /\ s.cur \in 1..s.last
    BY Here
  <1>2. /\ t.pc = next /\ t.node = s.node /\ t.cur = s.cur + 1 /\ t.last = s.last
        /\ t.high = s.high
    BY DEF IdleSession
  <1>3. s.last \in Nat /\ s.high \in Nat /\ s.cur \in Nat
    BY <1>1 DEF Sessions
  <1>4. s.pc # "idle" /\ s.pc # "receive"
    BY PhaseKinds
  <1>5. Become(h, t)
    BY DEF NextEvent
  <1>. HIDE DEF t
  <1>6. ASSUME NEW i \in Vouched(t) PROVE i = s.cur \/ i \in Vouched(s)
    <2>1. i \in 1..MaxSeq /\ i \in Nat
      BY StoreAssumption DEF Vouched
    <2>2. i <= s.last \/ i <= s.high
      BY <1>2 DEF Vouched
    <2>3. s.cur < s.last => i \notin s.cur + 1 .. s.last
      BY <1>2, PhaseKinds DEF Vouched
    <2>4. i = s.cur \/ i \notin s.cur..s.last
      BY <1>1, <1>3, <2>1, <2>3
    <2>. QED
      BY <1>4, <2>1, <2>2, <2>4 DEF Vouched
  <1>7. ASSUME NEW i \in Vouched(t) PROVE DecidedNext(<<t.node, i>>)
    <2>1. CASE i = s.cur
      BY <1>2, <2>1 DEF Current, Decided
    <2>2. CASE i \in Vouched(s)
      <3>1. Decided(<<t.node, i>>) /\ <<t.node, i>> \in Ids
        BY <1>1, <1>2, <1>4, <2>2 DEF AckInv, VouchedDecided, Vouched, Ids
      <3>. QED
        BY <3>1 DEF DecisionsStay
    <2>. QED
      BY <1>6, <2>1, <2>2
  <1>8. AckedDecided'
    BY CursorsStay
  <1>. QED
    BY <1>1, <1>2, <1>5, <1>7, <1>8, VouchedStep

LEMMA ReadDecisionPreserves ==
    ASSUME TypeInv, AckInv, NEW h \in Handlers, ReadDecision(h)
    PROVE  AckInv'
  <1>1. session[h].pc \in Arbitrating /\ DOMAIN session[h] = Fields
    BY PhaseKinds, SessionFields DEF TypeInv, TypeOK, ReadDecision, Step, At
  <1>2. UNCHANGED <<cursor, decisions, pushed>>
    BY DEF ReadDecision, Step, nodeVars, storeVars
  <1>3. CASE Decided(Current(h)) /\ NextEvent(h)
    <2>1. DecidedNext(Current(h)) /\ DecisionsStay
      BY <1>2, <1>3, DecisionsKept DEF Decided, DecidedNext
    <2>. QED
      BY <1>1, <1>2, <1>3, <2>1, NextEventPreserves
  <1>4. CASE Goto(h, "append")
    BY <1>1, <1>2, <1>4, GotoBatch, PhaseKinds, WorksPreserve DEF Works, Goto
  <1>. QED
    BY <1>3, <1>4 DEF ReadDecision

\* The one step that writes a decision, and what it writes is one.
LEMMA DecidePreserves ==
    ASSUME TypeInv, AckInv, NEW h \in Handlers, Decide(h)
    PROVE  AckInv'
  <1>1. session[h].pc \in Arbitrating /\ session[h] \in Sessions
    BY PhaseKinds DEF TypeInv, TypeOK, Decide, Step, At
  <1>2. Current(h) \in Ids
    BY <1>1, Here
  <1>3. session[h].rej.reason # "undecided"
    BY <1>1 DEF Sessions, Rejections, Reasons
  <1>4. decisions' = [decisions EXCEPT ![Current(h)] = session[h].rej.reason]
    BY DEF Decide, RecordDecision
  <1>5. decisions \in [Ids -> Verdicts]
    BY DEF TypeInv, TypeOK, StoreTypeOK
  <1>6. DecidedNext(Current(h))
    BY <1>2, <1>3, <1>4, <1>5 DEF DecidedNext
  <1>7. DecisionsStay
    BY <1>2, <1>3, <1>4, <1>5 DEF Decided, DecidedNext, DecisionsStay
  <1>8. UNCHANGED <<cursor, pushed>> /\ NextEvent(h)
    BY DEF Decide, Step, nodeVars, queueVars
  <1>. QED
    BY <1>1, <1>6, <1>7, <1>8, NextEventPreserves

\* The batch takes over where the last one ended, and PushedSeq, read before its
\* first event is arbitrated, stands for decided events only.
LEMMA ReceiveBatchPreserves ==
    ASSUME TypeInv, AckInv, NEW h \in Handlers, ReceiveBatch(h)
    PROVE  AckInv'
  <1>. DEFINE s == session[h]
              n == s.node
  <1>1. s \in Sessions /\ s.pc = "receive" /\ DOMAIN s = Fields /\ s.last \in Nat
    BY SessionFields DEF TypeInv, TypeOK, ReceiveBatch, Step, At, Sessions
  <1>2. n \in Nodes /\ pushed[n] \in Nat
    BY <1>1 DEF TypeInv, TypeOK, StoreTypeOK, Fits, Placed
  <1>3. UNCHANGED <<cursor, decisions, pushed>>
    BY DEF ReceiveBatch, Step, nodeVars, storeVars
  <1>4. DecisionsStay
    BY <1>3, DecisionsKept
  <1>5. AckedDecided'
    BY <1>3, <1>4, CursorsStay
  <1>6. ASSUME NEW i \in 1..MaxSeq, i <= s.last \/ i <= pushed[n] PROVE DecidedNext(<<n, i>>)
    <2>1. i <= s.last => i \in Vouched(s)
      BY <1>1, PhaseKinds DEF Vouched
    <2>2. Decided(<<n, i>>)
      BY <1>1, <1>2, <1>6, <2>1 DEF AckInv, VouchedDecided, AckedDecided
    <2>. QED
      BY <1>2, <1>4, <2>2 DEF Ids, DecisionsStay
  <1>7. \A i \in 1..MaxSeq : i \in Nat
    BY StoreAssumption
  <1>8. CASE \E k \in 1..MaxBatch :
                Become(h, [s EXCEPT !.pc = "decision", !.cur = s.last + 1, !.last = s.last + k,
                                    !.high = Max2(pushed[n], s.last + k)])
    <2>1. PICK k \in 1..MaxBatch :
                Become(h, [s EXCEPT !.pc = "decision", !.cur = s.last + 1, !.last = s.last + k,
                                    !.high = Max2(pushed[n], s.last + k)])
      BY <1>8
    <2>. DEFINE high == Max2(pushed[n], s.last + k)
                t == [s EXCEPT !.pc = "decision", !.cur = s.last + 1, !.last = s.last + k,
                               !.high = high]
    <2>2. /\ t.pc = "decision" /\ t.node = n /\ t.cur = s.last + 1 /\ t.last = s.last + k
          /\ t.high = high
      BY <1>1 DEF Fields
    <2>3. k \in Nat /\ (high = pushed[n] \/ high = s.last + k)
      BY ArbiterAssumption DEF Max2
    <2>4. Become(h, t)
      BY <2>1
    <2>. HIDE DEF t, high
    <2>5. ASSUME NEW i \in Vouched(t) PROVE DecidedNext(<<t.node, i>>)
      <3>1. i \in 1..MaxSeq /\ i \in Nat
        BY <1>7 DEF Vouched
      <3>2. i <= s.last + k \/ i <= pushed[n]
        BY <2>2, <2>3 DEF Vouched
      <3>3. i \notin s.last + 1 .. s.last + k
        BY <2>2, PhaseKinds DEF Vouched
      <3>4. i <= s.last \/ i <= pushed[n]
        BY <1>1, <2>3, <3>1, <3>2, <3>3
      <3>. QED
        BY <1>6, <2>2, <3>1, <3>4
    <2>. QED
      BY <1>2, <1>4, <1>5, <2>2, <2>4, <2>5, VouchedStep
  <1>9. CASE Become(h, [s EXCEPT !.pc = "setpushed", !.cur = s.last + 1, !.high = pushed[n]])
    <2>. DEFINE t == [s EXCEPT !.pc = "setpushed", !.cur = s.last + 1, !.high = pushed[n]]
    <2>1. t.pc = "setpushed" /\ t.node = n /\ t.last = s.last /\ t.high = pushed[n]
      BY <1>1 DEF Fields
    <2>. HIDE DEF t
    <2>2. ASSUME NEW i \in Vouched(t) PROVE DecidedNext(<<t.node, i>>)
      BY <1>6, <2>1 DEF Vouched
    <2>. QED
      BY <1>2, <1>4, <1>5, <1>9, <2>1, <2>2, VouchedStep DEF t
  <1>. QED
    BY <1>8, <1>9 DEF ReceiveBatch

LEMMA StorePushedPreserves ==
    ASSUME TypeInv, AckInv, NEW h \in Handlers, StorePushed(h)
    PROVE  AckInv'
  <1>. DEFINE s == session[h]
              t == [s EXCEPT !.pc = "ack"]
  <1>1. s.pc = "setpushed" /\ DOMAIN s = Fields
    BY SessionFields DEF TypeInv, TypeOK, StorePushed, Step, At
  <1>2. s.node \in Nodes
    BY <1>1 DEF TypeInv, Fits, Placed
  <1>3. t.pc = "ack" /\ t.node = s.node /\ t.last = s.last /\ t.high = s.high
    BY <1>1 DEF Fields
  <1>4. decisions' = decisions /\ cursor' = cursor /\ Become(h, t)
    BY DEF StorePushed, Step, nodeVars, logVars, Goto
  <1>5. pushed' = [pushed EXCEPT ![s.node] = s.high] /\ pushed \in [Nodes -> Nat]
    BY DEF TypeInv, TypeOK, StoreTypeOK, StorePushed, SetPushedSeq
  <1>6. DecisionsStay
    BY <1>4, DecisionsKept
  <1>. HIDE DEF t
  <1>7. \A i \in Vouched(t) : i \in Vouched(s) /\ DecidedNext(<<t.node, i>>)
    BY <1>1, <1>3, <1>4, PhaseKinds DEF Vouched, AckInv, VouchedDecided, Decided, DecidedNext
  <1>8. AckedDecided'
    <2>. SUFFICES ASSUME NEW n \in Nodes, NEW i \in 1..MaxSeq, i <= cursor'[n] \/ i <= pushed'[n]
                  PROVE  decisions'[<<n, i>>] # "undecided"
      BY DEF AckedDecided, Decided
    <2>1. CASE i <= cursor[n] \/ i <= pushed[n]
      BY <1>4, <2>1 DEF AckInv, AckedDecided, Decided
    <2>2. CASE n = s.node /\ i <= s.high
      <3>1. i \in Vouched(s)
        BY <1>1, <2>2, PhaseKinds DEF Vouched
      <3>. QED
        BY <1>1, <1>4, <2>2, <3>1 DEF AckInv, VouchedDecided, Decided
    <2>. QED
      BY <1>2, <1>4, <1>5, <2>1, <2>2
  <1>. QED
    BY <1>2, <1>3, <1>4, <1>6, <1>7, <1>8, VouchedStep

LEMMA AckPreservesAcked ==
    ASSUME TypeInv, AckInv, NEW h \in Handlers, Ack(h)
    PROVE  AckInv'
  <1>. DEFINE s == session[h]
  <1>1. s.pc = "ack" /\ DOMAIN s = Fields
    BY SessionFields DEF TypeInv, TypeOK, Ack, At
  <1>2. s.node \in Nodes
    BY <1>1 DEF TypeInv, Fits, Placed
  <1>3. decisions' = decisions /\ pushed' = pushed
    BY DEF Ack, storeVars
  <1>4. DecisionsStay
    BY <1>3, DecisionsKept
  <1>5. \A i \in 1..MaxSeq : i <= s.high \/ i <= s.last => i \in Vouched(s)
    BY <1>1, PhaseKinds DEF Vouched
  <1>6. \A i \in Vouched(s) : DecidedNext(<<s.node, i>>)
    BY <1>1, <1>3 DEF AckInv, VouchedDecided, Decided, DecidedNext
  <1>7. AckedDecided'
    <2>1. cursor \in [Nodes -> Nat]
          /\ cursor' = [cursor EXCEPT ![s.node] = IF s.high > 0 THEN s.high ELSE cursor[s.node]]
      BY DEF TypeInv, TypeOK, Ack
    <2>. SUFFICES ASSUME NEW n \in Nodes, NEW i \in 1..MaxSeq, i <= cursor'[n] \/ i <= pushed'[n]
                  PROVE  decisions'[<<n, i>>] # "undecided"
      BY DEF AckedDecided, Decided
    <2>2. CASE i <= cursor[n] \/ i <= pushed[n]
      BY <1>3, <2>2 DEF AckInv, AckedDecided, Decided
    <2>3. CASE n = s.node /\ i <= s.high
      BY <1>5, <1>6, <2>3 DEF DecidedNext
    <2>. QED
      BY <1>2, <1>3, <2>1, <2>2, <2>3
  <1>8. CASE Goto(h, "receive")
    <2>. DEFINE t == [s EXCEPT !.pc = "receive"]
    <2>1. t.pc = "receive" /\ t.node = s.node /\ t.last = s.last
      BY <1>1 DEF Fields
    <2>. HIDE DEF t
    <2>2. \A i \in Vouched(t) : DecidedNext(<<t.node, i>>)
      BY <1>5, <1>6, <2>1 DEF Vouched
    <2>. QED
      BY <1>2, <1>4, <1>7, <1>8, <2>1, <2>2, VouchedStep DEF t, Goto
  <1>9. CASE Become(h, IdleSession)
    BY <1>4, <1>7, <1>9, VouchedStep DEF IdleSession
  <1>. QED
    BY <1>8, <1>9 DEF Ack

LEMMA EndPreservesAcked ==
    ASSUME TypeInv, AckInv, NEW h \in Handlers, End(h)
    PROVE  AckInv'
  <1>1. decisions' = decisions /\ pushed' = pushed /\ cursor' = cursor /\ Become(h, IdleSession)
    BY DEF End, storeVars, nodeVars
  <1>2. DecisionsStay /\ AckedDecided'
    BY <1>1, DecisionsKept, CursorsStay
  <1>. QED
    BY <1>1, <1>2, VouchedStep DEF IdleSession

\* The session starts after the lower of two cursors: what is up to it is decided.
LEMMA OpenPreservesAcked ==
    ASSUME TypeInv, AckInv, NEW h \in Handlers, NEW n \in Nodes, Open(h, n)
    PROVE  AckInv'
  <1>. DEFINE t == [IdleSession EXCEPT !.pc = "receive", !.node = n, !.last = Resume(n)]
  <1>1. decisions' = decisions /\ pushed' = pushed /\ cursor' = cursor /\ Become(h, t)
    BY DEF Open, storeVars, nodeVars
  <1>2. t.pc = "receive" /\ t.node = n /\ t.last = Resume(n)
    BY DEF IdleSession
  <1>. HIDE DEF t
  <1>3. DecisionsStay /\ AckedDecided'
    BY <1>1, DecisionsKept, CursorsStay
  <1>4. ASSUME NEW i \in Vouched(t) PROVE DecidedNext(<<t.node, i>>)
    <2>1. i \in 1..MaxSeq /\ i <= Resume(n)
      BY <1>2 DEF Vouched
    <2>2. Resume(n) = cursor[n] \/ Resume(n) = pushed[n]
      BY DEF Resume, Min2
    <2>. QED
      BY <1>1, <1>2, <2>1, <2>2 DEF AckInv, AckedDecided, Decided, DecidedNext
  <1>. QED
    BY <1>1, <1>2, <1>3, <1>4, VouchedStep

\* A step that moves no handler, no cursor and no decision.
LEMMA IdlePreservesAcked ==
    ASSUME TypeInv, AckInv, UNCHANGED <<session, decisions, pushed, cursor>>
    PROVE  AckInv'
  BY DEF AckInv, AckedDecided, VouchedDecided, Vouched, Decided

-----------------------------------------------------------------------------
(* The theorem *)

LEMMA AckInvInit == ASSUME Init PROVE AckInv
  <1>1. \A n \in Nodes : cursor[n] = 0 /\ pushed[n] = 0
    BY DEF Init, StoreInit
  <1>2. AckedDecided
    BY <1>1, StoreAssumption DEF AckedDecided
  <1>. QED
    BY <1>2 DEF Init, AckInv, VouchedDecided, IdleSession

LEMMA AckInvHandlerStep ==
    ASSUME TypeInv, AckInv, NEW h \in Handlers, HandlerStep(h)
    PROVE  AckInv'
  <1>1. CASE ReceiveBatch(h)
    BY <1>1, ReceiveBatchPreserves
  <1>2. CASE ReadDecision(h)
    BY <1>2, ReadDecisionPreserves
  <1>3. CASE StoreEvent(h) \/ Validate(h) \/ Record(h)
    BY <1>3, StoreEventWorks, ValidateWorks, RecordWorks, WorksPreserve
  <1>4. CASE Emit(h) \/ EnqueueCompensation(h)
    BY <1>4, EmitWorks, WorksPreserve
  <1>5. CASE ReadCompensations(h)
    <2>. DEFINE s == session[h]
                k == Len(CompensationsOf(Current(h)))
    <2>1. DOMAIN s = Fields /\ s.pc \in Arbitrating
      BY <1>5, SessionFields, PhaseKinds DEF TypeInv, TypeOK, ReadCompensations, At
    <2>2. CASE Goto(h, "emit") /\ UNCHANGED <<storeVars, nodeVars>>
      BY <2>1, <2>2, GotoBatch, PhaseKinds, WorksPreserve DEF Works, Goto, storeVars, nodeVars
    <2>3. CASE /\ Become(h, [s EXCEPT !.pc = "enqueue", !.queue = 1..k])
               /\ UNCHANGED <<storeVars, nodeVars>>
      <3>1. \A queue : SameBatch(s, [s EXCEPT !.pc = "enqueue", !.queue = queue])
        BY <2>1, PhaseKinds DEF SameBatch, Fields
      <3>. QED
        BY <2>3, <3>1, WorksPreserve DEF Works, storeVars, nodeVars
    <2>4. CASE End(h)
      BY <2>4, EndPreservesAcked
    <2>. QED
      BY <1>5, <2>2, <2>3, <2>4 DEF ReadCompensations
  <1>6. CASE Decide(h)
    BY <1>6, DecidePreserves
  <1>7. CASE StorePushed(h)
    BY <1>7, StorePushedPreserves
  <1>8. CASE Ack(h)
    BY <1>8, AckPreservesAcked
  <1>9. CASE Notice(h)
    BY <1>9, EndPreservesAcked DEF Notice
  <1>. QED
    BY <1>1, <1>2, <1>3, <1>4, <1>5, <1>6, <1>7, <1>8, <1>9 DEF HandlerStep, Settle

LEMMA AckInvNext == ASSUME TypeInv, AckInv, [Next]_vars PROVE AckInv'
  <1>1. ASSUME NEW h \in Handlers, NEW n \in Nodes, Open(h, n) PROVE AckInv'
    BY <1>1, OpenPreservesAcked
  <1>2. ASSUME NEW h \in Handlers, HandlerStep(h) PROVE AckInv'
    BY <1>2, AckInvHandlerStep
  <1>3. ASSUME NEW h \in Handlers, Fail(h) PROVE AckInv'
    BY <1>3, EndPreservesAcked DEF Fail
  <1>4. ASSUME NEW n \in Nodes, Detach(n) PROVE AckInv'
    BY <1>4, IdlePreservesAcked DEF Detach, storeVars, nodeVars
  <1>5. CASE UNCHANGED vars
    BY <1>5, IdlePreservesAcked DEF vars, storeVars
  <1>. QED
    BY <1>1, <1>2, <1>3, <1>4, <1>5 DEF Next

\* Whatever fails, overlaps or is sent again, an event whose sequence central or its
\* node has been told is stored has a decision on record.
THEOREM AckedCorrect == Spec => []AckedDecided
  <1>1. Init => TypeInv /\ AckInv
    BY TypeInvInit, AckInvInit
  <1>2. TypeInv /\ AckInv /\ [Next]_vars => TypeInv' /\ AckInv'
    BY TypeInvNext, AckInvNext
  <1>3. AckInv => AckedDecided
    BY DEF AckInv
  <1>. QED
    BY <1>1, <1>2, <1>3, PTL DEF Spec

-----------------------------------------------------------------------------
(* What a handler knows of the event it works on *)

\* No two handlers serve one node, unless its client may leave one behind: the next
\* stream of a node opens when the handler of the last one has returned.
Alone ==
    \A g, h \in Handlers :
        /\ session[g].node = session[h].node
        /\ session[g].node \in Nodes \ HalfOpen
        => g = h

\* A handler at work on an event, past the lookup of its decision, and the only one.
Sole(s) == s.pc \in Arbitrating \ {"decision"} /\ s.node \notin HalfOpen

\* What the lookup found is still so.
StillOpen(s) == Sole(s) => ~ Decided(<<s.node, s.cur>>)

OpenInv == Alone /\ \A h \in Handlers : StillOpen(session[h])

\* What is kept of an event that a step does not concern.
Untouched(id) ==
    /\ decisions'[id] = decisions[id]
    /\ comps'[id] = comps[id]
    /\ receipts'[id] = receipts[id]
    /\ \A sku \in SKUs : folded'[<<id, sku>>] = folded[<<id, sku>>]

\* A rejection reverses each line once, with its paperwork at most once.
Distinct(compensations) ==
    \A j, k \in DOMAIN compensations :
        /\ compensations[j].line = compensations[k].line
        /\ compensations[j].paper = compensations[k].paper
        => j = k

\* The validators collect the events of a rejection line by line.
Collected(s) ==
    /\ Distinct(s.rej.events)
    /\ s.rej.reason = "accepted" => s.rej.events = <<>>
    /\ s.pc \in {"items", "transit", "folded"} =>
          \A j \in DOMAIN s.rej.events : s.rej.events[j].line < s.line

\* A handler emits into an empty list, and nobody else adds to it.
Emitted(s) ==
    s.pc = "emit" /\ s.node \notin HalfOpen =>
        LET id == <<s.node, s.cur>>
        IN /\ Len(comps[id]) = s.line - 1
           /\ \A j \in DOMAIN comps[id] : comps[id][j] = s.rej.events[j]

OnceInv ==
    /\ CompensatedOnce
    /\ \A h \in Handlers : Collected(session[h]) /\ Emitted(session[h])

-----------------------------------------------------------------------------
(* The steps of a handler *)

\* A handler works on its event, or takes one of the few steps that begin or end one.
LEMMA StepKinds ==
    ASSUME TypeInv, NEW h \in Handlers, HandlerStep(h) \/ Fail(h)
    PROVE  \/ Works(h) /\ session[h].pc # "decision"
           \/ ReadDecision(h) \/ Decide(h)
           \/ ReceiveBatch(h) \/ StorePushed(h) \/ Ack(h)
           \/ End(h)
  <1>1. CASE StoreEvent(h) \/ Validate(h) \/ Record(h) \/ Emit(h) \/ EnqueueCompensation(h)
    <2>1. session[h].pc # "decision"
      BY <1>1 DEF StoreEvent, Validate, CheckItem, CheckNote, ReadTotal, CheckOrder,
                  CheckDestination, CheckTransit, CheckFolded, Record, RecordFact,
                  RecordDispatchLine, KillTransfer, ReadRow, FoldLine, ForwardDispatch,
                  ForwardArrival, Emit, EnqueueCompensation, Step, At
    <2>2. Works(h)
      BY <1>1, StoreEventWorks, ValidateWorks, RecordWorks, EmitWorks
    <2>. QED
      BY <2>1, <2>2
  <1>2. CASE ReadCompensations(h)
    <2>. DEFINE s == session[h]
                k == Len(CompensationsOf(Current(h)))
    <2>1. DOMAIN s = Fields /\ s.pc = "comps"
      BY <1>2, SessionFields DEF TypeInv, TypeOK, ReadCompensations, At
    <2>2. CASE Goto(h, "emit") /\ UNCHANGED <<storeVars, nodeVars>>
      BY <2>1, <2>2, GotoBatch, PhaseKinds DEF Works, Goto, storeVars, nodeVars
    <2>3. CASE /\ Become(h, [s EXCEPT !.pc = "enqueue", !.queue = 1..k])
               /\ UNCHANGED <<storeVars, nodeVars>>
      <3>1. \A queue : SameBatch(s, [s EXCEPT !.pc = "enqueue", !.queue = queue])
        BY <2>1, PhaseKinds DEF SameBatch, Fields
      <3>. QED
        BY <2>1, <2>3, <3>1 DEF Works, storeVars, nodeVars
    <2>. QED
      BY <1>2, <2>2, <2>3 DEF ReadCompensations
  <1>. QED
    BY <1>1, <1>2 DEF HandlerStep, Settle, Fail, Notice

\* A handler serves one node until it serves none.
LEMMA NodeKept ==
    ASSUME TypeInv, NEW h \in Handlers, HandlerStep(h) \/ Fail(h)
    PROVE  \E t : Become(h, t) /\ t.node \in {session[h].node, 0}
  <1>. DEFINE s == session[h]
  <1>1. DOMAIN s = Fields
    BY SessionFields DEF TypeInv, TypeOK
  <1>2. IdleSession.node = 0
    BY DEF IdleSession
  <1>3. \A pc : [s EXCEPT !.pc = pc].node = s.node
    BY <1>1 DEF Fields
  <1>4. CASE Works(h)
    BY <1>4 DEF Works, SameBatch
  <1>5. CASE NextEvent(h)
    <2>. DEFINE t == [IdleSession EXCEPT
                        !.node = s.node, !.cur = s.cur + 1, !.last = s.last, !.high = s.high,
                        !.pc = IF s.cur < s.last THEN "decision" ELSE "setpushed"]
    <2>1. t.node = s.node
      BY DEF IdleSession
    <2>2. Become(h, t)
      BY <1>5 DEF NextEvent
    <2>. HIDE DEF t
    <2>. QED
      BY <2>1, <2>2
  <1>6. CASE ReadDecision(h) \/ Decide(h)
    BY <1>3, <1>5, <1>6 DEF ReadDecision, Decide, Goto
  <1>7. CASE ReceiveBatch(h)
    <2>. DEFINE batch(cur, last, high) == [s EXCEPT !.pc = "decision", !.cur = cur,
                                                    !.last = last, !.high = high]
                empty(cur, high) == [s EXCEPT !.pc = "setpushed", !.cur = cur, !.high = high]
    <2>1. /\ \A cur, last, high : batch(cur, last, high).node = s.node
          /\ \A cur, high : empty(cur, high).node = s.node
      BY <1>1 DEF Fields
    <2>2. \/ \E cur, last, high : Become(h, batch(cur, last, high))
          \/ \E cur, high : Become(h, empty(cur, high))
      BY <1>7 DEF ReceiveBatch
    <2>. HIDE DEF batch, empty
    <2>. QED
      BY <2>1, <2>2
  <1>8. CASE StorePushed(h) \/ Ack(h) \/ End(h)
    BY <1>2, <1>3, <1>8 DEF StorePushed, Ack, End, Goto
  <1>. QED
    BY <1>4, <1>6, <1>7, <1>8, StepKinds

\* A handler writes to the store for its event only, and only while it arbitrates.
LEMMA OnlyCurrent ==
    ASSUME TypeInv, NEW h \in Handlers, HandlerStep(h) \/ Fail(h), NEW id \in Ids,
           id = Current(h) => session[h].pc \notin Arbitrating \ {"decision"}
    PROVE  Untouched(id)
  <1>1. CASE UNCHANGED <<decisions, comps, receipts, folded>>
    BY <1>1 DEF Untouched
  <1>2. CASE id # Current(h)
    <2>1. /\ comps \in [Ids -> Seq(Compensation)]
          /\ decisions \in [Ids -> Verdicts]
          /\ receipts \in [Ids -> Nat \cup {NotRecorded}]
          /\ folded \in [Ids \X SKUs -> Nat]
      BY DEF TypeInv, TypeOK, StoreTypeOK
    <2>2. CASE RecordFact(h)
      BY <1>2, <2>1, <2>2 DEF RecordFact, RecordReceipt, Untouched, logVars, transitVars,
                              receiptVars
    <2>3. CASE FoldLine(h)
      <3>1. /\ UNCHANGED <<decisions, comps, receipts>>
            /\ \/ folded' = folded
               \/ \E sku, qty : folded' = [folded EXCEPT ![<<Current(h), sku>>] = qty]
        BY <2>3 DEF FoldLine, AddReceived, logVars, receiptVars, transitVars
      <3>. QED
        BY <1>2, <2>1, <3>1 DEF Untouched
    <2>4. CASE Emit(h)
      BY <1>2, <2>1, <2>4 DEF Emit, InsertCompensation, Untouched, receiptVars, transitVars
    <2>5. CASE Decide(h)
      BY <1>2, <2>1, <2>5 DEF Decide, RecordDecision, Untouched, receiptVars, transitVars
    <2>. QED
      BY <1>1, <2>2, <2>3, <2>4, <2>5 DEF HandlerStep, Validate, CheckItem, CheckNote,
         ReadTotal, CheckOrder, CheckDestination, CheckTransit, CheckFolded, Record,
         RecordDispatchLine, KillTransfer, ReadRow, ForwardDispatch, ForwardArrival, Settle,
         ReadCompensations, EnqueueCompensation, StoreEvent, ReadDecision, ReceiveBatch,
         StorePushed, Ack, Notice, Fail, End, storeVars, logVars, receiptVars, transitVars
  <1>3. CASE session[h].pc \notin Arbitrating \ {"decision"}
    BY <1>1, <1>3, PhaseKinds DEF HandlerStep, Validate, CheckItem, CheckNote,
         ReadTotal, CheckOrder, CheckDestination, CheckTransit, CheckFolded, Record, RecordFact,
         RecordDispatchLine, KillTransfer, ReadRow, FoldLine, ForwardDispatch, ForwardArrival,
         Settle, ReadCompensations, Emit, EnqueueCompensation, Decide, StoreEvent, ReadDecision,
         ReceiveBatch, StorePushed, Ack, Notice, Fail, End, Step, At,
         storeVars, logVars, receiptVars, transitVars
  <1>. QED
    BY <1>2, <1>3
-----------------------------------------------------------------------------
(* A decision is final *)

LEMMA AlonePreserved ==
    ASSUME TypeInv, Alone, NEW h \in Handlers, HandlerStep(h) \/ Fail(h)
    PROVE  Alone'
  <1>1. PICK t : Become(h, t) /\ t.node \in {session[h].node, 0}
    BY NodeKept
  <1>2. \A g \in Handlers : session'[g] = IF g = h THEN t ELSE session[g]
    BY <1>1 DEF Become, TypeInv, TypeOK
  <1>3. 0 \notin Nodes
    BY StoreAssumption
  <1>. QED
    BY <1>1, <1>2, <1>3 DEF Alone

LEMMA OpenInvHandlerStep ==
    ASSUME TypeInv, OpenInv, NEW h \in Handlers, HandlerStep(h) \/ Fail(h)
    PROVE  OpenInv'
  <1>1. Alone'
    BY AlonePreserved DEF OpenInv
  <1>2. ASSUME NEW g \in Handlers, g # h PROVE StillOpen(session[g])'
    <2>1. session'[g] = session[g]
      BY <1>2, NodeKept DEF Become, TypeInv, TypeOK
    <2>. SUFFICES ASSUME Sole(session[g]) PROVE decisions'[Current(g)] = decisions[Current(g)]
      BY <2>1 DEF OpenInv, StillOpen, Sole, Decided, Current
    <2>2. Current(g) \in Ids /\ session[g].node \in Nodes \ HalfOpen
      BY Here DEF Sole
    <2>3. Current(g) # Current(h)
      BY <1>2, <2>2 DEF OpenInv, Alone, Current
    <2>. QED
      BY <2>2, <2>3, OnlyCurrent DEF Untouched
  <1>3. StillOpen(session[h])'
    <2>1. CASE Works(h) /\ session[h].pc # "decision"
      <3>1. PICK t : Become(h, t) /\ SameBatch(session[h], t)
        BY <2>1 DEF Works
      <3>2. session'[h] = t /\ decisions' = decisions
        BY <2>1, <3>1 DEF Works, Become, TypeInv, TypeOK
      <3>. QED
        BY <2>1, <3>1, <3>2 DEF OpenInv, StillOpen, Sole, SameBatch, Decided
    <2>2. CASE NextEvent(h) \/ ReceiveBatch(h) \/ StorePushed(h) \/ Ack(h) \/ End(h)
      <3>1. session'[h].pc \notin Arbitrating \ {"decision"}
        <4>1. ASSUME NEW t, Become(h, t) PROVE session'[h] = t
          BY <4>1 DEF Become, TypeInv, TypeOK
        <4>2. DOMAIN session[h] = Fields
          BY SessionFields DEF TypeInv, TypeOK
        <4>. USE PhaseKinds
        <4>3. CASE NextEvent(h)
          <5>. DEFINE s == session[h]
                      next == IF s.cur < s.last THEN "decision" ELSE "setpushed"
                      t == [IdleSession EXCEPT !.node = s.node, !.cur = s.cur + 1,
                              !.last = s.last, !.high = s.high, !.pc = next]
          <5>1. Become(h, t) /\ t.pc = next
            BY <4>3 DEF NextEvent, IdleSession
          <5>2. next \in {"decision", "setpushed"}
            OBVIOUS
          <5>. HIDE DEF t, next
          <5>. QED
            BY <4>1, <5>1, <5>2
        <4>4. CASE ReceiveBatch(h)
          <5>. DEFINE s == session[h]
                      batch(cur, last, high) == [s EXCEPT !.pc = "decision", !.cur = cur,
                                                          !.last = last, !.high = high]
                      empty(cur, high) == [s EXCEPT !.pc = "setpushed", !.cur = cur,
                                                    !.high = high]
          <5>1. /\ \A cur, last, high : batch(cur, last, high).pc = "decision"
                /\ \A cur, high : empty(cur, high).pc = "setpushed"
            BY <4>2 DEF Fields
          <5>2. \/ \E cur, last, high : Become(h, batch(cur, last, high))
                \/ \E cur, high : Become(h, empty(cur, high))
            BY <4>4 DEF ReceiveBatch
          <5>. HIDE DEF batch, empty
          <5>. QED
            BY <4>1, <5>1, <5>2
        <4>5. CASE StorePushed(h) \/ Ack(h)
          <5>1. \A pc : [session[h] EXCEPT !.pc = pc].pc = pc
            BY <4>2 DEF Fields
          <5>2. \/ \E pc \in {"ack", "receive"} : Become(h, [session[h] EXCEPT !.pc = pc])
                \/ Become(h, IdleSession)
            BY <4>5 DEF StorePushed, Ack, Goto
          <5>3. IdleSession.pc = "idle"
            BY DEF IdleSession
          <5>. QED
            BY <4>1, <5>1, <5>2, <5>3
        <4>6. CASE End(h)
          BY <4>1, <4>6 DEF End, IdleSession
        <4>. QED
          BY <2>2, <4>3, <4>4, <4>5, <4>6
      <3>. QED
        BY <3>1 DEF StillOpen, Sole
    <2>3. CASE ReadDecision(h) /\ ~ NextEvent(h)
      <3>1. ~ Decided(Current(h)) /\ Goto(h, "append") /\ decisions' = decisions
        BY <2>3 DEF ReadDecision, storeVars
      <3>2. DOMAIN session[h] = Fields
        BY SessionFields DEF TypeInv, TypeOK
      <3>3. /\ session'[h].node = session[h].node
            /\ session'[h].cur = session[h].cur
        BY <3>1, <3>2 DEF Goto, Become, TypeInv, TypeOK, Fields
      <3>. QED
        BY <3>1, <3>3 DEF StillOpen, Decided, Current
    <2>. QED
      BY <2>1, <2>2, <2>3, StepKinds DEF Decide
  <1>. QED
    BY <1>1, <1>2, <1>3 DEF OpenInv

LEMMA OpenInvInit == ASSUME Init PROVE OpenInv
  <1>1. \A h \in Handlers : session[h] = IdleSession
    BY DEF Init
  <1>2. IdleSession.node = 0 /\ IdleSession.pc = "idle" /\ 0 \notin Nodes
    BY StoreAssumption DEF IdleSession
  <1>. QED
    BY <1>1, <1>2, PhaseKinds DEF OpenInv, Alone, StillOpen, Sole

\* Open waits until no handler serves the node any more.
LEMMA OpenInvOpen ==
    ASSUME TypeInv, OpenInv, NEW h \in Handlers, NEW n \in Nodes, Open(h, n)
    PROVE  OpenInv'
  <1>. DEFINE t == [IdleSession EXCEPT !.pc = "receive", !.node = n, !.last = Resume(n)]
  <1>1. t.pc = "receive" /\ t.node = n
    BY DEF IdleSession
  <1>2. decisions' = decisions /\ Become(h, t)
    BY DEF Open, storeVars
  <1>. HIDE DEF t
  <1>3. \A g \in Handlers : session'[g] = IF g = h THEN t ELSE session[g]
    BY <1>2 DEF Become, TypeInv, TypeOK
  <1>4. n \in HalfOpen \/ \A g \in Handlers : session[g].node # n
    BY DEF Open
  <1>5. Alone'
    BY <1>1, <1>3, <1>4 DEF OpenInv, Alone
  <1>6. \A g \in Handlers : StillOpen(session[g])'
    BY <1>1, <1>2, <1>3, PhaseKinds DEF OpenInv, StillOpen, Sole, Decided
  <1>. QED
    BY <1>5, <1>6 DEF OpenInv

LEMMA OpenInvIdle ==
    ASSUME OpenInv, UNCHANGED <<session, decisions>>
    PROVE  OpenInv'
  BY DEF OpenInv, Alone, StillOpen, Sole, Decided

LEMMA OpenInvNext == ASSUME TypeInv, OpenInv, [Next]_vars PROVE OpenInv'
  <1>1. ASSUME NEW h \in Handlers, NEW n \in Nodes, Open(h, n) PROVE OpenInv'
    BY <1>1, OpenInvOpen
  <1>2. ASSUME NEW h \in Handlers, HandlerStep(h) \/ Fail(h) PROVE OpenInv'
    BY <1>2, OpenInvHandlerStep
  <1>3. ASSUME NEW n \in Nodes, Detach(n) PROVE OpenInv'
    BY <1>3, OpenInvIdle DEF Detach, storeVars
  <1>4. CASE UNCHANGED vars
    BY <1>4, OpenInvIdle DEF vars, storeVars
  <1>. QED
    BY <1>1, <1>2, <1>3, <1>4 DEF Next

\* The step behind SettledForGood: a handler at work has found its event undecided.
LEMMA DecidedUntouched ==
    ASSUME TypeInv, OpenInv, [Next]_vars, NEW id \in Orderly, Decided(id)
    PROVE  Untouched(id)
  <1>1. id \in Ids /\ id[1] \notin HalfOpen
    BY DEF Orderly
  <1>2. ASSUME NEW h \in Handlers, HandlerStep(h) \/ Fail(h) PROVE Untouched(id)
    <2>1. id = Current(h) => ~ Sole(session[h])
      BY DEF OpenInv, StillOpen, Current
    <2>2. id = Current(h) => session[h].node \notin HalfOpen
      BY <1>1 DEF Current
    <2>. QED
      BY <1>1, <1>2, <2>1, <2>2, OnlyCurrent DEF Sole
  <1>3. CASE UNCHANGED storeVars
    BY <1>3 DEF storeVars, Untouched
  <1>. QED
    BY <1>2, <1>3 DEF Next, Open, Detach, vars

\* No retry and no batch that is sent again changes what central has decided, or adds
\* to what it has booked or compensated for the event.
THEOREM SettledCorrect == Spec => SettledForGood
  <1>1. Init => TypeInv /\ OpenInv
    BY TypeInvInit, OpenInvInit
  <1>2. TypeInv /\ OpenInv /\ [Next]_vars => TypeInv' /\ OpenInv'
    BY TypeInvNext, OpenInvNext
  <1>3. TypeInv /\ OpenInv /\ [Next]_vars =>
          \A id \in Orderly : Decided(id) =>
            /\ decisions'[id] = decisions[id]
            /\ comps'[id] = comps[id]
            /\ receipts'[id] = receipts[id]
            /\ \A sku \in SKUs : folded'[<<id, sku>>] = folded[<<id, sku>>]
    BY DecidedUntouched DEF Untouched
  <1>. QED
    BY <1>1, <1>2, <1>3, PTL DEF Spec, SettledForGood
-----------------------------------------------------------------------------
(* No line is compensated twice *)

Loops == {"items", "transit", "folded"}
UpTo(compensations, i) ==
    \A j \in DOMAIN compensations :
        compensations[j].line \in Nat /\ compensations[j].line <= i

\* What a step that adds nothing to the rejection keeps.
LEMMA SameRejection ==
    ASSUME NEW s, NEW t, Collected(s), t.rej = s.rej, t.pc \notin Loops
    PROVE  Collected(t)
  BY DEF Collected, Loops

LEMMA NothingCollected ==
    ASSUME NEW t, t.rej = NoRejection
    PROVE  Collected(t)
  BY DEF Collected, Distinct, NoRejection

\* A line of the loop adds its own reversal to those of the lines before it.
LEMMA RejectCollects ==
    ASSUME NEW s \in Sessions, Collected(s), s.pc \in Loops \/ s.rej.events = <<>>,
           NEW reason \in Reasons, NEW qty, NEW r, r = Reject(s, reason, qty)
    PROVE  /\ Distinct(r.rej.events)
           /\ r.rej.reason # "accepted"
           /\ r.line = s.line /\ r.pc = s.pc /\ DOMAIN r = Fields
           /\ UpTo(r.rej.events, s.line)
  <1>. DEFINE old == s.rej.events
              new == Reversal(reason, s.line, qty)
  <1>1. old \in Seq(Compensation) /\ s.line \in Nat /\ DOMAIN s = Fields
    BY SessionFields DEF Sessions, Rejections
  <1>2. r.rej.events = Append(old, new) /\ r.rej.reason = reason
        /\ r.line = s.line /\ r.pc = s.pc /\ DOMAIN r = Fields
    BY <1>1 DEF Reject, Fields
  <1>3. \A j \in DOMAIN old : old[j].line < s.line /\ old[j].line \in Nat
    <2>1. \A j \in DOMAIN old : old[j] \in Compensation
      BY <1>1
    <2>2. \A j \in DOMAIN old : old[j].line \in Nat
      BY <2>1 DEF Compensation
    <2>3. CASE old = <<>>
      BY <2>3
    <2>4. CASE s.pc \in Loops
      BY <2>2, <2>4 DEF Collected, Loops
    <2>. QED
      BY <2>3, <2>4
  <1>4. Distinct(old)
    BY DEF Collected
  <1>5. new.line = s.line
    BY DEF Reversal
  <1>. HIDE DEF old, new
  <1>. DEFINE all == Append(old, new)
  <1>6. /\ DOMAIN all = 1..Len(old) + 1 /\ DOMAIN old = 1..Len(old) /\ Len(old) \in Nat
        /\ all[Len(old) + 1] = new
        /\ \A j \in 1..Len(old) : all[j] = old[j]
    BY <1>1
  <1>. HIDE DEF all
  <1>7. \A j \in DOMAIN all :
          \/ j \in DOMAIN old /\ all[j] = old[j]
          \/ j = Len(old) + 1 /\ all[j] = new
    BY <1>6
  <1>8. Distinct(all)
    <2>. SUFFICES ASSUME NEW j \in DOMAIN all, NEW k \in DOMAIN all,
                         all[j].line = all[k].line, all[j].paper = all[k].paper
                  PROVE  j = k
      BY DEF Distinct
    <2>1. CASE j \in DOMAIN old /\ k \in DOMAIN old
      BY <1>4, <1>6, <2>1 DEF Distinct
    <2>2. CASE j \notin DOMAIN old \/ k \notin DOMAIN old
      BY <1>1, <1>3, <1>5, <1>7, <2>2
    <2>. QED
      BY <2>1, <2>2
  <1>9. UpTo(all, s.line)
    BY <1>1, <1>3, <1>5, <1>7 DEF UpTo
  <1>. QED
    BY <1>2, <1>8, <1>9 DEF all, Reasons

\* The loop goes on with a higher line, or ends; only the loop over a transfer's
\* rows follows another one, and it starts with nothing rejected.
LEMMA NextLineCollects ==
    ASSUME NEW h, NEW s \in Sessions, NEW r, DOMAIN r = Fields, r.line = s.line,
           Distinct(r.rej.events),
           r.rej.reason = "accepted" => r.rej.events = <<>>,
           UpTo(r.rej.events, s.line),
           NEW pc, NEW done, done \in Loops => r.rej.events = <<>>
    PROVE  Collected(NextLine(h, r, pc, done))
  <1>. DEFINE t == NextLine(h, r, pc, done)
  <1>1. s.line \in Nat
    BY DEF Sessions
  <1>2. t.rej = r.rej /\ (t.line = s.line + 1 \/ t.pc = done)
    BY DEF NextLine, Fields
  <1>. HIDE DEF t
  <1>3. t.pc \in Loops => \A j \in DOMAIN t.rej.events : t.rej.events[j].line < t.line
    BY <1>1, <1>2 DEF UpTo
  <1>4. Collected(t)
    BY <1>2, <1>3 DEF Collected, Loops
  <1>. QED
    BY <1>4 DEF t
LEMMA ValidateCollects ==
    ASSUME TypeInv, NEW h \in Handlers, Collected(session[h]), Validate(h)
    PROVE  \E t : Become(h, t) /\ Collected(t) /\ t.pc # "emit"
  <1>. DEFINE s == session[h]
              reject(reason) == Reject(s, reason, Line(h).qty)
  <1>1. s \in Sessions /\ DOMAIN s = Fields
    BY SessionFields DEF TypeInv, TypeOK
  <1>2. s.pc \in Arbitrating
    BY PhaseKinds DEF Validate, CheckItem, CheckNote, ReadTotal, CheckOrder, CheckDestination,
                      CheckTransit, CheckFolded, Step, At
  <1>3. s.rej.reason = "accepted" => s.rej.events = <<>>
    BY DEF Collected
  <1>4. \A pc, done : NextLine(h, s, pc, done).pc \in {pc, done}
    BY <1>1 DEF NextLine, Fields
  <1>5. ASSUME s.pc \in Loops PROVE UpTo(s.rej.events, s.line)
    <2>1. s.line \in Nat /\ s.rej.events \in Seq(Compensation)
      BY <1>1 DEF Sessions, Rejections
    <2>2. \A j \in DOMAIN s.rej.events : s.rej.events[j] \in Compensation
      BY <2>1
    <2>. QED
      BY <1>5, <2>1, <2>2 DEF Collected, Loops, UpTo, Compensation
  <1>6. \A r, pc, done : DOMAIN r = Fields => NextLine(h, r, pc, done).pc \in {pc, done}
    BY DEF NextLine, Fields
  <1>7. ASSUME NEW pc, pc \notin Loops, pc # "emit", Goto(h, pc)
        PROVE  \E t : Become(h, t) /\ Collected(t) /\ t.pc # "emit"
    <2>. DEFINE t == [s EXCEPT !.pc = pc]
    <2>1. t.rej = s.rej /\ t.pc = pc /\ Become(h, t)
      BY <1>1, <1>7 DEF Fields, Goto
    <2>. HIDE DEF t
    <2>. QED
      BY <1>7, <2>1, SameRejection
  <1>8. CASE CheckItem(h)
    <2>. DEFINE r == IF Line(h).sku \in Items THEN s ELSE reject("unknown_sku")
                done == AfterItems(P(h).kind, r.rej.reason # "accepted")
    <2>1. s.pc \in Loops /\ s.pc = "items"
      BY <1>8 DEF CheckItem, Step, At, Loops
    <2>2. /\ DOMAIN r = Fields /\ r.line = s.line /\ Distinct(r.rej.events)
          /\ r.rej.reason = "accepted" => r.rej.events = <<>>
          /\ UpTo(r.rej.events, s.line)
      BY <1>1, <1>3, <1>5, <2>1, RejectCollects DEF Reasons, Collected
    <2>3. done \in Loops => r.rej.events = <<>>
      <3>1. P(h).kind \in {"GoodsReceived", "TransferDispatched", "TransferReceived"}
        BY <1>2, <2>1, Here, PayloadFields DEF Fits, KindFits
      <3>. QED
        BY <2>2, <3>1 DEF AfterItems, Loops
    <2>4. done # "emit"
      <3>1. P(h).kind \in {"GoodsReceived", "TransferDispatched", "TransferReceived"}
        BY <1>2, <2>1, Here, PayloadFields DEF Fits, KindFits
      <3>. QED
        BY <3>1 DEF AfterItems
    <2>5. Become(h, NextLine(h, r, "items", done))
      BY <1>8 DEF CheckItem
    <2>. HIDE DEF r, done
    <2>. QED
      BY <1>1, <1>6, <2>2, <2>3, <2>4, <2>5, NextLineCollects
  <1>9. CASE CheckNote(h)
    <2>1. s.rej.events = <<>> /\ s.pc = "note"
      BY <1>2, <1>3, <1>9, Here DEF CheckNote, Step, At, Fits, RejectionFits
    <2>2. CASE NoteAgain(h)
      <3>. DEFINE r == reject("duplicate_receipt")
                  t == [r EXCEPT !.pc = "record"]
      <3>1. Distinct(r.rej.events) /\ r.rej.reason # "accepted" /\ DOMAIN r = Fields
        BY <1>1, <2>1, RejectCollects DEF Reasons
      <3>2. t.rej = r.rej /\ t.pc = "record"
        BY <3>1 DEF Fields
      <3>3. Become(h, t)
        BY <2>2 DEF NoteAgain
      <3>. HIDE DEF t, r
      <3>. QED
        BY <3>1, <3>2, <3>3 DEF Collected
    <2>3. CASE NoteFirst(h)
      <3>1. PICK pc \in {"total", "record"} : Goto(h, pc)
        BY <2>3 DEF NoteFirst
      <3>. QED
        BY <1>7, <3>1 DEF Loops
    <2>. QED
      BY <1>9, <2>2, <2>3 DEF CheckNote
  <1>10. CASE ReadTotal(h)
    <2>. DEFINE t == [s EXCEPT !.pc = "own", !.seen = ReceivedAgainstPO(P(h).po, Line(h).sku)]
    <2>1. t.rej = s.rej /\ t.pc = "own" /\ Become(h, t)
      BY <1>1, <1>10 DEF ReadTotal, Fields
    <2>. HIDE DEF t
    <2>. QED
      BY <2>1, SameRejection DEF Loops
  <1>11. CASE CheckOrder(h)
    <2>. DEFINE excess == Excess(s.seen, Receipt(Current(h)), Line(h).qty,
                                 Ordered[<<P(h).po, Line(h).sku>>])
                stock == Reversal("po_overreceipt", 1, excess)
                paper == [stock EXCEPT !.paper = TRUE]
                rej == [reason |-> "po_overreceipt", events |-> <<stock, paper>>,
                        excess |-> excess]
    <2>1. CASE Goto(h, "record")
      BY <1>7, <2>1 DEF Loops
    <2>2. CASE Become(h, [s EXCEPT !.pc = "record", !.rej = rej])
      <3>1. /\ stock.paper = FALSE
            /\ paper.paper = TRUE
        BY DEF Reversal
      <3>. HIDE DEF stock, paper, excess
      <3>2. Distinct(rej.events) /\ rej.reason # "accepted"
        BY <3>1 DEF Distinct
      <3>. HIDE DEF rej
      <3>3. [s EXCEPT !.pc = "record", !.rej = rej].rej = rej
            /\ [s EXCEPT !.pc = "record", !.rej = rej].pc = "record"
        BY <1>1 DEF Fields
      <3>. QED
        BY <2>2, <3>2, <3>3 DEF Collected
    <2>. QED
      BY <1>11, <2>1, <2>2 DEF CheckOrder
  <1>12. CASE CheckDestination(h)
    <2>. DEFINE p == P(h)
                rej == [reason |-> "transfer_rejected",
                        events |-> [i \in 1..Len(p.lines) |->
                                     Reversal("transfer_rejected", i, p.lines[i].qty)],
                        excess |-> 0]
    <2>1. CASE Goto(h, "record")
      BY <1>7, <2>1 DEF Loops
    <2>2. CASE Become(h, [s EXCEPT !.pc = "record", !.rej = rej])
      <3>1. Distinct(rej.events) /\ rej.reason # "accepted"
        BY DEF Distinct, Reversal
      <3>. HIDE DEF rej
      <3>2. [s EXCEPT !.pc = "record", !.rej = rej].rej = rej
            /\ [s EXCEPT !.pc = "record", !.rej = rej].pc = "record"
        BY <1>1 DEF Fields
      <3>. QED
        BY <2>2, <3>1, <3>2 DEF Collected
    <2>. QED
      BY <1>12, <2>1, <2>2 DEF CheckDestination
  <1>13. CASE CheckTransit(h)
    <2>. DEFINE r == reject("transfer_overreceipt")
    <2>1. s.pc \in Loops
      BY <1>13 DEF CheckTransit, Step, At, Loops
    <2>2. /\ DOMAIN r = Fields /\ r.line = s.line /\ Distinct(r.rej.events)
          /\ r.rej.reason # "accepted" /\ UpTo(r.rej.events, s.line)
      BY <1>1, <2>1, RejectCollects DEF Reasons
    <2>. HIDE DEF r
    <2>3. Collected(NextLine(h, r, "transit", "row"))
      BY <1>1, <2>2, NextLineCollects DEF Loops
    <2>4. \A seen : LET t == [s EXCEPT !.pc = "folded", !.seen = seen]
                    IN t.rej = s.rej /\ t.line = s.line /\ t.pc = "folded"
      BY <1>1 DEF Fields
    <2>5. \A seen : Collected([s EXCEPT !.pc = "folded", !.seen = seen])
      BY <2>1, <2>4 DEF Collected, Loops
    <2>6. \/ Become(h, NextLine(h, r, "transit", "row"))
          \/ \E seen : Become(h, [s EXCEPT !.pc = "folded", !.seen = seen])
      BY <1>13 DEF CheckTransit, r
    <2>. QED
      BY <1>6, <2>2, <2>3, <2>4, <2>5, <2>6
  <1>14. CASE CheckFolded(h)
    <2>. DEFINE over == Line(h).qty - (s.seen + ReceivedFromEvent(Current(h), Line(h).sku))
                r == Surplus(s, over)
    <2>1. s.pc \in Loops
      BY <1>14 DEF CheckFolded, Step, At, Loops
    <2>. HIDE DEF over
    <2>2. /\ DOMAIN r = Fields /\ r.line = s.line /\ Distinct(r.rej.events)
          /\ r.rej.reason = "accepted" => r.rej.events = <<>>
          /\ UpTo(r.rej.events, s.line)
      BY <1>1, <1>3, <1>5, <2>1, RejectCollects DEF Reasons, Surplus, Collected
    <2>. HIDE DEF r
    <2>3. Become(h, NextLine(h, r, "transit", "row"))
      BY <1>14 DEF CheckFolded, r, over
    <2>. QED
      BY <1>1, <1>6, <2>2, <2>3, NextLineCollects DEF Loops
  <1>. QED
    BY <1>8, <1>9, <1>10, <1>11, <1>12, <1>13, <1>14 DEF Validate
\* A step that keeps what is collected, and comes to Emit only from Emit itself or
\* from a lookup that found nothing.
Collects(h) ==
    \E t :
        /\ Become(h, t)
        /\ Collected(t)
        /\ t.pc = "emit" =>
              /\ t.node = session[h].node /\ t.cur = session[h].cur
              /\ \/ Emit(h) /\ t.rej = session[h].rej /\ t.line = session[h].line + 1
                 \/ comps' = comps /\ comps[Current(h)] = <<>> /\ t.line = 1

\* The other steps reset the rejection or leave it alone, outside the loops.
LEMMA OthersCollect ==
    ASSUME TypeInv, NEW h \in Handlers, Collected(session[h]),
           HandlerStep(h) \/ Fail(h), ~ Validate(h)
    PROVE  Collects(h)
  <1>. DEFINE s == session[h]
  <1>1. s \in Sessions /\ DOMAIN s = Fields
    BY SessionFields DEF TypeInv, TypeOK
  <1>2. ASSUME NEW t, Become(h, t), t.rej = s.rej, t.pc \notin Loops, t.pc # "emit"
        PROVE  Collects(h)
    BY <1>2, SameRejection DEF Collects
  <1>3. ASSUME NEW t, Become(h, t), t.rej = NoRejection, t.pc # "emit"
        PROVE  Collects(h)
    BY <1>3, NothingCollected DEF Collects
  <1>4. ASSUME NEW pc, Goto(h, pc), pc \notin Loops, pc # "emit" PROVE Collects(h)
    <2>. DEFINE t == [s EXCEPT !.pc = pc]
    <2>1. t.rej = s.rej /\ t.pc = pc /\ Become(h, t)
      BY <1>1, <1>4 DEF Fields, Goto
    <2>. HIDE DEF t
    <2>. QED
      BY <1>2, <1>4, <2>1
  <1>5. ASSUME NEW pc, NEW done, Become(h, NextLine(h, s, pc, done)),
               {pc, done} \cap (Loops \cup {"emit"}) = {}
        PROVE  Collects(h)
    <2>. DEFINE t == NextLine(h, s, pc, done)
    <2>1. t.rej = s.rej /\ t.pc \in {pc, done}
      BY <1>1 DEF Fields, NextLine
    <2>. HIDE DEF t
    <2>. QED
      BY <1>2, <1>5, <2>1 DEF t
  <1>6. CASE NextEvent(h)
    <2>. DEFINE next == IF s.cur < s.last THEN "decision" ELSE "setpushed"
                t == [IdleSession EXCEPT !.node = s.node, !.cur = s.cur + 1, !.last = s.last,
                                         !.high = s.high, !.pc = next]
    <2>1. t.rej = NoRejection /\ t.pc = next /\ Become(h, t) /\ next # "emit"
      BY <1>6 DEF NextEvent, IdleSession
    <2>. HIDE DEF t, next
    <2>. QED
      BY <1>3, <2>1
  <1>7. CASE Become(h, IdleSession)
    <2>1. IdleSession.rej = NoRejection /\ IdleSession.pc # "emit"
      BY DEF IdleSession
    <2>. QED
      BY <1>3, <1>7, <2>1
  <1>8. CASE ReceiveBatch(h)
    <2>. DEFINE batch(cur, last, high) == [s EXCEPT !.pc = "decision", !.cur = cur,
                                                    !.last = last, !.high = high]
                empty(cur, high) == [s EXCEPT !.pc = "setpushed", !.cur = cur, !.high = high]
    <2>1. /\ \A cur, last, high :
               batch(cur, last, high).pc = "decision" /\ batch(cur, last, high).rej = s.rej
          /\ \A cur, high : empty(cur, high).pc = "setpushed" /\ empty(cur, high).rej = s.rej
      BY <1>1 DEF Fields
    <2>2. \/ \E cur, last, high : Become(h, batch(cur, last, high))
          \/ \E cur, high : Become(h, empty(cur, high))
      BY <1>8 DEF ReceiveBatch
    <2>. HIDE DEF batch, empty
    <2>. QED
      BY <1>2, <2>1, <2>2 DEF Loops
  <1>9. CASE StoreEvent(h)
    <2>. DEFINE pc == IF P(h).kind = "Other" THEN "decide" ELSE "items"
                t == [s EXCEPT !.pc = pc]
    <2>1. t.rej = s.rej /\ t.pc = pc /\ Become(h, t) /\ pc # "emit"
      BY <1>1, <1>9 DEF Fields, StoreEvent, Goto
    <2>2. s.rej = NoRejection
      BY <1>9 DEF TypeInv, Fits, RejectionFits, StoreEvent, Step, At
    <2>. HIDE DEF t, pc
    <2>. QED
      BY <1>3, <2>1, <2>2
  <1>10. CASE Record(h)
    <2>1. CASE ReadRow(h)
      <3>. DEFINE t(seen) == [s EXCEPT !.pc = "fold", !.seen = seen]
      <3>1. \A seen : t(seen).rej = s.rej /\ t(seen).pc = "fold"
        BY <1>1 DEF Fields
      <3>2. \/ Become(h, NextLine(h, s, "row", "forward"))
            \/ \E seen : Become(h, t(seen))
        BY <2>1 DEF ReadRow
      <3>. HIDE DEF t
      <3>. QED
        BY <1>2, <1>5, <3>1, <3>2 DEF Loops
    <2>2. CASE RecordDispatchLine(h) \/ FoldLine(h)
      <3>1. \E pc \in {"record", "row"}, done \in {"fail", "forward"} :
               Become(h, NextLine(h, s, pc, done))
        BY <2>2 DEF RecordDispatchLine, FoldLine
      <3>. QED
        BY <1>5, <3>1 DEF Loops
    <2>3. CASE RecordFact(h) \/ KillTransfer(h) \/ ForwardDispatch(h) \/ ForwardArrival(h)
      <3>1. \E pc \in {"comps", "decide"} : Goto(h, pc)
        BY <2>3 DEF RecordFact, KillTransfer, ForwardDispatch, ForwardArrival
      <3>. QED
        BY <1>4, <3>1 DEF Loops
    <2>. QED
      BY <1>10, <2>1, <2>2, <2>3 DEF Record
  <1>11. CASE ReadCompensations(h)
    <2>. DEFINE k == Len(CompensationsOf(Current(h)))
    <2>1. CASE k = 0 /\ Goto(h, "emit") /\ UNCHANGED storeVars
      <3>. DEFINE t == [s EXCEPT !.pc = "emit"]
      <3>1. /\ t.rej = s.rej /\ t.pc = "emit" /\ Become(h, t) /\ t.node = s.node
            /\ t.cur = s.cur /\ t.line = s.line
        BY <1>1, <2>1 DEF Fields, Goto
      <3>2. s.line = 1 /\ s.pc = "comps"
        BY <1>11 DEF TypeInv, Fits, LineFits, ReadCompensations, At
      <3>3. comps[Current(h)] = <<>> /\ comps' = comps
        <4>1. Current(h) \in Ids
          BY <3>2, Here, PhaseKinds
        <4>2. comps[Current(h)] \in Seq(Compensation)
          BY <4>1 DEF TypeInv, TypeOK, StoreTypeOK
        <4>. QED
          BY <2>1, <4>2 DEF CompensationsOf, storeVars
      <3>. HIDE DEF t
      <3>. QED
        BY <3>1, <3>2, <3>3, SameRejection DEF Loops, Collects
    <2>2. CASE Become(h, [s EXCEPT !.pc = "enqueue", !.queue = 1..k])
      <3>. DEFINE t == [s EXCEPT !.pc = "enqueue", !.queue = 1..k]
      <3>1. t.rej = s.rej /\ t.pc = "enqueue" /\ Become(h, t)
        BY <1>1, <2>2 DEF Fields
      <3>. HIDE DEF t
      <3>. QED
        BY <1>2, <3>1 DEF Loops
    <2>3. CASE End(h)
      BY <1>7, <2>3 DEF End
    <2>. QED
      BY <1>11, <2>1, <2>2, <2>3 DEF ReadCompensations
  <1>12. CASE Emit(h)
    <2>. DEFINE more == s.line < Len(s.rej.events)
                line == IF more THEN s.line + 1 ELSE 1
                pc == IF more THEN "emit" ELSE "enqueue"
                t == [s EXCEPT !.queue = s.queue \cup {Len(comps[Current(h)]) + 1},
                               !.line = line, !.pc = pc]
    <2>1. /\ t.rej = s.rej /\ t.pc = pc /\ t.node = s.node /\ t.cur = s.cur
          /\ t.line = line
      BY <1>1 DEF Fields
    <2>2. Become(h, t)
      BY <1>12 DEF Emit
    <2>3. pc \in {"emit", "enqueue"} /\ (pc = "emit" => line = s.line + 1)
      OBVIOUS
    <2>. HIDE DEF t, line, pc
    <2>. QED
      BY <1>12, <2>1, <2>2, <2>3, SameRejection DEF Loops, Collects
  <1>13. CASE EnqueueCompensation(h)
    <2>. DEFINE t(queue, pc) == [s EXCEPT !.queue = queue, !.pc = pc]
    <2>1. \A queue, pc : t(queue, pc).rej = s.rej /\ t(queue, pc).pc = pc
      BY <1>1 DEF Fields
    <2>2. \E queue : \E pc \in {"decide", "enqueue"} : Become(h, t(queue, pc))
      BY <1>13 DEF EnqueueCompensation
    <2>. HIDE DEF t
    <2>. QED
      BY <1>2, <2>1, <2>2 DEF Loops
  <1>14. CASE ReadDecision(h) \/ Decide(h)
    BY <1>4, <1>6, <1>14 DEF ReadDecision, Decide, Loops
  <1>15. CASE StorePushed(h) \/ Ack(h)
    BY <1>4, <1>7, <1>15 DEF StorePushed, Ack, Loops
  <1>16. CASE Notice(h) \/ Fail(h)
    BY <1>7, <1>16 DEF Notice, Fail, End
  <1>. QED
    BY <1>8, <1>9, <1>10, <1>11, <1>12, <1>13, <1>14, <1>15, <1>16 DEF HandlerStep, Settle
LEMMA StepCollects ==
    ASSUME TypeInv, NEW h \in Handlers, Collected(session[h]), HandlerStep(h) \/ Fail(h)
    PROVE  Collects(h)
  BY ValidateCollects, OthersCollect DEF Collects

\* Emit adds the next event of the rejection to the ones before it.
LEMMA EmitAdds ==
    ASSUME TypeInv, OpenInv, OnceInv, NEW h \in Handlers, Emit(h),
           session[h].node \notin HalfOpen
    PROVE  LET id == Current(h)
           IN /\ Len(comps'[id]) = session[h].line
              /\ \A j \in DOMAIN comps'[id] : comps'[id][j] = session[h].rej.events[j]
              /\ Distinct(comps'[id])
  <1>1. session[h] \in Sessions /\ session[h].pc = "emit" /\ Current(h) \in Ids
        /\ session[h].line \in DOMAIN session[h].rej.events
    BY Here, PhaseKinds DEF Emit, Step, At, Fits, LineFits
  <1>2. PICK id : id = Current(h)
    OBVIOUS
  <1>3. PICK line, all : line = session[h].line /\ all = session[h].rej.events
    OBVIOUS
  <1>4. PICK old : old = comps[id]
    OBVIOUS
  <1>5. old \in Seq(Compensation) /\ comps \in [Ids -> Seq(Compensation)]
    BY <1>1, <1>2, <1>4 DEF TypeInv, TypeOK, StoreTypeOK
  <1>6. all \in Seq(Compensation) /\ line \in DOMAIN all
    BY <1>1, <1>3 DEF Sessions, Rejections
  <1>7. Len(old) = line - 1 /\ \A j \in DOMAIN old : old[j] = all[j]
    BY <1>1, <1>2, <1>3, <1>4 DEF OnceInv, Emitted, Current
  <1>8. comps'[id] = Append(old, all[line])
    BY <1>1, <1>2, <1>3, <1>4, <1>5 DEF Emit, InsertCompensation
  <1>. DEFINE new == Append(old, all[line])
  <1>9. Len(new) = line /\ \A j \in DOMAIN new : j \in DOMAIN all /\ new[j] = all[j]
    BY <1>5, <1>6, <1>7
  <1>10. Distinct(all)
    BY <1>3 DEF OnceInv, Collected
  <1>11. Distinct(new)
    BY <1>9, <1>10, Zenon DEF Distinct
  <1>. QED
    BY <1>2, <1>3, <1>8, <1>9, <1>11

LEMMA OnceHandlerStep ==
    ASSUME TypeInv, OpenInv, OnceInv, NEW h \in Handlers, HandlerStep(h) \/ Fail(h)
    PROVE  OnceInv'
  <1>1. PICK t :
          /\ Become(h, t)
          /\ Collected(t)
          /\ t.pc = "emit" =>
                /\ t.node = session[h].node /\ t.cur = session[h].cur
                /\ \/ Emit(h) /\ t.rej = session[h].rej /\ t.line = session[h].line + 1
                   \/ comps' = comps /\ comps[Current(h)] = <<>> /\ t.line = 1
    BY StepCollects DEF Collects, OnceInv
  <1>2. \A g \in Handlers : session'[g] = IF g = h THEN t ELSE session[g]
    BY <1>1 DEF Become, TypeInv, TypeOK
  <1>3. \A g \in Handlers : Collected(session[g])'
    BY <1>1, <1>2 DEF OnceInv, Collected, Distinct
  <1>4. Emitted(session[h])'
    <2>1. Emitted(t)'
      <3>. SUFFICES ASSUME t.pc = "emit", t.node \notin HalfOpen
                    PROVE  /\ Len(comps'[Current(h)]) = t.line - 1
                           /\ \A j \in DOMAIN comps'[Current(h)] :
                                 comps'[Current(h)][j] = t.rej.events[j]
        BY <1>1 DEF Emitted, Current
      <3>1. CASE Emit(h) /\ t.rej = session[h].rej /\ t.line = session[h].line + 1
        <4>1. session[h].line \in Nat
          BY DEF TypeInv, TypeOK, Sessions
        <4>. QED
          BY <1>1, <3>1, <4>1, EmitAdds
      <3>2. CASE comps' = comps /\ comps[Current(h)] = <<>> /\ t.line = 1
        BY <3>2
      <3>. QED
        BY <1>1, <3>1, <3>2
    <2>. QED
      BY <1>2, <2>1 DEF Emitted
  <1>5. ASSUME NEW g \in Handlers, g # h PROVE Emitted(session[g])'
    <2>1. session'[g] = session[g]
      BY <1>2, <1>5
    <2>. SUFFICES ASSUME session[g].pc = "emit", session[g].node \notin HalfOpen
                  PROVE  comps'[Current(g)] = comps[Current(g)]
      BY <2>1 DEF OnceInv, Emitted, Current
    <2>2. Current(g) \in Ids /\ session[g].node \in Nodes \ HalfOpen
      BY Here, PhaseKinds
    <2>3. Current(g) # Current(h)
      BY <1>5, <2>2 DEF OpenInv, Alone, Current
    <2>. QED
      BY <2>2, <2>3, OnlyCurrent DEF Untouched
  <1>6. CompensatedOnce'
    <2>1. log' = log
      BY DEF HandlerStep, ReceiveBatch, ReadDecision, StoreEvent, Validate, CheckItem, CheckNote,
         ReadTotal, CheckOrder, CheckDestination, CheckTransit, CheckFolded, Record, RecordFact,
         RecordDispatchLine, KillTransfer, ReadRow, FoldLine, ForwardDispatch, ForwardArrival,
         Settle, ReadCompensations, Emit, EnqueueCompensation, Decide, StorePushed, Ack, Notice,
         Fail, End, Step, nodeVars
    <2>. SUFFICES ASSUME NEW id \in Orderly PROVE Distinct(comps'[id])
      BY DEF CompensatedOnce, Distinct, Orderly
    <2>2. id \in Ids /\ id[1] \notin HalfOpen
      BY DEF Orderly
    <2>3. CASE comps'[id] = comps[id]
      BY <2>3, Zenon DEF OnceInv, CompensatedOnce, Distinct
    <2>4. CASE Emit(h) /\ id = Current(h)
      BY <2>2, <2>4, EmitAdds DEF Current
    <2>5. CASE ~ Emit(h) \/ id # Current(h)
      <3>1. Untouched(id) \/ comps' = comps
        <4>1. CASE Emit(h)
          BY <2>2, <2>5, <4>1, OnlyCurrent
        <4>2. CASE ~ Emit(h)
          BY <4>2 DEF HandlerStep, ReceiveBatch, ReadDecision, StoreEvent, Validate, CheckItem,
             CheckNote, ReadTotal, CheckOrder, CheckDestination, CheckTransit, CheckFolded,
             Record, RecordFact, RecordDispatchLine, KillTransfer, ReadRow, FoldLine,
             ForwardDispatch, ForwardArrival, Settle, ReadCompensations, EnqueueCompensation,
             Decide, StorePushed, Ack, Notice, Fail, End, storeVars, logVars
        <4>. QED
          BY <4>1, <4>2
      <3>. QED
        BY <2>3, <3>1 DEF Untouched
    <2>. QED
      BY <2>4, <2>5
  <1>. QED
    BY <1>3, <1>4, <1>5, <1>6 DEF OnceInv

\* The steps that write no compensation and bring no handler to Emit.
LEMMA OnceIdle ==
    ASSUME TypeInv, OnceInv, comps' = comps,
           \A g \in Handlers : \/ session'[g] = session[g]
                               \/ session'[g].rej = NoRejection /\ session'[g].pc # "emit"
    PROVE  OnceInv'
  <1>1. CompensatedOnce'
    BY DEF OnceInv, CompensatedOnce, Orderly
  <1>2. ASSUME NEW g \in Handlers PROVE Collected(session[g])' /\ Emitted(session[g])'
    <2>1. CASE session'[g] = session[g]
      BY <2>1 DEF OnceInv, Collected, Distinct, Emitted
    <2>2. CASE session'[g].rej = NoRejection /\ session'[g].pc # "emit"
      BY <2>2 DEF Collected, Distinct, Emitted, NoRejection
    <2>. QED
      BY <2>1, <2>2
  <1>. QED
    BY <1>1, <1>2 DEF OnceInv

LEMMA OnceInvInit == ASSUME Init PROVE OnceInv
  <1>1. CompensatedOnce
    BY DEF Init, StoreInit, CompensatedOnce, Orderly
  <1>2. \A h \in Handlers : session[h].rej = NoRejection /\ session[h].pc # "emit"
    BY DEF Init, IdleSession
  <1>. QED
    BY <1>1, <1>2, NothingCollected DEF OnceInv, Emitted

LEMMA OnceInvNext == ASSUME TypeInv, OpenInv, OnceInv, [Next]_vars PROVE OnceInv'
  <1>1. ASSUME NEW h \in Handlers, NEW n \in Nodes, Open(h, n) PROVE OnceInv'
    <2>. DEFINE t == [IdleSession EXCEPT !.pc = "receive", !.node = n, !.last = Resume(n)]
    <2>1. t.rej = NoRejection /\ t.pc # "emit"
      BY DEF IdleSession
    <2>2. comps' = comps /\ Become(h, t)
      BY <1>1 DEF Open, storeVars
    <2>. HIDE DEF t
    <2>3. \A g \in Handlers : session'[g] = IF g = h THEN t ELSE session[g]
      BY <2>2 DEF Become, TypeInv, TypeOK
    <2>. QED
      BY <2>1, <2>2, <2>3, OnceIdle
  <1>2. ASSUME NEW h \in Handlers, HandlerStep(h) \/ Fail(h) PROVE OnceInv'
    BY <1>2, OnceHandlerStep
  <1>3. ASSUME NEW n \in Nodes, Detach(n) PROVE OnceInv'
    BY <1>3, OnceIdle DEF Detach, storeVars
  <1>4. CASE UNCHANGED vars
    BY <1>4, OnceIdle DEF vars, storeVars
  <1>. QED
    BY <1>1, <1>2, <1>3, <1>4 DEF Next

\* However often an event is arbitrated again, each of its lines is compensated at most
\* once: an attempt emits into an empty list only, and no other attempt is under way.
THEOREM CompensatedOnceCorrect == Spec => []CompensatedOnce
  <1>1. Init => TypeInv /\ OpenInv /\ OnceInv
    BY TypeInvInit, OpenInvInit, OnceInvInit
  <1>2. TypeInv /\ OpenInv /\ OnceInv /\ [Next]_vars => TypeInv' /\ OpenInv' /\ OnceInv'
    BY TypeInvNext, OpenInvNext, OnceInvNext
  <1>3. OnceInv => CompensatedOnce
    BY DEF OnceInv
  <1>. QED
    BY <1>1, <1>2, <1>3, PTL DEF Spec
=============================================================================
