------------------------------ MODULE Outbound ------------------------------
(***************************************************************************)
(* The downstream half of warehouse-node's sync sessions: the queue central *)
(* keeps for one node, the handlers that push it page by page, and the      *)
(* node that ingests what it is sent and acknowledges a position.           *)
(*                                                                          *)
(* A row's position comes from a sequence, outside any transaction, so the  *)
(* insert of a row takes two steps: drawing a position and the commit that  *)
(* makes the row visible.  Central's in-memory store does both at once; a   *)
(* single writer is as good.                                                *)
(***************************************************************************)
EXTENDS Integers, Sequences, FiniteSets

CONSTANTS
    Envs,        \* the envelopes that may be queued for the node
    Writers,     \* the calls of Enqueue that may be under way at once
    Handlers,    \* the goroutines serving the node's sessions
    MaxPage,     \* MaxBatchEvents, the rows of one query
    MaxOrd,      \* bound on the positions drawn
    MaxFailures  \* bound on failed calls, lost sessions and crashes

ASSUME OutboundAssumption ==
    /\ MaxPage \in Nat \ {0}
    /\ MaxOrd \in Nat
    /\ MaxFailures \in Nat

VARIABLES
    rows,       \* the committed rows of the queue
    nextOrd,    \* the last position drawn
    writing,    \* writer |-> the row it is inserting, if any
    delivered,  \* DeliveredOrd, the position the node acknowledged
    handler,    \* handler |-> the local variables of push
    client,     \* the local variables of applyDownstream
    frames,     \* batches on their way to the client
    ingested,   \* envelopes in the node's log
    applied,    \* envelopes with an applied marker in its projections
    pulled,     \* CursorPulled
    failures

queueVars == <<rows, nextOrd, writing>>
nodeVars == <<ingested, applied, pulled>>
vars == <<queueVars, delivered, handler, client, frames, nodeVars, failures>>

Row == [ord : Nat \ {0}, env : Envs]
Batch == [rows : SUBSET Row, last : Nat, more : BOOLEAN]
NoBatch == [rows |-> {}, last |-> 0, more |-> FALSE]
NoAck == -1
IdleHandler == [pc |-> "idle", cursor |-> 0, page |-> {}, ack |-> NoAck]
Disconnected == [pc |-> "off", at |-> {}, batch |-> NoBatch, highest |-> 0]

TypeOK ==
    /\ rows \subseteq Row
    /\ nextOrd \in Nat
    /\ writing \in [Writers -> SUBSET Row]
    /\ delivered \in Nat
    /\ handler \in [Handlers ->
          [pc : {"idle", "cursor", "page", "send", "ack", "store"},
           cursor : Nat, page : SUBSET Row, ack : Nat \cup {NoAck}]]
    /\ client \in [pc : {"off", "receive", "ingest", "apply", "pulled", "ack"},
                   at : SUBSET Handlers, batch : Batch, highest : Nat]
    /\ frames \in Seq(Batch)
    /\ ingested \subseteq Envs /\ applied \subseteq Envs
    /\ pulled \in Nat
    /\ failures \in Nat

Init ==
    /\ rows = {} /\ nextOrd = 0 /\ writing = [w \in Writers |-> {}]
    /\ delivered = 0
    /\ handler = [h \in Handlers |-> IdleHandler]
    /\ client = Disconnected
    /\ frames = <<>>
    /\ ingested = {} /\ applied = {} /\ pulled = 0
    /\ failures = 0

EnvsOf(S) == {r.env : r \in S}
Max2(a, b) == IF a < b THEN b ELSE a

-----------------------------------------------------------------------------
(* Enqueue *)

Draw(w) ==
    /\ writing[w] = {}
    /\ nextOrd < MaxOrd
    /\ nextOrd' = nextOrd + 1
    /\ \E e \in Envs :
          writing' = [writing EXCEPT ![w] = {[ord |-> nextOrd + 1, env |-> e]}]
    /\ UNCHANGED <<rows, delivered, handler, client, frames, nodeVars, failures>>

\* An envelope queued already is not queued again; its position is lost.
Commit(w) ==
    /\ writing[w] # {}
    /\ rows' = rows \cup {r \in writing[w] : r.env \notin EnvsOf(rows)}
    /\ writing' = [writing EXCEPT ![w] = {}]
    /\ UNCHANGED <<nextOrd, delivered, handler, client, frames, nodeVars, failures>>

\* The statement fails; its caller's session is retried and enqueues again.
Abort(w) ==
    /\ writing[w] # {}
    /\ failures < MaxFailures
    /\ failures' = failures + 1
    /\ writing' = [writing EXCEPT ![w] = {}]
    /\ UNCHANGED <<rows, nextOrd, delivered, handler, client, frames, nodeVars>>

-----------------------------------------------------------------------------
(* push *)

At(h, pc) == handler[h].pc = pc
Serves(h) == client.at = {h}

HandlerFrame == UNCHANGED <<queueVars, nodeVars, client, failures>>

\* A frame sent to a client that has gone is lost.
Send(h, batch) == frames' = IF Serves(h) THEN Append(frames, batch) ELSE frames

\* Mutant of Above: the row after the cursor's is missed.
AboveNext(cursor) == {r \in rows : r.ord > cursor + 1}

Above(cursor) == {r \in rows : r.ord > cursor}

\* Mutant of FirstOf: a page from the wrong end of the queue.
SomeOf(S, k) == {r \in S : Cardinality({q \in S : q.ord >= r.ord}) <= k}

FirstOf(S, k) == {r \in S : Cardinality({q \in S : q.ord <= r.ord}) <= k}

LastOrd(S) == CHOOSE o \in {r.ord : r \in S} : \A r \in S : r.ord <= o

ReadCursor(h) ==
    /\ At(h, "cursor")
    /\ handler' = [handler EXCEPT ![h].pc = "page", ![h].cursor = delivered]
    /\ UNCHANGED <<delivered, frames>>
    /\ HandlerFrame

ReadPage(h) ==
    LET page == FirstOf(Above(handler[h].cursor), MaxPage)
    IN /\ At(h, "page")
       /\ IF page = {}
            THEN /\ Send(h, [rows |-> {}, last |-> handler[h].cursor, more |-> FALSE])
                 /\ handler' = [handler EXCEPT ![h].pc = "ack"]
            ELSE /\ handler' = [handler EXCEPT ![h].pc = "send", ![h].page = page]
                 /\ UNCHANGED frames
       /\ UNCHANGED delivered
       /\ HandlerFrame

\* One chunk of the page, of any size the byte cap may cut it to.  After the last
\* one a second query tells whether more rows have come since.
SendChunk(h) ==
    LET page == handler[h].page
    IN /\ At(h, "send")
       /\ \E k \in 1..Cardinality(page) :
            LET chunk == FirstOf(page, k)
                rest == page \ chunk
                last == LastOrd(chunk)
                more == rest # {} \/ Above(last) # {}
            IN /\ Send(h, [rows |-> chunk, last |-> last, more |-> more])
               /\ handler' = [handler EXCEPT ![h] =
                     [@ EXCEPT !.page = rest, !.cursor = last,
                               !.pc = IF rest # {} THEN "send"
                                      ELSE IF more THEN "page" ELSE "ack"]]
       /\ UNCHANGED delivered
       /\ HandlerFrame

\* Mutant of ReceiveAck: a stream that ended is taken for an acknowledgement.
ReceiveEOF(h) ==
    /\ At(h, "ack")
    /\ handler[h].ack # NoAck \/ ~ Serves(h)
    /\ handler' = [handler EXCEPT ![h].pc = "store"]
    /\ UNCHANGED <<delivered, frames>>
    /\ HandlerFrame

\* The node's final acknowledgement; a position of zero is not worth storing.
ReceiveAck(h) ==
    /\ At(h, "ack")
    /\ handler[h].ack # NoAck
    /\ handler' = [handler EXCEPT ![h] =
          IF handler[h].ack > 0 THEN [@ EXCEPT !.pc = "store"] ELSE IdleHandler]
    /\ UNCHANGED <<delivered, frames>>
    /\ HandlerFrame

StoreDelivered(h) ==
    /\ At(h, "store")
    /\ delivered' = handler[h].ack
    /\ handler' = [handler EXCEPT ![h] = IdleHandler]
    /\ UNCHANGED frames
    /\ HandlerFrame

\* A handler whose client has gone without an acknowledgement ends.
Notice(h) ==
    /\ ~ At(h, "idle") /\ ~ At(h, "store")
    /\ ~ Serves(h) /\ handler[h].ack = NoAck
    /\ handler' = [handler EXCEPT ![h] = IdleHandler]
    /\ UNCHANGED <<delivered, frames>>
    /\ HandlerFrame

\* A store call fails or central crashes.
Fail(h) ==
    /\ ~ At(h, "idle")
    /\ failures < MaxFailures
    /\ failures' = failures + 1
    /\ handler' = [handler EXCEPT ![h] = IdleHandler]
    /\ UNCHANGED <<queueVars, delivered, client, frames, nodeVars>>

-----------------------------------------------------------------------------
(* applyDownstream *)

ClientAt(pc) == client.pc = pc
ClientFrame == UNCHANGED <<queueVars, delivered, failures>>

\* The node's own events have been pushed and the session turns downstream.
Connect(h) ==
    /\ ClientAt("off") /\ At(h, "idle")
    /\ client' = [Disconnected EXCEPT !.pc = "receive", !.at = {h}]
    /\ handler' = [handler EXCEPT ![h].pc = "cursor"]
    /\ frames' = <<>>
    /\ UNCHANGED nodeVars
    /\ ClientFrame

ReceiveFrame ==
    /\ ClientAt("receive")
    /\ frames # <<>>
    /\ client' = [client EXCEPT !.pc = "ingest", !.batch = Head(frames)]
    /\ frames' = Tail(frames)
    /\ UNCHANGED <<handler, nodeVars>>
    /\ ClientFrame

\* Mutant of ToApply: only what the log did not hold before is applied.
NewToLog(batch) == {r \in batch.rows : r.env \notin ingested}

ToApply(batch) == batch.rows

\* The batch goes into the log in one transaction.
Ingest ==
    /\ ClientAt("ingest")
    /\ ingested' = ingested \cup EnvsOf(client.batch.rows)
    /\ client' = [client EXCEPT !.pc = "apply", !.batch.rows = ToApply(client.batch)]
    /\ UNCHANGED <<handler, frames, applied, pulled>>
    /\ ClientFrame

\* The projections apply one envelope after the other; one applied before is skipped.
\* Then the batch is done with.
Apply ==
    LET batch == client.batch
    IN /\ ClientAt("apply")
       /\ IF batch.rows # {}
            THEN /\ applied' = applied \cup EnvsOf(FirstOf(batch.rows, 1))
                 /\ client' = [client EXCEPT !.batch.rows = @ \ FirstOf(@, 1)]
            ELSE /\ client' = [client EXCEPT
                       !.highest = Max2(@, batch.last), !.batch = NoBatch,
                       !.pc = IF batch.more THEN "receive" ELSE "pulled"]
                 /\ UNCHANGED applied
       /\ UNCHANGED <<handler, frames, ingested, pulled>>
       /\ ClientFrame

StorePulled ==
    /\ ClientAt("pulled")
    /\ pulled' = IF client.highest > 0 THEN client.highest ELSE pulled
    /\ client' = [client EXCEPT !.pc = "ack"]
    /\ UNCHANGED <<handler, frames, ingested, applied>>
    /\ ClientFrame

\* The session is over for the client, which does not wait for central to store it.
SendAck ==
    /\ ClientAt("ack")
    /\ handler' = [h \in Handlers |->
          IF Serves(h) /\ ~ At(h, "idle")
            THEN [handler[h] EXCEPT !.ack = client.highest] ELSE handler[h]]
    /\ client' = Disconnected
    /\ frames' = <<>>
    /\ UNCHANGED nodeVars
    /\ ClientFrame

\* The stream ends before its last batch.
StreamEnds ==
    /\ ClientAt("receive")
    /\ frames = <<>>
    /\ \A h \in Handlers : Serves(h) => At(h, "idle")
    /\ client' = Disconnected
    /\ UNCHANGED <<handler, frames, nodeVars>>
    /\ ClientFrame

\* The stream breaks, or the log or a projection returns an error.
Drop ==
    /\ ~ ClientAt("off")
    /\ failures < MaxFailures
    /\ failures' = failures + 1
    /\ client' = Disconnected
    /\ frames' = <<>>
    /\ UNCHANGED <<queueVars, delivered, handler, nodeVars>>

\* The node crashes; when it opens again its projections catch up with its log.
Restart ==
    /\ failures < MaxFailures
    /\ failures' = failures + 1
    /\ client' = Disconnected
    /\ frames' = <<>>
    /\ applied' = ingested
    /\ UNCHANGED <<queueVars, delivered, handler, ingested, pulled>>

-----------------------------------------------------------------------------
Enqueue(w) == Draw(w) \/ Commit(w) \/ Abort(w)

Push(h) ==
    \/ ReadCursor(h) \/ ReadPage(h) \/ SendChunk(h)
    \/ ReceiveAck(h) \/ StoreDelivered(h) \/ Notice(h)

ApplyDownstream ==
    \/ ReceiveFrame \/ Ingest \/ Apply \/ StorePulled \/ SendAck \/ StreamEnds

Next ==
    \/ \E w \in Writers : Enqueue(w)
    \/ \E h \in Handlers : Connect(h) \/ Push(h) \/ Fail(h)
    \/ ApplyDownstream \/ Drop \/ Restart

Spec == Init /\ [][Next]_vars

\* Handlers and the client run, and the node's Run loop opens sessions for ever.
FairSpec ==
    /\ Spec
    /\ \A h \in Handlers : WF_vars(Push(h))
    /\ WF_vars(ApplyDownstream)
    /\ WF_vars(\E h \in Handlers : Connect(h))
=============================================================================
