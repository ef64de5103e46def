----------------------------- MODULE NodeService -----------------------------
(***************************************************************************)
(* A warehouse node: its event log, the read models stored beside it, the   *)
(* state in memory that commands are checked against, and what central      *)
(* sends it.  The service's mutex serves one call at a time, but a call is  *)
(* several transactions: it may fail, and the process may die, after any.   *)
(*                                                                          *)
(* There is one SKU and one line per command; a timestamp is a number, as   *)
(* HybridClock explains.                                                    *)
(***************************************************************************)
EXTENDS HybridClock, Sequences, FiniteSets, SequencesExt

CONSTANTS
    Second,     \* milliseconds of one second; 1000 in the code
    Skew,       \* author |-> how far its wall clock is ahead
    Plans       \* the cases checked, with the bounds of each: the log to start
                \* with (history), the commands tried and how often (commands,
                \* quota), the kinds of events central may reject (rejects), what
                \* else it may send (foreign), the versions of the program and whether
                \* an older one may run again (rollback), the failed calls and crashes
                \* (faults) and the wall time (ticks)

Central == 0
Home == 1    \* this node
Other == 2   \* another warehouse
Authors == {Central, Home, Other}

External == "external"
Places == {"recv", "pick", "there"}   \* "there" is a location of the other node
Ids == {"x", "y"}                     \* of receipts, reservations, transfers, counts
Move == [from : Places \cup {External}, to : Places \cup {External}, qty : Nat]

\* What an event says, by the kind of its payload.
Payload ==
    [kind : {"item"}, deleted : BOOLEAN]
    \cup [kind : {"opened", "line", "closed", "released", "consumed", "countclosed"}, id : Ids]
    \cup [kind : {"received", "arrived"}, id : Ids, move : Move]
    \cup [kind : {"putaway", "picked"}, move : Move]
    \cup [kind : {"adjusted"}, move : Move, failed : Ids \cup {"none"}]
    \cup [kind : {"reserved"}, id : Ids, at : Places, qty : Nat]
    \cup [kind : {"dispatched"}, id : Ids, move : Move, source : Authors, target : Authors]
    \cup [kind : {"started"}, id : Ids, at : Places]
    \cup [kind : {"counted"}, id : Ids, qty : Nat]

Moving == {"received", "putaway", "picked", "adjusted", "dispatched", "arrived"}

Event == [author : Authors, seq : Nat \ {0}, at : Nat, recorded : Nat,
          cause : Nat,        \* the event of Home it compensates, or 0
          says : Payload]

\* The commands of the node's API that record events.
Operations == {"receive", "close", "putaway", "pick", "reserve", "release", "consume",
               "dispatch", "arrive", "startcount", "count", "closecount"}
Command ==
    [op : {"close", "release", "consume", "closecount"}, id : Ids]
    \cup [op : {"receive", "reserve", "dispatch", "arrive"}, id : Ids, at : Places, qty : Nat]
    \cup [op : {"putaway"}, at : Places, to : Places, qty : Nat]
    \cup [op : {"pick"}, at : Places, qty : Nat]
    \cup [op : {"startcount"}, id : Ids, at : Places]
    \cup [op : {"count"}, id : Ids, qty : Nat]

ASSUME NodeServiceAssumption ==
    /\ Second \in Nat \ {0}
    /\ Skew \in [Authors -> Nat]
    /\ \A p \in Plans :
          /\ p.history \in Seq(Event)
          /\ \E n \in 0..Len(p.history) :   \* what this node wrote has no gap
                {e.seq : e \in {e \in Range(p.history) : e.author = Home}} = 1..n
          /\ \A e, f \in Range(p.history) : e.author = f.author /\ e.seq = f.seq => e = f
          /\ p.commands \subseteq Command
          /\ p.foreign \subseteq Payload /\ p.rejects \subseteq Moving
          /\ p.versions \subseteq Nat \ {0} /\ p.rollback \in BOOLEAN
          /\ p.quota \in Nat /\ p.faults \in Nat /\ p.ticks \in Nat

VARIABLES
    plan,      \* one of Plans
    log,       \* the events in the log
    table,     \* the read models and the applied markers, beside the log
    version,   \* the version of the program that built them
    code,      \* the version that runs, or last ran
    pc,        \* where the service is in the call it serves
    call,      \* the call it serves
    todo,      \* the events the call has still to apply
    memory,    \* the events the state in memory was built from
    seq,       \* the last sequence number given
    clk,       \* author |-> the last reading of its clock
    queue,     \* what central has queued for this node
    pulled,    \* how much of it this node has acknowledged
    lost,      \* events of commands that were recorded and reported failed
    now,       \* the wall time
    executed,  \* commands so far
    failures

disk == <<log, table, version>>
process == <<code, pc, call, todo, memory, seq>>
bounds == <<now, executed, failures>>
vars == <<plan, disk, process, clk, queue, pulled, lost, bounds>>

-----------------------------------------------------------------------------
(* Timestamps and order *)

Physical(a) == now + Skew[a]

Before(e, f) ==
    \/ e.at < f.at
    \/ e.at = f.at /\ e.author < f.author
    \/ e.at = f.at /\ e.author = f.author /\ e.seq < f.seq

\* A set of events in the order a replay takes them.
InOrder(S) ==
    [i \in 1..Cardinality(S) |->
        CHOOSE e \in S : Cardinality({f \in S : Before(f, e)}) = i - 1]

Own(S) == {e \in S : e.author = Home}
Highest(S) == CHOOSE m \in S \cup {0} : \A i \in S : i <= m
HighestSeq(S) == Highest({e.seq : e \in Own(S)})

-----------------------------------------------------------------------------
(* The state in memory: a replay of the log *)

Moved(stock, m) ==
    [l \in DOMAIN stock |-> stock[l] + (IF m.to = l THEN m.qty ELSE 0)
                                     - (IF m.from = l THEN m.qty ELSE 0)]

NoStock == [l \in Places |-> 0]
NoHold == [at |-> "recv", qty |-> 0, status |-> "none"]
NoTransfer == [source |-> Central, target |-> Central, dispatched |-> 0, received |-> 0,
               status |-> "none"]
NoCount == [at |-> "recv", status |-> "none", qty |-> -1]

NewState ==
    [listed |-> FALSE,                       \* the SKU is in the item master
     stock |-> NoStock,
     receipts |-> [i \in Ids |-> "none"],
     holds |-> [i \in Ids |-> NoHold],
     transfers |-> [i \in Ids |-> NoTransfer],
     pending |-> [i \in Ids |-> <<>>],       \* arrivals whose dispatch is not known
     counts |-> [i \in Ids |-> NoCount]]     \* qty < 0: not counted yet

\* A reservation or a count that exists changes status.
Status(rows, i, status) ==
    IF rows[i].status = "none" THEN rows ELSE [rows EXCEPT ![i].status = status]

SumOf(moves) == FoldLeft(LAMBDA sum, m : sum + m.qty, 0, moves)
Completed(t) ==
    [t EXCEPT !.status = IF @ = "in_flight" /\ t.received >= t.dispatched
                           THEN "complete" ELSE @]

\* The source's goods leave; arrivals that came first are folded in.
Dispatched(s, p) ==
    LET row == s.transfers[p.id]
        old == IF row.status = "none"
                 THEN [row EXCEPT !.source = p.source, !.target = p.target,
                                  !.status = "in_flight"]
                 ELSE row
        early == s.pending[p.id]
        t == [old EXCEPT !.dispatched = @ + p.move.qty, !.received = @ + SumOf(early)]
        left == IF p.source = Home THEN Moved(s.stock, p.move) ELSE s.stock
    IN [s EXCEPT !.transfers[p.id] = IF early = <<>> THEN t ELSE Completed(t),
                 !.pending[p.id] = <<>>,
                 !.stock = IF p.target = Home THEN FoldLeft(Moved, left, early) ELSE left]

\* The goods arrive at the destination only; kept back while the dispatch is unknown.
Arrived(s, p) ==
    LET row == s.transfers[p.id]
    IN IF row.status = "none"
         THEN [s EXCEPT !.pending[p.id] = Append(@, p.move)]
         ELSE [s EXCEPT
                 !.transfers[p.id] = Completed([row EXCEPT !.received = @ + p.move.qty]),
                 !.stock = IF row.target = Home THEN Moved(@, p.move) ELSE @]

Apply(s, e) ==
    LET p == e.says
    IN CASE p.kind = "item"        -> [s EXCEPT !.listed = ~ p.deleted]
         [] p.kind = "opened"      -> [s EXCEPT !.receipts[p.id] = "open"]
         [] p.kind = "line"        -> s
         [] p.kind = "closed"      ->
              [s EXCEPT !.receipts[p.id] = IF @ = "none" THEN @ ELSE "closed"]
         [] p.kind \in {"received", "putaway", "picked", "adjusted"} ->
              [s EXCEPT !.stock = Moved(@, p.move)]
         [] p.kind = "reserved"    ->
              [s EXCEPT !.holds[p.id] = [at |-> p.at, qty |-> p.qty, status |-> "active"]]
         [] p.kind \in {"released", "consumed"} ->
              [s EXCEPT !.holds = Status(@, p.id, p.kind)]
         [] p.kind = "dispatched"  -> Dispatched(s, p)
         [] p.kind = "arrived"     -> Arrived(s, p)
         [] p.kind = "started"     ->
              [s EXCEPT !.counts[p.id] = [at |-> p.at, status |-> "open", qty |-> -1]]
         [] p.kind = "counted"     ->
              [s EXCEPT !.counts[p.id].qty = IF s.counts[p.id].status = "none" THEN @ ELSE p.qty]
         [] p.kind = "countclosed" -> [s EXCEPT !.counts = Status(@, p.id, "closed")]

State(S) == FoldLeft(Apply, NewState, InOrder(S))

\* A transfer has one destination; goods leave a node in a dispatch of its own, and arrive
\* from the outside; the log to start with leaves no place below zero.
ASSUME TradingAssumption ==
    \A p \in Plans :
        /\ \E target \in [Ids -> Authors] :
              /\ \A e \in Range(p.history) :
                    e.says.kind = "dispatched" => e.says.target = target[e.says.id]
              /\ \A q \in p.foreign :
                    q.kind = "dispatched" => q.target = target[q.id] /\ q.source # Home
              /\ \A c \in p.commands : c.op = "dispatch" => target[c.id] = Other
        /\ \A q \in p.foreign \cup {e.says : e \in Range(p.history)} :
              q.kind = "arrived" => q.move.from = External
        /\ \A l \in Places : State(Range(p.history)).stock[l] >= 0

Available(s, l) ==
    s.stock[l] - SumOf(SetToSeq({[id |-> i, qty |-> s.holds[i].qty] :
        i \in {j \in Ids : s.holds[j].status = "active" /\ s.holds[j].at = l}}))

-----------------------------------------------------------------------------
(* Commands: the payloads to record, or none if the command is refused *)

Out(l, q) == [from |-> l, to |-> External, qty |-> q]
Into(l, q) == [from |-> External, to |-> l, qty |-> q]
Refused == <<>>

\* Mutant of OnHand: stock is not looked up before it is taken.
OnHandAnyhow(s, l, q) == TRUE

OnHand(s, l, q) == s.stock[l] >= q

DoReceive(s, c) ==
    IF ~ s.listed \/ s.receipts[c.id] = "closed" THEN Refused
    ELSE (IF s.receipts[c.id] = "none" THEN <<[kind |-> "opened", id |-> c.id]>> ELSE <<>>)
         \o <<[kind |-> "line", id |-> c.id],
              [kind |-> "received", id |-> c.id, move |-> Into(c.at, c.qty)]>>

DoCloseReceipt(s, c) ==
    IF s.receipts[c.id] # "open" THEN Refused ELSE <<[kind |-> "closed", id |-> c.id]>>

DoPutAway(s, c) ==
    IF ~ s.listed \/ ~ OnHand(s, c.at, c.qty) THEN Refused
    ELSE <<[kind |-> "putaway", move |-> [from |-> c.at, to |-> c.to, qty |-> c.qty]]>>

DoPick(s, c) ==
    IF ~ s.listed \/ ~ OnHand(s, c.at, c.qty) THEN Refused
    ELSE <<[kind |-> "picked", move |-> Out(c.at, c.qty)]>>

DoReserve(s, c) ==
    IF ~ s.listed \/ s.holds[c.id].status # "none" \/ Available(s, c.at) < c.qty THEN Refused
    ELSE <<[kind |-> "reserved", id |-> c.id, at |-> c.at, qty |-> c.qty]>>

DoEndHold(s, c, kind) ==
    IF s.holds[c.id].status # "active" THEN Refused ELSE <<[kind |-> kind, id |-> c.id]>>

DoDispatchTransfer(s, c) ==
    IF s.transfers[c.id].status # "none" \/ ~ s.listed \/ ~ OnHand(s, c.at, c.qty) THEN Refused
    ELSE <<[kind |-> "dispatched", id |-> c.id, move |-> Out(c.at, c.qty),
            source |-> Home, target |-> Other]>>

DoReceiveTransfer(s, c) ==
    IF s.transfers[c.id].status # "in_flight" \/ ~ s.listed THEN Refused
    ELSE <<[kind |-> "arrived", id |-> c.id, move |-> Into(c.at, c.qty)]>>

DoStartCount(s, c) ==
    IF s.counts[c.id].status # "none" THEN Refused
    ELSE <<[kind |-> "started", id |-> c.id, at |-> c.at]>>

DoCountLine(s, c) ==
    IF s.counts[c.id].status # "open" \/ ~ s.listed THEN Refused
    ELSE <<[kind |-> "counted", id |-> c.id, qty |-> c.qty]>>

Adjustment(m) == <<[kind |-> "adjusted", move |-> m, failed |-> "none"]>>

\* Mutant of Variance: a shortage is booked as a negative surplus.
VarianceSigned(l, diff) == Adjustment(Into(l, diff))

\* What a count found is booked as a movement from or to the outside.
Variance(l, diff) == Adjustment(IF diff > 0 THEN Into(l, diff) ELSE Out(l, -diff))

DoCloseCount(s, c) ==
    LET count == s.counts[c.id]
        diff == count.qty - s.stock[count.at]
        booked == IF count.qty < 0 \/ diff = 0 THEN <<>> ELSE Variance(count.at, diff)
    IN IF count.status # "open" THEN Refused
       ELSE Append(booked, [kind |-> "countclosed", id |-> c.id])

Do(s, c) ==
    CASE c.op = "receive"    -> DoReceive(s, c)
      [] c.op = "close"      -> DoCloseReceipt(s, c)
      [] c.op = "putaway"    -> DoPutAway(s, c)
      [] c.op = "pick"       -> DoPick(s, c)
      [] c.op = "reserve"    -> DoReserve(s, c)
      [] c.op = "release"    -> DoEndHold(s, c, "released")
      [] c.op = "consume"    -> DoEndHold(s, c, "consumed")
      [] c.op = "dispatch"   -> DoDispatchTransfer(s, c)
      [] c.op = "arrive"     -> DoReceiveTransfer(s, c)
      [] c.op = "startcount" -> DoStartCount(s, c)
      [] c.op = "count"      -> DoCountLine(s, c)
      [] c.op = "closecount" -> DoCloseCount(s, c)


-----------------------------------------------------------------------------
(* The read models *)

Nobody == Central   \* the ends of a transfer only known from an arrival
NoFlag == [status |-> "none", qty |-> 0, at |-> 0]

NoRows ==
    [stock_on_hand |-> NoStock,
     reservations |-> [i \in Ids |-> NoHold],
     exceptions |-> [compensations |-> {}, negative |-> [l \in Places |-> NoFlag]],
     transfers |-> [i \in Ids |-> NoTransfer],
     key_touched |-> [l \in Places |-> -1],   \* -1: no row
     projection_applied |-> {}]

\* Mutant of Tables: the list of version 1.
TablesOf1 == <<"stock_on_hand", "reservations", "projection_applied">>

\* In the order Rebuild clears them.
Tables == <<"stock_on_hand", "reservations", "exceptions", "transfers", "key_touched",
            "projection_applied">>

Id(e) == <<e.author, e.seq>>
IsApplied(t, e) == Id(e) \in t.projection_applied

\* Mutant of Here: what the other node recorded moves stock here too.
Anywhere(t, p) == TRUE

\* The event moved stock at this node, and was not sent for its paperwork only.
Here(t, p) ==
    CASE p.kind = "dispatched" -> p.source = Home
      [] p.kind = "arrived"    -> t.transfers[p.id].target \in {Nobody, Home}
      [] OTHER                 -> TRUE

ApplyStock(t, p) ==
    IF p.kind \in Moving /\ Here(t, p) THEN Moved(t.stock_on_hand, p.move) ELSE t.stock_on_hand

ApplyReservation(t, p) ==
    CASE p.kind = "reserved" ->
           [t.reservations EXCEPT ![p.id] = [at |-> p.at, qty |-> p.qty, status |-> "active"]]
      [] p.kind \in {"released", "consumed"} -> Status(t.reservations, p.id, p.kind)
      [] OTHER -> t.reservations

ApplyTransfer(t, p) ==
    CASE p.kind = "dispatched" ->
           [t.transfers EXCEPT ![p.id] =
              [source |-> p.source, target |-> p.target, dispatched |-> p.move.qty,
               received |-> @.received,
               status |-> IF @.status = "none" THEN "in_flight"
                          ELSE IF @.received >= p.move.qty THEN "complete" ELSE @.status]]
      [] p.kind = "arrived" ->
           LET row == t.transfers[p.id]
               total == row.received + p.move.qty
           IN [t.transfers EXCEPT ![p.id] =
                 [row EXCEPT !.received = total,
                             !.status = IF row.status = "none" THEN "in_flight"
                                        ELSE IF row.dispatched > 0 /\ total >= row.dispatched
                                          THEN "complete" ELSE row.status]]
      [] p.kind = "adjusted" /\ p.failed # "none" -> Status(t.transfers, p.failed, "failed")
      [] OTHER -> t.transfers

\* Times are compared as text, whose fraction of a second has no trailing zeros: a whole
\* second sorts after its own fractions.
TextOrder(time) == IF time % Second = 0 THEN time + Second - 1 ELSE time - 1

\* The last, as text, of the times at which stock moved at l, in whatever order they come.
Touch(t, l, e) ==
    IF TextOrder(t.key_touched[l]) < TextOrder(e.recorded) THEN e.recorded ELSE t.key_touched[l]

\* A place that fell below zero is flagged; one that did not resolves its flag.
Flagged(flag, qty, at) ==
    IF qty < 0 THEN [status |-> "open", qty |-> qty, at |-> at]
    ELSE IF flag.status = "none" THEN flag ELSE [flag EXCEPT !.status = "resolved", !.qty = qty]

\* The places here at which an event moved stock.
Touched(p) == IF p.kind \in Moving THEN {p.move.from, p.move.to} \ {External} ELSE {}

\* Of the events central emits against one of this node's, operators see the adjustment.
RecordCompensation(t, e) ==
    IF e.says.kind = "adjusted" THEN t.exceptions.compensations \cup {Id(e)}
    ELSE t.exceptions.compensations

RefreshNegatives(t, e, stock) ==
    [l \in Places |->
        LET flag == t.exceptions.negative[l]
        IN IF l \in Touched(e.says) THEN Flagged(flag, stock[l], Touch(t, l, e)) ELSE flag]

ApplyException(t, e, stock) ==
    [compensations |-> IF e.cause > 0 THEN RecordCompensation(t, e)
                       ELSE t.exceptions.compensations,
     negative |-> RefreshNegatives(t, e, stock)]

\* Set.Apply: one transaction.
Project(t, e) ==
    LET p == e.says
        stock == ApplyStock(t, p)
    IN [stock_on_hand |-> stock,
        reservations |-> ApplyReservation(t, p),
        transfers |-> ApplyTransfer(t, p),
        exceptions |-> ApplyException(t, e, stock),
        key_touched |-> [l \in Places |-> IF l \in Touched(p)
                            THEN Touch(t, l, e) ELSE t.key_touched[l]],
        projection_applied |-> t.projection_applied \cup {Id(e)}]

Unapplied(events) ==
    FoldLeft(LAMBDA left, e : IF IsApplied(table, e) THEN left ELSE Append(left, e), <<>>, events)

\* Mutant of ToCatchUp: what came from elsewhere is taken to be sent again.
OwnToCatchUp == Unapplied(InOrder(Own(log)))

ToCatchUp == Unapplied(InOrder(log))

-----------------------------------------------------------------------------
(* Starting and stopping *)

Idle == [op |-> "none", events |-> {}, upto |-> 0]

Init ==
    /\ plan \in Plans
    /\ log = Range(plan.history)
    /\ table = NoRows /\ version = 0
    /\ code = 0 /\ pc = "down" /\ call = Idle /\ todo = <<>> /\ memory = {} /\ seq = 0
    /\ clk = [a \in Authors |-> 0]
    /\ queue = <<>> /\ pulled = 0
    /\ lost = {}
    /\ now = 0 /\ executed = 0 /\ failures = 0

\* Mutant of LastReading: the clock starts again from this node's own events.
LastOwnReading == Highest({e.at : e \in Own(log)})

LastReading == Highest({e.at : e \in log})

\* The process starts, in some version of the program; the log's counters are recovered.
Open ==
    /\ pc = "down"
    /\ code' \in plan.versions /\ (code' >= code \/ plan.rollback)
    /\ seq' = HighestSeq(log)
    /\ clk' = [clk EXCEPT ![Home] = LastReading]
    /\ IF version = code' THEN pc' = "catchup" /\ todo' = ToCatchUp
       ELSE pc' = "clear" /\ todo' = <<>>
    /\ UNCHANGED <<plan, disk, call, memory, queue, pulled, lost, bounds>>

\* Rebuild: one table after the other, then a replay of the whole log.
Clear ==
    /\ pc = "clear"
    /\ LET full == {i \in DOMAIN Tables : table[Tables[i]] # NoRows[Tables[i]]}
       IN IF full = {}
            THEN /\ pc' = "catchup" /\ todo' = ToCatchUp
                 /\ UNCHANGED table
            ELSE LET first == Tables[CHOOSE i \in full : \A k \in full : i <= k]
                 IN /\ table' = [table EXCEPT ![first] = NoRows[first]]
                    /\ UNCHANGED <<pc, todo>>
    /\ UNCHANGED <<plan, log, version, code, call, memory, seq, clk, queue, pulled, lost, bounds>>

\* CatchUp, and the loop of Service.apply.
ApplyNext ==
    /\ pc \in {"catchup", "apply"} /\ todo # <<>>
    /\ table' = Project(table, Head(todo))
    /\ todo' = Tail(todo)
    /\ UNCHANGED <<plan, log, version, code, pc, call, memory, seq, clk, queue, pulled, lost, bounds>>

\* The read models are complete: a rebuild stores its version, and the state in memory
\* is built.
Opened ==
    /\ pc = "catchup" /\ todo = <<>>
    /\ IF version # code THEN version' = code /\ UNCHANGED <<pc, memory>>
       ELSE pc' = "up" /\ memory' = log /\ UNCHANGED version
    /\ UNCHANGED <<plan, log, table, code, call, todo, seq, clk, queue, pulled, lost, bounds>>

\* The process dies, or cannot start; a failed store call while it starts is the same.
Crash ==
    /\ pc # "down" /\ failures < plan.faults
    /\ pc' = "down" /\ call' = Idle /\ todo' = <<>> /\ memory' = {} /\ seq' = 0
    /\ clk' = [clk EXCEPT ![Home] = 0]
    /\ failures' = failures + 1
    /\ UNCHANGED <<plan, disk, code, queue, pulled, lost, now, executed>>

-----------------------------------------------------------------------------
(* Calls *)

\* The events of payloads, sealed one after the other.
Sealed(payloads) ==
    LET reading[i \in 0..Len(payloads)] ==
          IF i = 0 THEN clk[Home] ELSE Tick(reading[i - 1], Physical(Home))
    IN [i \in DOMAIN payloads |->
          [author |-> Home, seq |-> seq + i, at |-> reading[i], recorded |-> Physical(Home),
           cause |-> 0, says |-> payloads[i]]]

\* A command is checked against the state in memory and recorded in one transaction.
Execute(c) ==
    /\ pc = "up" /\ executed < plan.quota
    /\ LET events == Sealed(Do(State(memory), c))
       IN /\ events # <<>>
          /\ log' = log \cup Range(events)
          /\ seq' = seq + Len(events)
          /\ clk' = [clk EXCEPT ![Home] = Last(events).at]
          /\ call' = [op |-> "execute", events |-> Range(events), upto |-> 0]
          /\ todo' = events
    /\ pc' = "apply"
    /\ executed' = executed + 1
    /\ UNCHANGED <<plan, table, version, code, memory, queue, pulled, lost, now, failures>>

ToApply(batch) == Unapplied(batch)

\* A batch of the queue, which may start with what was sent before, is stored and applied.
Ingest(i, j) ==
    LET batch == SubSeq(queue, i, j)
    IN /\ pc = "up"
       /\ log' = log \cup Range(batch)
       /\ clk' = [clk EXCEPT ![Home] =
                     FoldLeft(LAMBDA h, e : Merge(h, e.at, Physical(Home)), @, batch)]
       /\ seq' = Max2(seq, HighestSeq(log'))
       /\ call' = [op |-> "ingest", events |-> {}, upto |-> j]
       /\ todo' = ToApply(batch)
       /\ pc' = "apply"
       /\ UNCHANGED <<plan, table, version, code, memory, queue, pulled, lost, bounds>>

Pull == \E i \in {pulled, pulled + 1} \ {0} : \E j \in pulled + 1 .. Len(queue) : Ingest(i, j)

\* Everything is applied: the state is rebuilt from the log and the call returns.
Return ==
    /\ pc = "apply" /\ todo = <<>>
    /\ memory' = log
    /\ pulled' = IF call.op = "ingest" THEN call.upto ELSE pulled
    /\ pc' = "up" /\ call' = Idle
    /\ UNCHANGED <<plan, disk, code, todo, seq, clk, queue, lost, bounds>>

\* A read model's transaction or the replay fails: the call returns the error.
FailApply ==
    /\ pc = "apply" /\ failures < plan.faults
    /\ lost' = lost \cup call.events
    /\ pc' = "up" /\ call' = Idle /\ todo' = <<>>
    /\ failures' = failures + 1
    /\ UNCHANGED <<plan, disk, code, memory, seq, clk, queue, pulled, now, executed>>

-----------------------------------------------------------------------------
(* Central and the other node *)

NextSeq(a) == 1 + Highest({e.seq : e \in {f \in log \cup Range(queue) : f.author = a}})
From(a, at, cause, p) ==
    [author |-> a, seq |-> NextSeq(a), at |-> at, recorded |-> Physical(a), cause |-> cause,
     says |-> p]

Send(e) ==
    /\ queue' = Append(queue, e)
    /\ clk' = [clk EXCEPT ![e.author] = e.at]
    /\ UNCHANGED <<plan, disk, process, pulled, lost, bounds>>

Queued(kind, id) ==
    {i \in DOMAIN queue : queue[i].says.kind = kind /\ queue[i].says.id = id}

\* Central rejects an event of this node, and takes back all or part of what it moved.
Reject(e, qty) ==
    LET p == e.says
    IN /\ p.kind \in plan.rejects
       /\ \A i \in DOMAIN queue : queue[i].cause < e.seq   \* decided in order
       /\ p.kind \notin {"received", "arrived"} => qty = p.move.qty
       /\ p.kind = "dispatched" => Queued("arrived", p.id) = {}
       /\ Send(From(Central, Merge(clk[Central], e.at, Physical(Central)), e.seq,
            [kind |-> "adjusted",
             move |-> [from |-> p.move.to, to |-> p.move.from, qty |-> qty],
             failed |-> IF p.kind = "dispatched" THEN p.id ELSE "none"]))

\* The item master changes, or the other node sends a transfer here.
Forward(p) ==
    /\ p \in plan.foreign
    /\ p \notin {queue[i].says : i \in DOMAIN queue}
    /\ \/ /\ p.kind = "item"
          /\ Send(From(Central, Tick(clk[Central], Physical(Central)), 0, p))
       \/ /\ p.kind = "dispatched"
          /\ Send(From(Other, Tick(clk[Other], Physical(Other)), 0, p))

\* The other node receives this node's transfer, once central let it pass.
ForwardArrival(p, e) ==
    /\ p \in plan.foreign /\ p.kind = "arrived"
    /\ p \notin {queue[i].says : i \in DOMAIN queue}
    /\ e.says.kind = "dispatched" /\ e.says.id = p.id
    /\ \A i \in DOMAIN queue : queue[i].cause # e.seq
    /\ LET seen == Merge(clk[Other], e.at, Physical(Other))
       IN Send(From(Other, Tick(seen, Physical(Other)), 0, p))

Clock ==
    /\ now < plan.ticks
    /\ now' = now + 1
    /\ UNCHANGED <<plan, disk, process, clk, queue, pulled, lost, executed, failures>>

\* No call is under way.
Wait == pc = "up" /\ UNCHANGED vars

-----------------------------------------------------------------------------
(* The specification *)

Service == Open \/ Clear \/ ApplyNext \/ Opened \/ Return

Next ==
    \/ Service
    \/ Crash
    \/ \E c \in plan.commands : Execute(c)
    \/ Pull
    \/ FailApply
    \/ \E e \in Own(log) : e.says.kind \in Moving /\ \E q \in 1..e.says.move.qty : Reject(e, q)
    \/ \E p \in plan.foreign : Forward(p)
    \/ \E p \in plan.foreign : \E e \in Own(log) : ForwardArrival(p, e)
    \/ Clock
    \/ Wait

Spec == Init /\ [][Next]_vars

\* Calls go on, the process is started again, and the client keeps pulling.
FairSpec == Spec /\ WF_vars(Service) /\ SF_vars(Pull)
=============================================================================
