----------------------------- MODULE StoreProofs -----------------------------
(***************************************************************************)
(* Proofs about central's store, for every set of nodes, envelopes, rows,   *)
(* calls and readings of the wall clock: its tables keep their keys, what   *)
(* central emits sorts last, and the tables implement Memory's maps.        *)
(***************************************************************************)
EXTENDS StoreProperties, TLAPS, FiniteSetTheorems, SequenceTheorems, WellFoundedInduction

-----------------------------------------------------------------------------
(* The rows of each table *)

EventRows == [node_id : Nodes \cup {CentralNode}, seq : Nat \ {0}, hlc : Nat,
              causation_node : Nat, causation_seq : Nat]
CursorRows == [node_id : Nodes, pushed_seq : Nat, delivered_ord : Nat]
QueueRows == [ord : Nat \ {0}, target_node : Nodes, node_id : Nat, seq : Nat]
TransitRows == [transfer : Nat, sku : Nat, from : Nodes, to : Nodes, dispatched : Nat,
                received : Nat, on : Nat, failed : BOOLEAN]
Marks == [event : NodeIds, sku : Nat, qty : Nat]

Tables ==
    [events : SUBSET EventRows, cursors : SUBSET CursorRows, outbound : SUBSET QueueRows,
     drawn : Nat, items : SUBSET Master, purchase_orders : SUBSET Orders,
     nodes : SUBSET Nodes, node_rejects : SUBSET [node_id : Nodes, sku : Nat],
     receipts : SUBSET Facts, in_transit : SUBSET TransitRows,
     transfer_receipts : SUBSET Marks, decisions : SUBSET Outcomes]

KeysHold(d) ==
    /\ Unique(d.events, {"node_id", "seq"})
    /\ Unique(d.cursors, {"node_id"})
    /\ Unique(d.outbound, {"ord"}) /\ Unique(d.outbound, {"target_node", "node_id", "seq"})
    /\ Unique(d.items, {"sku"})
    /\ Unique(d.purchase_orders, {"po", "sku"})
    /\ Unique(d.receipts, {"event"})
    /\ Unique(d.in_transit, TransitKey)
    /\ Unique(d.transfer_receipts, {"event", "sku"})
    /\ Unique(d.decisions, {"event"})

\* A node's events are as it sent them.
LogFits(d) == \A r \in d.events : r.node_id # CentralNode => Envelope(r) \in Sent

\* Positions come from the sequence, a queued event is stored, and what was delivered
\* had been drawn.
QueueFits(d) ==
    /\ IsFiniteSet(d.outbound)
    /\ \A r \in d.outbound : /\ r.ord <= d.drawn
                             /\ \E e \in d.events : e.node_id = r.node_id /\ e.seq = r.seq
    /\ \A r \in d.cursors : r.delivered_ord <= d.drawn

RefusalsFit(d) == \A r \in d.node_rejects : r.node_id \in d.nodes

DbFits(d) == d \in Tables /\ KeysHold(d) /\ LogFits(d) /\ QueueFits(d) /\ RefusalsFit(d)

\* Central's own events: later ones have later readings, and the process is past all.
Own(d) == {r \in d.events : r.node_id = CentralNode}
ClockFits(d, c) ==
    /\ c \in [seq : Nat, hl : Nat]
    /\ \A r \in Own(d) : r.seq <= c.seq /\ r.hlc <= c.hl
    /\ \A r, s \in Own(d) : r.seq < s.seq => r.hlc < s.hlc

\* The two transactions, as far as they have come.
MarkOf(a) == [event |-> a.event, sku |-> a.sku, qty |-> a.qty]
Folding(d, a) ==
    [NoTx EXCEPT !.of = "AddReceived", !.arrival = {a},
                 !.tables = [d EXCEPT !.transfer_receipts = @ \cup {MarkOf(a)}]]
Registered(d, n, refused) ==
    [d EXCEPT !.nodes = @ \cup {n},
              !.node_rejects = {r \in @ : r.node_id # n}
                               \cup {[node_id |-> n, sku |-> s] : s \in refused}]
Registering(d, n, refused, rest) ==
    [NoTx EXCEPT !.of = "RegisterNode", !.node = n, !.rejects = rest,
                 !.tables = Registered(d, n, refused \ rest)]

TxFits ==
    \/ tx = NoTx
    \/ \E a \in Arrived :
          /\ tx = Folding(db, a)
          /\ Conflicting(db.transfer_receipts, MarkOf(a), {"event", "sku"}) = {}
    \/ \E n \in Nodes, refused \in Refusals : \E rest \in SUBSET refused :
          tx = Registering(db, n, refused, rest)

StoreInv ==
    /\ DbFits(db) /\ ClockFits(db, central) /\ TxFits
    /\ workload \in Workloads /\ calls \in 0..MaxCalls

-----------------------------------------------------------------------------
(* Statements *)

\* An insert that ignores a conflict keeps the key.
LEMMA Inserted ==
    ASSUME NEW T, NEW row, NEW key, Unique(T, key)
    PROVE  /\ Unique(InsertNew(T, row, key), key)
           /\ T \subseteq InsertNew(T, row, key)
           /\ InsertNew(T, row, key) \subseteq T \cup {row}
  BY DEF Unique, InsertNew, Conflicting

\* What an upsert makes of the rows it meets.
Set(r, row, set) == [column \in DOMAIN r |-> IF column \in set THEN row[column] ELSE r[column]]

LEMMA UpsertIs ==
    ASSUME NEW T, NEW row, NEW key, NEW set
    PROVE  Upsert(T, row, key, set) =
             IF Conflicting(T, row, key) = {} THEN T \cup {row}
             ELSE (T \ Conflicting(T, row, key))
                  \cup {Set(r, row, set) : r \in Conflicting(T, row, key)}
  BY DEF Upsert, Set

LEMMA Upserted ==
    ASSUME NEW T, NEW row, NEW key, NEW set, Unique(T, key), key \cap set = {},
           \A r \in T : key \subseteq DOMAIN r
    PROVE  /\ Unique(Upsert(T, row, key, set), key)
           /\ \A u \in Upsert(T, row, key, set) :
                 \/ u = row
                 \/ u \in T
                 \/ \E r \in Conflicting(T, row, key) : u = Set(r, row, set)
  <1> DEFINE old == Conflicting(T, row, key)
             U == Upsert(T, row, key, set)
  <1>1. CASE old = {}
    BY <1>1, UpsertIs DEF Unique, Conflicting
  <1>2. CASE old # {}
    <2>1. U = (T \ old) \cup {Set(r, row, set) : r \in old}
      BY <1>2, UpsertIs
    <2>2. \A r \in old : \A column \in key : Set(r, row, set)[column] = row[column]
      BY DEF Set, Conflicting
    <2>3. \A r, s \in old : r = s
      BY DEF Unique, Conflicting
    <2>4. \A r \in T \ old : \E column \in key : r[column] # row[column]
      BY DEF Conflicting
    <2>5. Unique(U, key)
      <3> SUFFICES ASSUME NEW r \in U, NEW s \in U, \A column \in key : r[column] = s[column]
                   PROVE  r = s
        BY DEF Unique
      <3>1. CASE r \in T \ old /\ s \in T \ old
        BY <3>1 DEF Unique
      <3>2. CASE r \notin T \ old /\ s \notin T \ old
        BY <3>2, <2>1, <2>3
      <3>3. CASE (r \in T \ old) # (s \in T \ old)
        BY <3>3, <2>1, <2>2, <2>4
      <3> QED BY <3>1, <3>2, <3>3
    <2> QED BY <2>1, <2>5
  <1> QED BY <1>1, <1>2

\* Where the statement sets all that is not the key, the row takes the place of the old one.
LEMMA Replaced ==
    ASSUME NEW T, NEW row, NEW key, NEW set, NEW V, T \subseteq [key \cup set -> V],
           row \in [key \cup set -> V], key \cap set = {}
    PROVE  Upsert(T, row, key, set) = (T \ Conflicting(T, row, key)) \cup {row}
  <1>1. ASSUME NEW r \in Conflicting(T, row, key)
        PROVE  Set(r, row, set) = row
    <2>1. r \in [key \cup set -> V] /\ \A column \in key : r[column] = row[column]
      BY DEF Conflicting
    <2> QED BY <2>1 DEF Set
  <1> QED BY <1>1, UpsertIs

LEMMA LargestOf ==
    ASSUME NEW S \in SUBSET Nat, NEW bound \in Nat, \A x \in S : x <= bound
    PROVE  Largest(S) \in S \cup {0} /\ \A x \in S : x <= Largest(S)
  <1> DEFINE Above == {y \in Nat : \A x \in S : x <= y}
  <1>1. PICK y \in Above : \A z \in Above : ~ (z < y)
    <2>1. Above # {} /\ Above \subseteq Nat
      OBVIOUS
    <2>2. PICK y \in Above : \A z \in Above : ~ (<<z, y>> \in OpToRel(<, Nat))
      BY <2>1, NatLessThanWellFounded, WFMin
    <2> QED BY <2>2 DEF OpToRel
  <1>2. y \in S \cup {0}
    <2> SUFFICES ASSUME y \notin S, y # 0 PROVE FALSE
      OBVIOUS
    <2>1. y - 1 \in Above
      OBVIOUS
    <2> QED BY <1>1, <2>1
  <1>3. \E x \in S \cup {0} : \A z \in S : z <= x
    BY <1>2
  <1> QED BY <1>3 DEF Largest

LEMMA LargestSingle ==
    ASSUME NEW n \in Nat PROVE Largest({n}) = n /\ Largest({}) = 0
  BY LargestOf

-----------------------------------------------------------------------------
(* The log *)

LEMMA NodeNumbers ==
    /\ \A n \in Nodes : n \in Nat /\ n # CentralNode
    /\ CentralNode \in Nat
  <1>1. Nodes \subseteq Nat \ {0}
    BY StoreCallsAssumption DEF CentralNode
  <1> QED BY <1>1 DEF CentralNode

LEMMA EventFacts ==
    /\ \A r \in EventRows :
          /\ Envelope(r).id = <<r.node_id, r.seq>> /\ Envelope(r).at = r.hlc
          /\ Envelope(r).cause = <<r.causation_node, r.causation_seq>>
          /\ EventRow(Envelope(r)) = r
    /\ \A e \in [id : Nat \X Nat, at : Nat, cause : Nat \X Nat] : Envelope(EventRow(e)) = e
  BY DEF EventRows, Envelope, EventRow

LEMMA SentFacts ==
    \A e \in Sent :
       /\ EventRow(e) \in EventRows /\ EventRow(e).node_id # CentralNode
       /\ Envelope(EventRow(e)) = e
       /\ e \in [id : NodeIds, at : Nat, cause : {NoEvent}]
  <1> SUFFICES ASSUME NEW e \in Sent
               PROVE  /\ EventRow(e) \in EventRows /\ EventRow(e).node_id # CentralNode
                      /\ Envelope(EventRow(e)) = e
                      /\ e \in [id : NodeIds, at : Nat, cause : {NoEvent}]
    OBVIOUS
  <1>1. e \in [id : NodeIds, at : Nat, cause : {NoEvent}] /\ Nodes \subseteq Nat \ {0}
    BY StoreCallsAssumption DEF CentralNode
  <1>2. PICK n \in Nodes, i \in Nat \ {0} : e.id = <<n, i>>
    <2>1. e.id \in Nodes \X (Nat \ {0})
      BY <1>1 DEF NodeIds
    <2> QED BY <2>1
  <1>3. e = [id |-> <<n, i>>, at |-> e.at, cause |-> <<0, 0>>]
    BY <1>1, <1>2 DEF NoEvent, CentralNode
  <1> QED BY <1>1, <1>3 DEF EventRows, EventRow, Envelope, CentralNode

\* An identity is that of one event.
LEMMA StoredOnce ==
    ASSUME DbFits(db)
    PROVE  /\ \A e \in Stored : EventRow(e) \in db.events /\ Envelope(EventRow(e)) = e
           /\ \A e \in Stored : e.at \in Nat /\ e.id \in Nat \X Nat
           /\ \A e, f \in Stored : e.id = f.id => e = f
  <1>1. db.events \subseteq EventRows /\ Unique(db.events, {"node_id", "seq"})
    BY DEF DbFits, Tables, KeysHold
  <1>2. \A r, s \in EventRows : Envelope(r).id = Envelope(s).id => r.node_id = s.node_id /\ r.seq = s.seq
    BY EventFacts
  <1>3. \A r, s \in db.events : Envelope(r).id = Envelope(s).id => r = s
    BY <1>1, <1>2 DEF Unique
  <1>4. Nodes \cup {CentralNode} \subseteq Nat
    BY StoreCallsAssumption DEF CentralNode
  <1>5. ASSUME NEW r \in db.events
        PROVE  /\ EventRow(Envelope(r)) = r
               /\ Envelope(r).at \in Nat /\ Envelope(r).id \in Nat \X Nat
    <2>1. r \in EventRows
      BY <1>1
    <2>2. r.hlc \in Nat /\ r.node_id \in Nat /\ r.seq \in Nat
      BY <2>1, <1>4 DEF EventRows
    <2>3. Envelope(r).id = <<r.node_id, r.seq>> /\ Envelope(r).at = r.hlc
          /\ EventRow(Envelope(r)) = r
      BY <2>1, EventFacts
    <2> QED BY <2>2, <2>3
  <1>6. \A e \in Stored : \E r \in db.events : e = Envelope(r)
    BY DEF Stored
  <1> QED BY <1>3, <1>5, <1>6

LEMMA HlcFacts ==
    ASSUME DbFits(db)
    PROVE  /\ \A e \in Stored : HlcOf(e.id) = e.at
           /\ \A id : HlcOf(id) \in Nat
           /\ \A id : (\A e \in Stored : e.id # id) => HlcOf(id) = 0
  <1>1. ASSUME NEW e \in Stored PROVE HlcOf(e.id) = e.at
    <2>1. {f.at : f \in {f \in Stored : f.id = e.id}} = {e.at} /\ e.at \in Nat
      BY StoredOnce
    <2> QED BY <2>1, LargestSingle DEF HlcOf
  <1>2. ASSUME NEW id, \A e \in Stored : e.id # id PROVE HlcOf(id) = 0
    <2>1. {f.at : f \in {f \in Stored : f.id = id}} = {}
      BY <1>2
    <2> QED BY <2>1, LargestSingle DEF HlcOf
  <1>3. \A e \in Stored : e.at \in Nat
    BY StoredOnce
  <1>4. ASSUME NEW id PROVE HlcOf(id) \in Nat
    <2>1. CASE \E e \in Stored : e.id = id
      BY <2>1, <1>1, <1>3
    <2> QED BY <2>1, <1>2
  <1> QED BY <1>1, <1>2, <1>4

\* Products of naturals by the number of readings in a millisecond.
LEMMA Multiples ==
    \A w, v \in Nat : /\ w * Counters \in Nat
                      /\ w < v => w * Counters + Counters <= v * Counters
  BY HybridClockAssumption

Counter(h) == h % Counters

LEMMA Quotients ==
    \A h \in Nat : /\ Wall(h) \in Nat /\ Counter(h) \in 0..(Counters - 1)
                   /\ h = Wall(h) * Counters + Counter(h)
  BY HybridClockAssumption DEF Wall, Counter

\* A new reading is later than the last one and than that of the event it answers.
LEMMA Readings ==
    ASSUME NEW prev \in Nat, NEW seen \in Nat, NEW now \in Walls
    PROVE  /\ Tick(prev, now) \in Nat /\ prev < Tick(prev, now)
           /\ Merge(prev, seen, now) \in Nat
           /\ prev < Merge(prev, seen, now) /\ seen < Merge(prev, seen, now)
  <1>1. now \in Nat /\ Counters \in Nat \ {0}
    BY StoreCallsAssumption, HybridClockAssumption
  <1>2. \A h \in Nat : now > Wall(h) => h < now * Counters
    <2> SUFFICES ASSUME NEW h \in Nat, now > Wall(h) PROVE h < now * Counters
      OBVIOUS
    <2>1. Wall(h) * Counters + Counters <= now * Counters /\ Wall(h) * Counters \in Nat
          /\ now * Counters \in Nat
      BY <1>1, Quotients, Multiples
    <2>2. h = Wall(h) * Counters + Counter(h) /\ Counter(h) \in 0..(Counters - 1)
      BY Quotients
    <2> QED BY <1>1, <2>1, <2>2
  <1>3. now * Counters \in Nat
    BY <1>1, Multiples
  <1> QED BY <1>1, <1>2, <1>3 DEF Tick, Merge, Max2

LEMMA NextReadingFacts ==
    ASSUME DbFits(db), central \in [seq : Nat, hl : Nat], NEW cause, NEW now \in Walls
    PROVE  /\ NextReading(cause, now) \in Nat /\ central.hl < NextReading(cause, now)
           /\ \A f \in Stored : cause # NoEvent /\ f.id = cause => f.at < NextReading(cause, now)
  <1>1. central.hl \in Nat /\ HlcOf(cause) \in Nat
    BY HlcFacts
  <1>2. \A f \in Stored : f.id = cause => HlcOf(cause) = f.at
    BY HlcFacts
  <1> QED BY <1>1, <1>2, Readings DEF NextReading

-----------------------------------------------------------------------------
(* What a statement leaves the tables in *)

LEMMA InitFits == DbFits(Schema)
  <1>1. IsFiniteSet({})
    BY FS_EmptySet
  <1> QED BY <1>1 DEF DbFits, Schema, Tables, KeysHold, LogFits, QueueFits, RefusalsFit, Unique

LEMMA EventInserted ==
    ASSUME NEW d, DbFits(d), NEW row \in EventRows,
           row.node_id # CentralNode => Envelope(row) \in Sent
    PROVE  DbFits([d EXCEPT !.events = InsertNew(@, row, {"node_id", "seq"})])
  <1> DEFINE T == InsertNew(d.events, row, {"node_id", "seq"})
             new == [d EXCEPT !.events = T]
  <1>1. d \in Tables /\ Unique(d.events, {"node_id", "seq"})
    BY DEF DbFits, KeysHold
  <1>2. Unique(T, {"node_id", "seq"}) /\ d.events \subseteq T /\ T \subseteq d.events \cup {row}
    BY <1>1, Inserted
  <1> HIDE DEF T
  <1>3. new \in Tables
    BY <1>1, <1>2 DEF Tables
  <1>4. KeysHold(new)
    BY <1>1, <1>2 DEF DbFits, KeysHold, Tables
  <1>5. LogFits(new)
    BY <1>1, <1>2 DEF DbFits, LogFits, Tables
  <1>6. QueueFits(new)
    BY <1>1, <1>2 DEF DbFits, QueueFits, Tables
  <1>7. RefusalsFit(new)
    BY <1>1 DEF DbFits, RefusalsFit, Tables
  <1> QED BY <1>3, <1>4, <1>5, <1>6, <1>7 DEF DbFits, T

LEMMA CursorSet ==
    ASSUME NEW d, DbFits(d), NEW row \in CursorRows, row.delivered_ord <= d.drawn,
           NEW column \in {"pushed_seq", "delivered_ord"}
    PROVE  DbFits([d EXCEPT !.cursors = Upsert(@, row, {"node_id"}, {column})])
  <1> DEFINE T == Upsert(d.cursors, row, {"node_id"}, {column})
             new == [d EXCEPT !.cursors = T]
  <1>1. d \in Tables /\ Unique(d.cursors, {"node_id"}) /\ d.cursors \subseteq CursorRows
    BY DEF DbFits, KeysHold, Tables
  <1>2. /\ Unique(T, {"node_id"})
        /\ \A u \in T : \/ u = row \/ u \in d.cursors
                        \/ \E r \in Conflicting(d.cursors, row, {"node_id"}) : u = Set(r, row, {column})
    <2>1. \A r \in d.cursors : {"node_id"} \subseteq DOMAIN r
      BY <1>1 DEF CursorRows
    <2>2. {"node_id"} \cap {column} = {}
      OBVIOUS
    <2> DEFINE key == {"node_id"}
               set == {column}
               C == d.cursors
    <2>3. Unique(C, key) /\ key \cap set = {} /\ \A r \in C : key \subseteq DOMAIN r
      BY <1>1, <2>1, <2>2
    <2>4. T = Upsert(C, row, key, set)
      OBVIOUS
    <2> HIDE DEF T, key, set, C
    <2>5. /\ Unique(T, key)
          /\ \A u \in T : \/ u = row \/ u \in C
                          \/ \E r \in Conflicting(C, row, key) : u = Set(r, row, set)
      BY <2>3, <2>4, Upserted
    <2> QED BY <2>5 DEF key, set, C
  <1>3. ASSUME NEW u \in T PROVE u \in CursorRows /\ u.delivered_ord <= d.drawn
    <2>1. CASE u = row
      BY <2>1
    <2>2. CASE u \in d.cursors
      BY <2>2, <1>1 DEF DbFits, QueueFits
    <2>3. ASSUME NEW r \in d.cursors, u = Set(r, row, {column})
          PROVE  u \in CursorRows /\ u.delivered_ord <= d.drawn
      <3>1. r \in CursorRows /\ r.delivered_ord <= d.drawn
        BY <1>1 DEF DbFits, QueueFits
      <3>2. u = [r EXCEPT ![column] = row[column]]
        BY <2>3, <3>1 DEF Set, CursorRows
      <3> QED BY <3>1, <3>2 DEF CursorRows
    <2> QED BY <1>2, <2>1, <2>2, <2>3 DEF Conflicting
  <1> HIDE DEF T
  <1>4. new \in Tables
    BY <1>1, <1>3 DEF Tables
  <1>5. KeysHold(new) /\ LogFits(new) /\ RefusalsFit(new)
    BY <1>1, <1>2 DEF DbFits, KeysHold, LogFits, RefusalsFit, Tables
  <1>6. QueueFits(new)
    BY <1>1, <1>3 DEF DbFits, QueueFits, Tables
  <1> QED BY <1>4, <1>5, <1>6 DEF DbFits, T

QueueRow(d, target, env) ==
    [ord |-> d.drawn + 1, target_node |-> target, node_id |-> env.id[1], seq |-> env.id[2]]
Queueing(d, target, env) ==
    [d EXCEPT !.drawn = @ + 1,
              !.outbound = InsertNew(@, QueueRow(d, target, env), {"target_node", "node_id", "seq"})]

LEMMA Queues ==
    ASSUME NEW d, DbFits(d), NEW target \in Nodes, NEW e \in d.events
    PROVE  DbFits(Queueing(d, target, Envelope(e)))
  <1> DEFINE env == Envelope(e)
             row == QueueRow(d, target, env)
             T == InsertNew(d.outbound, row, {"target_node", "node_id", "seq"})
             new == [d EXCEPT !.drawn = @ + 1, !.outbound = T]
  <1>1. /\ d \in Tables /\ d.drawn \in Nat /\ d.outbound \subseteq QueueRows
        /\ Unique(d.outbound, {"target_node", "node_id", "seq"}) /\ Unique(d.outbound, {"ord"})
        /\ QueueFits(d)
    BY DEF DbFits, KeysHold, Tables
  <1>2. /\ Unique(T, {"target_node", "node_id", "seq"})
        /\ d.outbound \subseteq T /\ T \subseteq d.outbound \cup {row}
    BY <1>1, Inserted
  <1>3. env.id = <<e.node_id, e.seq>> /\ e.node_id \in Nat /\ e.seq \in Nat
    <2>1. e \in EventRows
      BY <1>1 DEF Tables
    <2>2. e.node_id \in Nodes \cup {CentralNode} /\ e.seq \in Nat
      BY <2>1 DEF EventRows
    <2>3. e.node_id \in Nat
      BY <2>2, NodeNumbers
    <2> QED BY <2>1, <2>2, <2>3, EventFacts
  <1>4. /\ row \in QueueRows /\ row.ord = d.drawn + 1
        /\ row.node_id = e.node_id /\ row.seq = e.seq
    BY <1>1, <1>3 DEF QueueRow, QueueRows
  <1>5. IsFiniteSet(T)
    <2>1. IsFiniteSet(d.outbound \cup {row})
      BY <1>1, FS_AddElement DEF QueueFits
    <2> HIDE DEF T
    <2> QED BY <1>2, <2>1, FS_Subset
  <1> HIDE DEF T, row, env
  <1>6. \A r \in d.outbound : r.ord \in Nat /\ r.ord <= d.drawn
    BY <1>1 DEF QueueFits, QueueRows
  <1>7. Unique(T, {"ord"})
    BY <1>1, <1>2, <1>4, <1>6 DEF Unique
  <1>8. new \in Tables
    <2>1. T \subseteq QueueRows /\ d.drawn + 1 \in Nat
      BY <1>1, <1>2, <1>4
    <2> QED BY <1>1, <2>1 DEF Tables
  <1>9. KeysHold(new) /\ LogFits(new) /\ RefusalsFit(new)
    BY <1>1, <1>2, <1>7 DEF DbFits, KeysHold, LogFits, RefusalsFit, Tables
  <1>10. QueueFits(new)
    <2>1. new.outbound = T /\ new.events = d.events /\ new.cursors = d.cursors
          /\ new.drawn = d.drawn + 1
      BY <1>1 DEF Tables
    <2>2. ASSUME NEW r \in T
          PROVE  r.ord <= d.drawn + 1 /\ \E f \in d.events : f.node_id = r.node_id /\ f.seq = r.seq
      BY <1>1, <1>2, <1>4, <1>6 DEF QueueFits
    <2>3. \A r \in d.cursors : r.delivered_ord <= d.drawn + 1
      BY <1>1 DEF QueueFits, Tables, CursorRows
    <2> QED BY <1>5, <2>1, <2>2, <2>3 DEF QueueFits
  <1> QED BY <1>8, <1>9, <1>10 DEF DbFits, Queueing, T, row, env

\* A table that nothing else refers to may be any rows that keep its key.
LEMMA TableReplaced ==
    ASSUME NEW d, DbFits(d)
    PROVE  /\ \A T \in SUBSET Master :
                 Unique(T, {"sku"}) => DbFits([d EXCEPT !.items = T])
           /\ \A T \in SUBSET Orders :
                 Unique(T, {"po", "sku"}) => DbFits([d EXCEPT !.purchase_orders = T])
           /\ \A T \in SUBSET Facts :
                 Unique(T, {"event"}) => DbFits([d EXCEPT !.receipts = T])
           /\ \A T \in SUBSET TransitRows :
                 Unique(T, TransitKey) => DbFits([d EXCEPT !.in_transit = T])
           /\ \A T \in SUBSET Marks :
                 Unique(T, {"event", "sku"}) => DbFits([d EXCEPT !.transfer_receipts = T])
           /\ \A T \in SUBSET Outcomes :
                 Unique(T, {"event"}) => DbFits([d EXCEPT !.decisions = T])
  <1>1. ASSUME NEW T \in SUBSET Master, Unique(T, {"sku"}) PROVE DbFits([d EXCEPT !.items = T])
    BY <1>1 DEF DbFits, Tables, KeysHold, LogFits, QueueFits, RefusalsFit
  <1>2. ASSUME NEW T \in SUBSET Orders, Unique(T, {"po", "sku"})
        PROVE  DbFits([d EXCEPT !.purchase_orders = T])
    BY <1>2 DEF DbFits, Tables, KeysHold, LogFits, QueueFits, RefusalsFit
  <1>3. ASSUME NEW T \in SUBSET Facts, Unique(T, {"event"})
        PROVE  DbFits([d EXCEPT !.receipts = T])
    BY <1>3 DEF DbFits, Tables, KeysHold, LogFits, QueueFits, RefusalsFit
  <1>4. ASSUME NEW T \in SUBSET TransitRows, Unique(T, TransitKey)
        PROVE  DbFits([d EXCEPT !.in_transit = T])
    BY <1>4 DEF DbFits, Tables, KeysHold, LogFits, QueueFits, RefusalsFit
  <1>5. ASSUME NEW T \in SUBSET Marks, Unique(T, {"event", "sku"})
        PROVE  DbFits([d EXCEPT !.transfer_receipts = T])
    BY <1>5 DEF DbFits, Tables, KeysHold, LogFits, QueueFits, RefusalsFit
  <1>6. ASSUME NEW T \in SUBSET Outcomes, Unique(T, {"event"})
        PROVE  DbFits([d EXCEPT !.decisions = T])
    BY <1>6 DEF DbFits, Tables, KeysHold, LogFits, QueueFits, RefusalsFit
  <1> QED BY <1>1, <1>2, <1>3, <1>4, <1>5, <1>6

\* The row that takes the place of one with its key.
Replacing(T, row, key) == (T \ Conflicting(T, row, key)) \cup {row}

LEMMA ReplacingFacts ==
    ASSUME NEW T, NEW row, NEW key, Unique(T, key)
    PROVE  Unique(Replacing(T, row, key), key)
  BY DEF Replacing, Unique, Conflicting

LEMMA UpsertsReplace ==
    /\ \A T \in SUBSET Master : \A row \in Master :
          Upsert(T, row, {"sku"}, DOMAIN row \ {"sku"}) = Replacing(T, row, {"sku"})
    /\ \A T \in SUBSET Orders : \A row \in Orders :
          Upsert(T, row, {"po", "sku"}, {"qty"}) = Replacing(T, row, {"po", "sku"})
    /\ \A T \in SUBSET Outcomes : \A row \in Outcomes :
          Upsert(T, row, {"event"}, {"verdict", "comp"}) = Replacing(T, row, {"event"})
  <1>1. ASSUME NEW T \in SUBSET Master, NEW row \in Master
        PROVE  Upsert(T, row, {"sku"}, DOMAIN row \ {"sku"}) = Replacing(T, row, {"sku"})
    <2> DEFINE key == {"sku"}
               set == {"deleted"}
               V == Nat \cup BOOLEAN
    <2>1. Master \subseteq [sku : Nat, deleted : BOOLEAN]
      BY StoreCallsAssumption
    <2>2. [sku : Nat, deleted : BOOLEAN] \subseteq [key \cup set -> V]
      OBVIOUS
    <2>3. DOMAIN row \ {"sku"} = set
      BY <2>1
    <2>4. T \subseteq [key \cup set -> V] /\ row \in [key \cup set -> V] /\ key \cap set = {}
      BY <2>1, <2>2
    <2> HIDE DEF key, set, V
    <2>5. Upsert(T, row, key, set) = (T \ Conflicting(T, row, key)) \cup {row}
      BY <2>4, Replaced
    <2>6. Upsert(T, row, key, DOMAIN row \ {"sku"}) = Replacing(T, row, key)
      BY <2>5, <2>3 DEF Replacing
    <2> QED BY <2>6 DEF key
  <1>2. ASSUME NEW T \in SUBSET Orders, NEW row \in Orders
        PROVE  Upsert(T, row, {"po", "sku"}, {"qty"}) = Replacing(T, row, {"po", "sku"})
    <2> DEFINE key == {"po", "sku"}
               set == {"qty"}
               V == Nat \cup STRING
    <2>1. Orders \subseteq [po : STRING, sku : Nat, qty : Nat]
      BY StoreCallsAssumption
    <2>2. [po : STRING, sku : Nat, qty : Nat] \subseteq [key \cup set -> V]
      OBVIOUS
    <2>3. T \subseteq [key \cup set -> V] /\ row \in [key \cup set -> V] /\ key \cap set = {}
      BY <2>1, <2>2
    <2> HIDE DEF key, set, V
    <2>4. Upsert(T, row, key, set) = (T \ Conflicting(T, row, key)) \cup {row}
      BY <2>3, Replaced
    <2> QED BY <2>4 DEF key, set, Replacing
  <1>3. ASSUME NEW T \in SUBSET Outcomes, NEW row \in Outcomes
        PROVE  Upsert(T, row, {"event"}, {"verdict", "comp"}) = Replacing(T, row, {"event"})
    <2> DEFINE key == {"event"}
               set == {"verdict", "comp"}
               V == NodeIds \cup STRING \cup (Nat \X Nat)
    <2>1. Outcomes \subseteq [event : NodeIds, verdict : STRING, comp : Nat \X Nat]
      BY StoreCallsAssumption
    <2>2. [event : NodeIds, verdict : STRING, comp : Nat \X Nat] \subseteq [key \cup set -> V]
      OBVIOUS
    <2>3. T \subseteq [key \cup set -> V] /\ row \in [key \cup set -> V] /\ key \cap set = {}
      BY <2>1, <2>2
    <2> HIDE DEF key, set, V
    <2>4. Upsert(T, row, key, set) = (T \ Conflicting(T, row, key)) \cup {row}
      BY <2>3, Replaced
    <2> QED BY <2>4 DEF key, set, Replacing
  <1> QED BY <1>1, <1>2, <1>3

-----------------------------------------------------------------------------
(* The rows in transit *)

LEMMA RowFacts ==
    /\ \A row \in Dispatched : row \in TransitRows
    /\ \A r \in TransitRows : TransitKey \subseteq DOMAIN r
    /\ \A T, row : Conflicting(T, row, TransitKey)
                     = {r \in T : r.transfer = row.transfer /\ r.sku = row.sku}
  <1>1. Dispatched \subseteq [transfer : Nat, sku : Nat, from : Nodes, to : Nodes,
                              dispatched : Nat, received : {0}, on : Nat, failed : {FALSE}]
    BY StoreCallsAssumption
  <1>2. ASSUME NEW row \in Dispatched PROVE row \in TransitRows
    <2>1. row \in [transfer : Nat, sku : Nat, from : Nodes, to : Nodes,
                   dispatched : Nat, received : {0}, on : Nat, failed : {FALSE}]
      BY <1>1
    <2>2. FALSE \in BOOLEAN /\ 0 \in Nat
      OBVIOUS
    <2> QED BY <2>1, <2>2 DEF TransitRows
  <1>3. \A r \in TransitRows : TransitKey \subseteq DOMAIN r
    BY DEF TransitRows, TransitKey
  <1>4. ASSUME NEW T, NEW row
        PROVE  Conflicting(T, row, TransitKey)
                 = {r \in T : r.transfer = row.transfer /\ r.sku = row.sku}
    BY DEF TransitKey, Conflicting
  <1> QED BY <1>2, <1>3, <1>4

SetDispatched(r, row) == [r EXCEPT !.dispatched = row.dispatched]

LEMMA DispatchIs ==
    ASSUME NEW T \in SUBSET TransitRows, NEW row \in Dispatched, Unique(T, TransitKey)
    PROVE  LET old == Conflicting(T, row, TransitKey)
               U == Upsert(T, row, TransitKey, {"dispatched"})
           IN /\ U = IF old = {} THEN T \cup {row}
                     ELSE (T \ old) \cup {SetDispatched(r, row) : r \in old}
              /\ U \subseteq TransitRows /\ Unique(U, TransitKey)
  <1> DEFINE old == Conflicting(T, row, TransitKey)
             set == {"dispatched"}
             U == Upsert(T, row, TransitKey, set)
  <1>1. \A r \in old : r \in TransitRows /\ r \in T
    BY DEF Conflicting
  <1>2. row \in TransitRows
    BY RowFacts
  <1>3. \A r \in TransitRows : Set(r, row, set) = SetDispatched(r, row)
    BY DEF Set, SetDispatched, TransitRows
  <1>4. \A r \in TransitRows : SetDispatched(r, row) \in TransitRows
    BY <1>2 DEF SetDispatched, TransitRows
  <1>5. {Set(r, row, set) : r \in old} = {SetDispatched(r, row) : r \in old}
    BY <1>1, <1>3
  <1>6. U = IF old = {} THEN T \cup {row} ELSE (T \ old) \cup {SetDispatched(r, row) : r \in old}
    <2> HIDE DEF old, set, U
    <2>1. U = IF old = {} THEN T \cup {row} ELSE (T \ old) \cup {Set(r, row, set) : r \in old}
      BY UpsertIs DEF U, old
    <2> QED BY <2>1, <1>5
  <1>7. TransitKey \cap set = {}
    BY DEF TransitKey
  <1>8. Unique(U, TransitKey)
    <2>1. \A r \in T : TransitKey \subseteq DOMAIN r
      BY RowFacts
    <2> HIDE DEF set
    <2> QED BY <1>7, <2>1, Upserted
  <1>9. U \subseteq TransitRows
    <2> HIDE DEF old, set, U
    <2> QED BY <1>1, <1>2, <1>4, <1>6
  <1> QED BY <1>6, <1>8, <1>9

Failing(r, transfer) == IF r.transfer = transfer THEN [r EXCEPT !.failed = TRUE] ELSE r

LEMMA FailingFits ==
    ASSUME NEW T \in SUBSET TransitRows, NEW transfer, Unique(T, TransitKey)
    PROVE  LET U == {Failing(r, transfer) : r \in T}
           IN U \subseteq TransitRows /\ Unique(U, TransitKey)
  <1>1. \A r \in TransitRows :
           /\ Failing(r, transfer) \in TransitRows
           /\ Failing(r, transfer).transfer = r.transfer /\ Failing(r, transfer).sku = r.sku
    BY DEF TransitRows, Failing
  <1> QED BY <1>1 DEF Unique, TransitKey

Receiving(r, qty) == [r EXCEPT !.received = @ + qty]

LEMMA ReceivingFits ==
    ASSUME NEW T \in SUBSET TransitRows, NEW qty \in Nat, NEW key, Unique(T, TransitKey)
    PROVE  LET rows == Conflicting(T, key, TransitKey)
               U == (T \ rows) \cup Added(rows, qty)
           IN U \subseteq TransitRows /\ Unique(U, TransitKey)
  <1> DEFINE rows == Conflicting(T, key, TransitKey)
             U == (T \ rows) \cup Added(rows, qty)
  <1>1. \A r \in TransitRows :
           /\ Receiving(r, qty) \in TransitRows
           /\ Receiving(r, qty).transfer = r.transfer /\ Receiving(r, qty).sku = r.sku
    BY DEF TransitRows, Receiving
  <1>2. Added(rows, qty) = {Receiving(r, qty) : r \in rows}
    BY DEF Added, Receiving
  <1>3. rows = {r \in T : r.transfer = key.transfer /\ r.sku = key.sku}
    BY RowFacts
  <1>4. \A r, s \in T : r.transfer = s.transfer /\ r.sku = s.sku => r = s
    BY DEF Unique, TransitKey
  <1> HIDE DEF rows
  <1>5. U \subseteq TransitRows
    BY <1>1, <1>2, <1>3
  <1>6. \A u \in U : \E r \in T : /\ u.transfer = r.transfer /\ u.sku = r.sku
                                  /\ u = IF r \in rows THEN Receiving(r, qty) ELSE r
    BY <1>1, <1>2, <1>3
  <1>7. Unique(U, TransitKey)
    <2> SUFFICES ASSUME NEW u \in U, NEW v \in U, u.transfer = v.transfer, u.sku = v.sku
                 PROVE  u = v
      BY DEF Unique, TransitKey
    <2> HIDE DEF U
    <2> QED BY <1>4, <1>6
  <1> QED BY <1>5, <1>7 DEF rows

-----------------------------------------------------------------------------
(* The transactions' tables *)

LEMMA MarkFits ==
    ASSUME NEW d, DbFits(d), NEW a \in Arrived,
           Conflicting(d.transfer_receipts, MarkOf(a), {"event", "sku"}) = {}
    PROVE  DbFits([d EXCEPT !.transfer_receipts = @ \cup {MarkOf(a)}])
  <1> DEFINE T == d.transfer_receipts \cup {MarkOf(a)}
             key == {"event", "sku"}
  <1>1. Arrived \subseteq [event : NodeIds, transfer : Nat, sku : Nat, qty : Nat]
    BY StoreCallsAssumption
  <1>2. MarkOf(a) \in Marks
    BY <1>1 DEF MarkOf, Marks
  <1>3. d.transfer_receipts \subseteq Marks /\ Unique(d.transfer_receipts, key)
    BY DEF DbFits, Tables, KeysHold
  <1>4. InsertNew(d.transfer_receipts, MarkOf(a), key) = T
    BY DEF InsertNew
  <1> HIDE DEF key
  <1>5. Unique(T, key) /\ T \subseteq Marks
    BY <1>2, <1>3, <1>4, Inserted
  <1> HIDE DEF T
  <1>6. Unique(T, {"event", "sku"})
    BY <1>5 DEF key
  <1>7. DbFits([d EXCEPT !.transfer_receipts = T])
    BY <1>5, <1>6, TableReplaced
  <1> QED BY <1>7 DEF T

LEMMA RegisteredFits ==
    ASSUME NEW d, DbFits(d), NEW n \in Nodes, NEW refused \in SUBSET Nat
    PROVE  DbFits(Registered(d, n, refused))
  <1> DEFINE T == {r \in d.node_rejects : r.node_id # n}
                  \cup {[node_id |-> n, sku |-> s] : s \in refused}
             new == [d EXCEPT !.nodes = @ \cup {n}, !.node_rejects = T]
  <1>1. d \in Tables /\ d.nodes \subseteq Nodes
        /\ d.node_rejects \subseteq [node_id : Nodes, sku : Nat]
        /\ \A r \in d.node_rejects : r.node_id \in d.nodes
    BY DEF DbFits, Tables, RefusalsFit
  <1>2. T \subseteq [node_id : Nodes, sku : Nat]
    BY <1>1
  <1>3. \A r \in T : r.node_id \in d.nodes \cup {n}
    BY <1>1
  <1>4. d.nodes \cup {n} \subseteq Nodes
    BY <1>1
  <1>5. Registered(d, n, refused) = new
    BY DEF Registered
  <1> HIDE DEF T
  <1>6. new \in Tables
    BY <1>1, <1>2, <1>4 DEF Tables
  <1>7. RefusalsFit(new)
    BY <1>1, <1>3 DEF RefusalsFit, Tables
  <1>8. KeysHold(new) /\ LogFits(new) /\ QueueFits(new)
    BY <1>1 DEF DbFits, KeysHold, LogFits, QueueFits, Tables
  <1> QED BY <1>5, <1>6, <1>7, <1>8 DEF DbFits

-----------------------------------------------------------------------------
(* The invariant, call by call *)

LEMMA StoreInvInit == Init => StoreInv
  <1> SUFFICES ASSUME Init PROVE StoreInv
    OBVIOUS
  <1>1. Own(db) = {}
    BY DEF Init, Schema, Own
  <1>2. ClockFits(db, central)
    BY <1>1 DEF Init, ClockFits
  <1> QED BY <1>2, InitFits, PostgresStoreAssumption DEF Init, StoreInv, TxFits

LEMMA Called ==
    ASSUME StoreInv, NEW name, Call(name)
    PROVE  tx = NoTx /\ workload' \in Workloads /\ calls' \in 0..MaxCalls
  BY PostgresStoreAssumption DEF StoreInv, Call

LEMMA StatementKeeps ==
    ASSUME StoreInv, NEW name, Statement(name), DbFits(db'), Own(db') = Own(db)
    PROVE  StoreInv'
  <1>1. tx' = NoTx /\ central' = central /\ workload' \in Workloads /\ calls' \in 0..MaxCalls
    BY Called DEF Statement
  <1>2. ClockFits(db', central')
    BY <1>1 DEF StoreInv, ClockFits
  <1> QED BY <1>1, <1>2 DEF StoreInv, TxFits

LEMMA AppendKeeps ==
    ASSUME StoreInv, NEW env \in Sent, AppendEvent(env) PROVE StoreInv'
  <1> DEFINE row == EventRow(env)
  <1>1. row \in EventRows /\ row.node_id # CentralNode /\ Envelope(row) \in Sent
    BY SentFacts
  <1>2. db' = [db EXCEPT !.events = InsertNew(@, row, {"node_id", "seq"})]
    BY DEF AppendEvent, InsertEvent
  <1>3. DbFits(db')
    BY <1>1, <1>2, EventInserted DEF StoreInv
  <1>4. Own(db') = Own(db)
    <2>1. db'.events = InsertNew(db.events, row, {"node_id", "seq"})
      BY <1>2 DEF StoreInv, DbFits, Tables
    <2> QED BY <1>1, <2>1 DEF Own, InsertNew
  <1> QED BY <1>3, <1>4, StatementKeeps DEF AppendEvent

\* The number and the reading central draws are past all of its events.
CentralRow(cause, now) ==
    EventRow([id |-> <<CentralNode, central.seq + 1>>, at |-> NextReading(cause, now),
              cause |-> cause])

LEMMA CentralRowFacts ==
    ASSUME StoreInv, NEW cause \in {e.id : e \in Stored \cap Sent} \cup {NoEvent}, NEW now \in Walls
    PROVE  LET row == CentralRow(cause, now)
           IN /\ row \in EventRows /\ row.node_id = CentralNode
              /\ row.seq = central.seq + 1 /\ row.hlc = NextReading(cause, now)
              /\ central.seq \in Nat /\ central.hl < row.hlc
              /\ InsertNew(db.events, row, {"node_id", "seq"}) = db.events \cup {row}
              /\ Envelope(row) = [id |-> <<CentralNode, central.seq + 1>>,
                                  at |-> NextReading(cause, now), cause |-> cause]
  <1> DEFINE row == CentralRow(cause, now)
  <1>1. DbFits(db) /\ central \in [seq : Nat, hl : Nat]
    BY DEF StoreInv, ClockFits
  <1>2. NextReading(cause, now) \in Nat /\ central.hl < NextReading(cause, now)
    BY <1>1, NextReadingFacts
  <1>3. cause \in Nat \X Nat
    <2>1. NoEvent \in Nat \X Nat
      BY NodeNumbers DEF NoEvent
    <2> QED BY <1>1, <2>1, StoredOnce
  <1>4. cause[1] \in Nat /\ cause[2] \in Nat /\ cause = <<cause[1], cause[2]>>
    BY <1>3
  <1>5. central.seq + 1 \in Nat \ {0}
    BY <1>1
  <1>6. /\ row.node_id = CentralNode /\ row.seq = central.seq + 1
        /\ row.hlc = NextReading(cause, now)
    BY DEF CentralRow, EventRow
  <1>7. row \in EventRows
    BY <1>2, <1>4, <1>5 DEF CentralRow, EventRow, EventRows
  <1>8. Envelope(row) = [id |-> <<CentralNode, central.seq + 1>>,
                         at |-> NextReading(cause, now), cause |-> cause]
    BY <1>4 DEF CentralRow, EventRow, Envelope
  <1>9. Conflicting(db.events, row, {"node_id", "seq"}) = {}
    <2> SUFFICES ASSUME NEW r \in db.events, r.node_id = row.node_id, r.seq = row.seq PROVE FALSE
      BY DEF Conflicting
    <2>1. r \in Own(db)
      BY <1>6 DEF Own
    <2>2. r.seq <= central.seq
      BY <2>1 DEF StoreInv, ClockFits
    <2> QED BY <1>1, <1>6, <2>2
  <1>10. InsertNew(db.events, row, {"node_id", "seq"}) = db.events \cup {row}
    BY <1>9 DEF InsertNew
  <1> HIDE DEF row
  <1> QED BY <1>1, <1>2, <1>6, <1>7, <1>8, <1>10 DEF row

LEMMA EmitKeeps ==
    ASSUME StoreInv, NEW cause \in {e.id : e \in Stored \cap Sent} \cup {NoEvent}, NEW now \in Walls,
           EmitCentral(cause, now)
    PROVE  StoreInv'
  <1> DEFINE row == CentralRow(cause, now)
  <1>1. /\ row \in EventRows /\ row.node_id = CentralNode
        /\ row.seq = central.seq + 1 /\ row.hlc = NextReading(cause, now)
        /\ central.seq \in Nat /\ central.hl < row.hlc
        /\ InsertNew(db.events, row, {"node_id", "seq"}) = db.events \cup {row}
    BY CentralRowFacts
  <1>2. /\ central' = [seq |-> central.seq + 1, hl |-> row.hlc]
        /\ db' = db \/ db' = [db EXCEPT !.events = InsertNew(@, row, {"node_id", "seq"})]
        /\ Call("EmitCentral") /\ tx' = tx
    BY <1>1 DEF EmitCentral, InsertEvent, CentralRow
  <1>3. tx' = NoTx /\ workload' \in Workloads /\ calls' \in 0..MaxCalls
    BY <1>2, Called
  <1> HIDE DEF row
  <1>4. DbFits(db')
    BY <1>1, <1>2, EventInserted DEF StoreInv
  <1>5. db'.events = db.events \/ db'.events = db.events \cup {row}
    BY <1>1, <1>2 DEF StoreInv, DbFits, Tables
  <1>6. Own(db') \subseteq Own(db) \cup {row}
    BY <1>5 DEF Own
  <1>7. /\ \A r \in Own(db) : r.seq \in Nat /\ r.hlc \in Nat /\ r.seq <= central.seq /\ r.hlc <= central.hl
        /\ \A r, s \in Own(db) : r.seq < s.seq => r.hlc < s.hlc
        /\ central.hl \in Nat
    BY DEF StoreInv, DbFits, Tables, ClockFits, Own, EventRows
  <1>8. row.hlc \in Nat
    BY <1>1 DEF EventRows
  <1>9. ClockFits(db', central')
    BY <1>1, <1>2, <1>6, <1>7, <1>8 DEF ClockFits
  <1> QED BY <1>3, <1>4, <1>9 DEF StoreInv, TxFits

LEMMA CursorKeeps ==
    ASSUME StoreInv, NEW n \in Nodes,
           \/ \E seq \in 1..Cardinality(Sent) : SetPushedSeq(n, seq)
           \/ \E r \in Queued(n) : SetDeliveredOrd(n, r.ord)
    PROVE  StoreInv'
  <1>1. ASSUME NEW name, Statement(name), NEW row \in CursorRows, row.delivered_ord <= db.drawn,
               NEW column \in {"pushed_seq", "delivered_ord"},
               db' = [db EXCEPT !.cursors = Upsert(@, row, {"node_id"}, {column})]
        PROVE  StoreInv'
    <2>1. DbFits(db')
      BY <1>1, CursorSet DEF StoreInv
    <2>2. db'.events = db.events
      BY <1>1 DEF StoreInv, DbFits, Tables
    <2> QED BY <1>1, <2>1, <2>2, StatementKeeps DEF Own
  <1>2. db.drawn \in Nat /\ \A r \in db.outbound : r.ord \in Nat /\ r.ord <= db.drawn
    BY DEF StoreInv, DbFits, Tables, QueueFits, QueueRows
  <1>3. ASSUME NEW seq \in 1..Cardinality(Sent), SetPushedSeq(n, seq) PROVE StoreInv'
    <2> DEFINE row == [node_id |-> n, pushed_seq |-> seq, delivered_ord |-> 0]
    <2>1. Cardinality(Sent) \in Nat
      BY StoreCallsAssumption, FS_CardinalityType
    <2>2. row \in CursorRows /\ row.delivered_ord <= db.drawn
      BY <1>2, <2>1 DEF CursorRows
    <2> HIDE DEF row
    <2>3. Statement("SetPushedSeq")
          /\ db' = [db EXCEPT !.cursors = Upsert(@, row, {"node_id"}, {"pushed_seq"})]
      BY <1>3 DEF SetPushedSeq, SetCursor, row
    <2> QED BY <1>1, <2>2, <2>3
  <1>4. ASSUME NEW r \in Queued(n), SetDeliveredOrd(n, r.ord) PROVE StoreInv'
    <2> DEFINE row == [node_id |-> n, pushed_seq |-> 0, delivered_ord |-> r.ord]
    <2>1. r.ord \in Nat /\ r.ord <= db.drawn
      BY <1>2 DEF Queued
    <2>2. row \in CursorRows /\ row.delivered_ord <= db.drawn
      BY <2>1 DEF CursorRows
    <2> HIDE DEF row
    <2>3. Statement("SetDeliveredOrd")
          /\ db' = [db EXCEPT !.cursors = Upsert(@, row, {"node_id"}, {"delivered_ord"})]
      BY <1>4 DEF SetDeliveredOrd, SetCursor, row
    <2> QED BY <1>1, <2>2, <2>3
  <1> QED BY <1>3, <1>4

LEMMA EnqueueIs ==
    ASSUME NEW n, NEW env, Enqueue(n, env) PROVE db' = Queueing(db, n, env)
  BY DEF Enqueue, Queueing, QueueRow

LEMMA EnqueueKeeps ==
    ASSUME StoreInv, NEW n \in Nodes, NEW env \in Stored, Enqueue(n, env) PROVE StoreInv'
  <1>1. PICK e \in db.events : env = Envelope(e)
    BY DEF Stored
  <1>2. DbFits(db')
    BY <1>1, EnqueueIs, Queues DEF StoreInv
  <1>3. db'.events = db.events
    BY EnqueueIs DEF Queueing, StoreInv, DbFits, Tables
  <1> QED BY <1>2, <1>3, StatementKeeps DEF Own, Enqueue

\* The calls that write to a table nothing else refers to.
Simple ==
    \/ \E item \in Master : UpsertItem(item)
    \/ \E line \in Orders : UpsertPurchaseOrder(line)
    \/ \E f \in Facts : RecordReceipt(f)
    \/ \E row \in Dispatched : RecordDispatch(row) \/ FailTransfer(row.transfer)
    \/ \E d \in Outcomes : RecordDecision(d)

LEMMA SimpleFits ==
    ASSUME StoreInv, Simple
    PROVE  DbFits(db') /\ db'.events = db.events /\ \E name : Statement(name)
  <1>1. /\ DbFits(db) /\ db \in Tables /\ KeysHold(db)
        /\ db.items \subseteq Master /\ db.purchase_orders \subseteq Orders
        /\ db.receipts \subseteq Facts /\ db.in_transit \subseteq TransitRows
        /\ db.decisions \subseteq Outcomes
    BY DEF StoreInv, DbFits, Tables
  <1>2. ASSUME NEW item \in Master, UpsertItem(item)
        PROVE  DbFits(db') /\ db'.events = db.events /\ \E name : Statement(name)
    <2> DEFINE T == Replacing(db.items, item, {"sku"})
    <2>1. Statement("UpsertItem") /\ db' = [db EXCEPT !.items = T]
      BY <1>1, <1>2, UpsertsReplace DEF UpsertItem
    <2>2. T \subseteq Master /\ Unique(T, {"sku"})
      BY <1>1, ReplacingFacts DEF KeysHold, Replacing
    <2> HIDE DEF T
    <2> QED BY <1>1, <2>1, <2>2, TableReplaced DEF Tables
  <1>3. ASSUME NEW line \in Orders, UpsertPurchaseOrder(line)
        PROVE  DbFits(db') /\ db'.events = db.events /\ \E name : Statement(name)
    <2> DEFINE T == Replacing(db.purchase_orders, line, {"po", "sku"})
    <2>1. Statement("UpsertPurchaseOrder") /\ db' = [db EXCEPT !.purchase_orders = T]
      BY <1>1, <1>3, UpsertsReplace DEF UpsertPurchaseOrder
    <2>2. T \subseteq Orders /\ Unique(T, {"po", "sku"})
      BY <1>1, ReplacingFacts DEF KeysHold, Replacing
    <2> HIDE DEF T
    <2> QED BY <1>1, <2>1, <2>2, TableReplaced DEF Tables
  <1>4. ASSUME NEW f \in Facts, RecordReceipt(f)
        PROVE  DbFits(db') /\ db'.events = db.events /\ \E name : Statement(name)
    <2> DEFINE T == InsertNew(db.receipts, f, {"event"})
    <2>1. Statement("RecordReceipt") /\ db' = [db EXCEPT !.receipts = T]
      BY <1>4 DEF RecordReceipt
    <2>2. T \subseteq db.receipts \cup {f} /\ Unique(T, {"event"})
      BY <1>1, Inserted DEF KeysHold
    <2> HIDE DEF T
    <2>3. T \subseteq Facts
      BY <1>1, <2>2
    <2> QED BY <1>1, <2>1, <2>2, <2>3, TableReplaced DEF Tables
  <1>5. ASSUME NEW row \in Dispatched, RecordDispatch(row)
        PROVE  DbFits(db') /\ db'.events = db.events /\ \E name : Statement(name)
    <2> DEFINE T == Upsert(db.in_transit, row, TransitKey, {"dispatched"})
    <2>1. Statement("RecordDispatch") /\ db' = [db EXCEPT !.in_transit = T]
      BY <1>5 DEF RecordDispatch
    <2>2. T \subseteq TransitRows /\ Unique(T, TransitKey)
      BY <1>1, DispatchIs DEF KeysHold
    <2> HIDE DEF T
    <2> QED BY <1>1, <2>1, <2>2, TableReplaced DEF Tables
  <1>6. ASSUME NEW row \in Dispatched, FailTransfer(row.transfer)
        PROVE  DbFits(db') /\ db'.events = db.events /\ \E name : Statement(name)
    <2> DEFINE T == {Failing(r, row.transfer) : r \in db.in_transit}
    <2>1. Statement("FailTransfer") /\ db' = [db EXCEPT !.in_transit = T]
      BY <1>6 DEF FailTransfer, Failing
    <2>2. T \subseteq TransitRows /\ Unique(T, TransitKey)
      BY <1>1, FailingFits DEF KeysHold
    <2> HIDE DEF T
    <2> QED BY <1>1, <2>1, <2>2, TableReplaced DEF Tables
  <1>7. ASSUME NEW d \in Outcomes, RecordDecision(d)
        PROVE  DbFits(db') /\ db'.events = db.events /\ \E name : Statement(name)
    <2> DEFINE T == Replacing(db.decisions, d, {"event"})
    <2>1. Statement("RecordDecision") /\ db' = [db EXCEPT !.decisions = T]
      BY <1>1, <1>7, UpsertsReplace DEF RecordDecision
    <2>2. T \subseteq Outcomes /\ Unique(T, {"event"})
      BY <1>1, ReplacingFacts DEF KeysHold, Replacing
    <2> HIDE DEF T
    <2> QED BY <1>1, <2>1, <2>2, TableReplaced DEF Tables
  <1> QED BY <1>2, <1>3, <1>4, <1>5, <1>6, <1>7 DEF Simple

LEMMA SimpleKeeps == ASSUME StoreInv, Simple PROVE StoreInv'
  BY SimpleFits, StatementKeeps DEF Own

\* A step that leaves the tables alone.
LEMMA TablesStay ==
    ASSUME StoreInv, db' = db, central' = central, TxFits',
           workload' \in Workloads, calls' \in 0..MaxCalls
    PROVE  StoreInv'
  BY DEF StoreInv, ClockFits

LEMMA MarkKeeps ==
    ASSUME StoreInv, NEW a \in Arrived, MarkReceived(a)
    PROVE  StoreInv'
  <1>1. /\ Call("AddReceived") /\ db' = db /\ central' = central
        /\ tx' = IF Conflicting(db.transfer_receipts, MarkOf(a), {"event", "sku"}) # {} THEN NoTx
                 ELSE Folding(db, a)
    BY DEF MarkReceived, MarkOf, Folding
  <1>2. TxFits'
    BY <1>1 DEF TxFits
  <1> QED BY <1>1, <1>2, Called, TablesStay

LEMMA RegisterKeeps ==
    ASSUME StoreInv, NEW n \in Nodes, NEW refused \in Refusals, RegisterNode(n, refused)
    PROVE  StoreInv'
  <1>1. Call("RegisterNode") /\ db' = db /\ central' = central
    BY DEF RegisterNode
  <1>2. tx' = Registering(db, n, refused, refused)
    <2>1. refused \ refused = {}
      OBVIOUS
    <2>2. {[node_id |-> n, sku |-> s] : s \in {}} = {}
      OBVIOUS
    <2>3. Registered(db, n, refused \ refused)
            = [db EXCEPT !.nodes = @ \cup {n}, !.node_rejects = {r \in @ : r.node_id # n}]
      BY <2>1, <2>2 DEF Registered
    <2> QED BY <2>3 DEF RegisterNode, Registering
  <1>3. TxFits'
    BY <1>1, <1>2 DEF TxFits
  <1> QED BY <1>1, <1>3, Called, TablesStay

\* What kind of transaction is open.
LEMMA TxFacts ==
    /\ NoTx.of = "none"
    /\ \A d, a : Folding(d, a).of = "AddReceived" /\ Folding(d, a).arrival = {a}
                 /\ Folding(d, a).tables = [d EXCEPT !.transfer_receipts = @ \cup {MarkOf(a)}]
    /\ \A d, n, refused, rest :
          /\ Registering(d, n, refused, rest).of = "RegisterNode"
          /\ Registering(d, n, refused, rest).rejects = rest
          /\ Registering(d, n, refused, rest).node = n
          /\ Registering(d, n, refused, rest).tables = Registered(d, n, refused \ rest)
  BY DEF NoTx, Folding, Registering

LEMMA OpenRegistration ==
    ASSUME TxFits, tx.of = "RegisterNode"
    PROVE  \E n \in Nodes, refused \in Refusals : \E rest \in SUBSET refused :
              tx = Registering(db, n, refused, rest)
  BY TxFacts DEF TxFits

LEMMA OpenFold ==
    ASSUME TxFits, tx.of = "AddReceived"
    PROVE  \E a \in Arrived :
              /\ tx = Folding(db, a)
              /\ Conflicting(db.transfer_receipts, MarkOf(a), {"event", "sku"}) = {}
  BY TxFacts DEF TxFits

Open(tables, n, rest) ==
    [of |-> "RegisterNode", tables |-> tables, arrival |-> {}, node |-> n, rejects |-> rest]

LEMMA RegisteringIs ==
    ASSUME NEW d, NEW n, NEW refused, NEW rest
    PROVE  Registering(d, n, refused, rest) = Open(Registered(d, n, refused \ rest), n, rest)
  <1> DEFINE R == Registered(d, n, refused \ rest)
             T == [of : {"RegisterNode"}, tables : {R}, arrival : {{}}, node : {n}, rejects : {rest}]
  <1> HIDE DEF R
  <1>1. NoTx \in [of : {"none"}, tables : {Schema}, arrival : {{}}, node : {CentralNode},
                  rejects : {{}}]
    BY DEF NoTx
  <1>2. Registering(d, n, refused, rest) \in T
    BY <1>1 DEF Registering, R
  <1>3. Open(R, n, rest) \in T
    BY DEF Open
  <1> QED BY <1>2, <1>3 DEF R

LEMMA RejectKeeps == ASSUME StoreInv, InsertReject PROVE StoreInv'
  <1>1. PICK n \in Nodes, refused \in Refusals :
             \E rest \in SUBSET refused : tx = Registering(db, n, refused, rest)
    BY OpenRegistration DEF StoreInv, InsertReject
  <1>2. PICK rest \in SUBSET refused : tx = Registering(db, n, refused, rest)
    BY <1>1
  <1>a. tx = Open(Registered(db, n, refused \ rest), n, rest)
    BY <1>2, RegisteringIs
  <1>b. tx.rejects = rest
    BY <1>a DEF Open
  <1>3. PICK sku \in rest :
             tx' = [tx EXCEPT !.rejects = @ \ {sku},
                              !.tables.node_rejects = @ \cup {[node_id |-> tx.node, sku |-> sku]}]
    BY <1>b DEF InsertReject
  <1>4. {[node_id |-> n, sku |-> s] : s \in refused \ rest} \cup {[node_id |-> n, sku |-> sku]}
          = {[node_id |-> n, sku |-> s] : s \in refused \ (rest \ {sku})}
    OBVIOUS
  <1>5. tx' = Registering(db, n, refused, rest \ {sku})
    <2> DEFINE T == {r \in db.node_rejects : r.node_id # n}
               R(S) == {[node_id |-> n, sku |-> s] : s \in S}
    <2>1. db \in Tables
      BY DEF StoreInv, DbFits
    <2>2. \A S : Registered(db, n, S) = [db EXCEPT !.nodes = @ \cup {n}, !.node_rejects = T \cup R(S)]
      BY <2>1 DEF Registered, Tables
    <2>3. R(refused \ rest) \cup {[node_id |-> n, sku |-> sku]} = R(refused \ (rest \ {sku}))
      BY <1>4
    <2> HIDE DEF T, R
    <2> DEFINE before == Registered(db, n, refused \ rest)
               after == Registered(db, n, refused \ (rest \ {sku}))
    <2>4. [before EXCEPT !.node_rejects = @ \cup {[node_id |-> n, sku |-> sku]}] = after
      <3> DEFINE Others(S) ==
            [events : {db.events}, cursors : {db.cursors}, outbound : {db.outbound},
             drawn : {db.drawn}, items : {db.items}, purchase_orders : {db.purchase_orders},
             nodes : {db.nodes \cup {n}}, node_rejects : {T \cup R(S)},
             receipts : {db.receipts}, in_transit : {db.in_transit},
             transfer_receipts : {db.transfer_receipts}, decisions : {db.decisions}]
      <3>1. db \in [events : {db.events}, cursors : {db.cursors}, outbound : {db.outbound},
                    drawn : {db.drawn}, items : {db.items},
                    purchase_orders : {db.purchase_orders}, nodes : {db.nodes},
                    node_rejects : {db.node_rejects}, receipts : {db.receipts},
                    in_transit : {db.in_transit},
                    transfer_receipts : {db.transfer_receipts}, decisions : {db.decisions}]
        BY <2>1 DEF Tables
      <3>2. ASSUME NEW S PROVE Registered(db, n, S) \in Others(S)
        <4>1. Registered(db, n, S)
                = [db EXCEPT !.nodes = @ \cup {n}, !.node_rejects = T \cup R(S)]
          BY <2>2
        <4> QED BY <3>1, <4>1
      <3>3. before \in Others(refused \ rest) /\ after \in Others(refused \ (rest \ {sku}))
        BY <3>2
      <3> HIDE DEF before, after
      <3>4. [before EXCEPT !.node_rejects = @ \cup {[node_id |-> n, sku |-> sku]}]
              \in Others(refused \ (rest \ {sku}))
        <4>1. (T \cup R(refused \ rest)) \cup {[node_id |-> n, sku |-> sku]}
                = T \cup R(refused \ (rest \ {sku}))
          BY <2>3
        <4> QED BY <3>3, <4>1
      <3> QED BY <3>3, <3>4
    <2> HIDE DEF before, after
    <2>5. tx = Open(before, n, rest) /\ tx.node = n /\ tx.tables = before
      BY <1>a DEF before, Open
    <2>6. tx' = Open(after, n, rest \ {sku})
      <3> DEFINE X == [of : {"RegisterNode"}, tables : {after}, arrival : {{}}, node : {n},
                       rejects : {rest \ {sku}}]
      <3>1. tx' \in X
        BY <1>3, <2>4, <2>5 DEF Open
      <3>2. Open(after, n, rest \ {sku}) \in X
        BY DEF Open
      <3> QED BY <3>1, <3>2
    <2> QED BY <2>6, RegisteringIs DEF after
  <1>6. UNCHANGED <<db, central, workload, calls>>
    BY DEF InsertReject
  <1>7. TxFits'
    BY <1>5, <1>6 DEF TxFits
  <1> QED BY <1>6, <1>7, TablesStay DEF StoreInv

LEMMA CommitIs ==
    ASSUME StoreInv, CommitRegistration
    PROVE  \E n \in Nodes, refused \in Refusals :
              db' = Registered(db, n, refused) /\ UNCHANGED <<central, workload, calls>> /\ tx' = NoTx
  <1>1. PICK n \in Nodes, refused \in Refusals :
             \E rest \in SUBSET refused : tx = Registering(db, n, refused, rest)
    BY OpenRegistration DEF StoreInv, CommitRegistration
  <1>2. tx = Registering(db, n, refused, {})
    <2>1. PICK rest \in SUBSET refused : tx = Registering(db, n, refused, rest)
      BY <1>1
    <2>2. tx.rejects = rest
      BY <2>1, TxFacts
    <2> QED BY <2>1, <2>2 DEF CommitRegistration
  <1>3. refused \ {} = refused
    OBVIOUS
  <1> QED BY <1>2, <1>3, TxFacts DEF CommitRegistration

LEMMA CommitKeeps == ASSUME StoreInv, CommitRegistration PROVE StoreInv'
  <1>1. PICK n \in Nodes, refused \in Refusals :
             db' = Registered(db, n, refused) /\ UNCHANGED <<central, workload, calls>> /\ tx' = NoTx
    BY CommitIs
  <1>2. refused \in SUBSET Nat
    BY StoreCallsAssumption
  <1>3. DbFits(db')
    BY <1>1, <1>2, RegisteredFits DEF StoreInv
  <1>4. db'.events = db.events
    BY <1>1 DEF Registered, StoreInv, DbFits, Tables
  <1>5. ClockFits(db', central')
    BY <1>1, <1>4 DEF StoreInv, ClockFits, Own
  <1> QED BY <1>1, <1>3, <1>5 DEF StoreInv, TxFits

\* What the second statement of AddReceived makes of the tables.
Folded(d, a) ==
    [d EXCEPT !.transfer_receipts = @ \cup {MarkOf(a)},
              !.in_transit = (@ \ Conflicting(@, a, TransitKey))
                             \cup Added(Conflicting(@, a, TransitKey), a.qty)]

LEMMA AddIs ==
    ASSUME StoreInv, AddToRow
    PROVE  /\ UNCHANGED <<central, workload, calls>> /\ tx' = NoTx
           /\ \E a \in Arrived :
                 /\ Conflicting(db.transfer_receipts, MarkOf(a), {"event", "sku"}) = {}
                 /\ db' = IF Conflicting(db.in_transit, a, TransitKey) = {} THEN db
                          ELSE Folded(db, a)
  <1>1. PICK a \in Arrived :
             /\ tx = Folding(db, a)
             /\ Conflicting(db.transfer_receipts, MarkOf(a), {"event", "sku"}) = {}
    BY OpenFold DEF StoreInv, AddToRow
  <1>2. /\ tx.arrival = {a}
        /\ tx.tables = [db EXCEPT !.transfer_receipts = @ \cup {MarkOf(a)}]
    BY <1>1, TxFacts
  <1>3. db \in Tables
    BY DEF StoreInv, DbFits
  <1>4. tx.tables.in_transit = db.in_transit
    BY <1>2, <1>3 DEF Tables
  <1> DEFINE rows == Conflicting(db.in_transit, a, TransitKey)
  <1>5. db' = IF rows = {} THEN db
              ELSE [tx.tables EXCEPT !.in_transit = (@ \ rows) \cup Added(rows, a.qty)]
    BY <1>2 DEF AddToRow
  <1>6. [tx.tables EXCEPT !.in_transit = (@ \ rows) \cup Added(rows, a.qty)] = Folded(db, a)
    <2> HIDE DEF rows
    <2>1. Folded(db, a) = [db EXCEPT !.transfer_receipts = @ \cup {MarkOf(a)},
                                     !.in_transit = (@ \ rows) \cup Added(rows, a.qty)]
      BY <1>3 DEF Folded, rows, Tables
    <2> QED BY <2>1, <1>2, <1>3 DEF Tables
  <1> QED BY <1>1, <1>5, <1>6 DEF AddToRow

LEMMA FoldedFits ==
    ASSUME NEW d, DbFits(d), NEW a \in Arrived,
           Conflicting(d.transfer_receipts, MarkOf(a), {"event", "sku"}) = {}
    PROVE  DbFits(Folded(d, a)) /\ Folded(d, a).events = d.events
  <1> DEFINE rows == Conflicting(d.in_transit, a, TransitKey)
             T == (d.in_transit \ rows) \cup Added(rows, a.qty)
             marked == [d EXCEPT !.transfer_receipts = @ \cup {MarkOf(a)}]
  <1>1. d \in Tables /\ d.in_transit \subseteq TransitRows /\ Unique(d.in_transit, TransitKey)
    BY DEF DbFits, Tables, KeysHold
  <1>2. a.qty \in Nat
    BY StoreCallsAssumption
  <1>3. T \subseteq TransitRows /\ Unique(T, TransitKey)
    BY <1>1, <1>2, ReceivingFits
  <1>4. DbFits(marked)
    BY MarkFits
  <1> HIDE DEF rows
  <1>5. Folded(d, a) = [marked EXCEPT !.in_transit = T]
    BY <1>1 DEF Folded, Tables, rows
  <1> HIDE DEF T
  <1>6. marked.events = d.events /\ marked \in Tables
    BY <1>1, <1>4 DEF Tables, DbFits
  <1> HIDE DEF marked
  <1>7. DbFits([marked EXCEPT !.in_transit = T])
    BY <1>3, <1>4, TableReplaced
  <1> QED BY <1>5, <1>6, <1>7 DEF Tables

\* What a restart finds in the table is the number and the reading of central's last event.
LEMMA RecoveredFacts ==
    ASSUME StoreInv
    PROVE  /\ Recovered \in [seq : Nat, hl : Nat]
           /\ \A r \in Own(db) : r.seq <= Recovered.seq /\ r.hlc <= Recovered.hl
           /\ Own(db) = {} => Recovered = [seq |-> 0, hl |-> 0]
           /\ Own(db) # {} => \E r \in Own(db) : r.seq = Recovered.seq /\ r.hlc = Recovered.hl
  <1> DEFINE own == Own(db)
             seqs == {r.seq : r \in own}
             walls == {Wall(r.hlc) : r \in own}
             wall == Largest(walls)
             counters == {Counter(r.hlc) : r \in {r \in own : Wall(r.hlc) = wall}}
             counter == Largest(counters)
  <1>1. /\ central \in [seq : Nat, hl : Nat]
        /\ \A r \in own : /\ r.seq \in Nat /\ r.hlc \in Nat
                          /\ r.seq <= central.seq /\ r.hlc <= central.hl
    BY DEF StoreInv, DbFits, Tables, ClockFits, Own, EventRows
  <1>2. Recovered = [seq |-> Largest(seqs), hl |-> wall * Counters + counter]
    BY DEF Recovered, Own, Counter
  <1>3. Counters \in Nat \ {0}
    BY HybridClockAssumption
  <1> HIDE DEF own
  <1>4. Largest(seqs) \in seqs \cup {0} /\ \A r \in own : r.seq <= Largest(seqs)
    <2>1. seqs \in SUBSET Nat /\ central.seq \in Nat /\ \A x \in seqs : x <= central.seq
      BY <1>1
    <2> HIDE DEF seqs
    <2>2. Largest(seqs) \in seqs \cup {0} /\ \A x \in seqs : x <= Largest(seqs)
      BY <2>1, LargestOf
    <2> QED BY <2>2 DEF seqs
  <1>5. \A r \in own : Wall(r.hlc) \in Nat /\ Wall(r.hlc) <= Wall(central.hl)
    <2> SUFFICES ASSUME NEW r \in own PROVE Wall(r.hlc) \in Nat /\ Wall(r.hlc) <= Wall(central.hl)
      OBVIOUS
    <2> DEFINE h == r.hlc
               c == central.hl
    <2>1. h \in Nat /\ c \in Nat /\ h <= c
      BY <1>1
    <2> HIDE DEF h, c
    <2>2. /\ Wall(h) \in Nat /\ Wall(c) \in Nat
          /\ h = Wall(h) * Counters + Counter(h) /\ c = Wall(c) * Counters + Counter(c)
          /\ Counter(h) \in 0..(Counters - 1) /\ Counter(c) \in 0..(Counters - 1)
      BY <2>1, Quotients
    <2>3. Wall(c) < Wall(h) => Wall(c) * Counters + Counters <= Wall(h) * Counters
      BY <2>2, Multiples
    <2>4. Wall(c) * Counters \in Nat /\ Wall(h) * Counters \in Nat
      BY <2>2, Multiples
    <2>5. ~ (Wall(c) < Wall(h))
      BY <1>3, <2>1, <2>2, <2>3, <2>4
    <2> QED BY <2>2, <2>5 DEF h, c
  <1>6. wall \in walls \cup {0} /\ \A r \in own : Wall(r.hlc) <= wall
    <2>1. walls \in SUBSET Nat /\ Wall(central.hl) \in Nat /\ \A x \in walls : x <= Wall(central.hl)
      BY <1>1, <1>5, Quotients
    <2> HIDE DEF walls
    <2>2. wall \in walls \cup {0} /\ \A x \in walls : x <= wall
      BY <2>1, LargestOf
    <2> QED BY <2>2 DEF walls
  <1>7. wall \in Nat
    BY <1>5, <1>6
  <1> HIDE DEF wall
  <1>8. /\ counter \in counters \cup {0}
        /\ \A r \in own : Wall(r.hlc) = wall => Counter(r.hlc) <= counter
    <2>1. \A r \in own : Counter(r.hlc) \in Nat /\ Counter(r.hlc) <= Counters
      <3>1. \A r \in own : Counter(r.hlc) \in 0..(Counters - 1)
        BY <1>1, Quotients
      <3> QED BY <3>1, <1>3
    <2>2. counters \in SUBSET Nat /\ \A x \in counters : x <= Counters
      BY <2>1
    <2> HIDE DEF counters
    <2>3. counter \in counters \cup {0} /\ \A x \in counters : x <= counter
      BY <1>3, <2>2, LargestOf
    <2> QED BY <2>3 DEF counters
  <1>9. counter \in Nat /\ counter <= Counters - 1
    <2>1. \A r \in own : Counter(r.hlc) \in 0..(Counters - 1)
      BY <1>1, Quotients
    <2> QED BY <1>3, <1>8, <2>1
  <1>10. wall * Counters \in Nat
    BY <1>7, Multiples
  <1> HIDE DEF counter
  <1>11. ASSUME NEW r \in own PROVE r.hlc <= wall * Counters + counter
    <2> DEFINE h == r.hlc
    <2>1. /\ h \in Nat /\ Wall(h) \in Nat /\ Wall(h) <= wall
          /\ h = Wall(h) * Counters + Counter(h) /\ Counter(h) \in 0..(Counters - 1)
          /\ Wall(h) * Counters \in Nat
      BY <1>1, <1>6, Quotients, Multiples
    <2>2. CASE Wall(h) = wall
      BY <2>1, <2>2, <1>8, <1>9, <1>10
    <2>3. CASE Wall(h) < wall
      <3>1. Wall(h) * Counters + Counters <= wall * Counters
        BY <2>1, <2>3, <1>7, Multiples
      <3> HIDE DEF h
      <3>2. h <= wall * Counters + counter
        BY <2>1, <3>1, <1>3, <1>9, <1>10
      <3> QED BY <3>2 DEF h
    <2> QED BY <2>1, <2>2, <2>3, <1>7
  <1>12. ASSUME own = {} PROVE Recovered = [seq |-> 0, hl |-> 0]
    <2>1. Largest(seqs) = 0 /\ wall = 0 /\ counter = 0
      BY <1>12, <1>4, <1>6, <1>8
    <2> QED BY <1>2, <1>3, <2>1
  <1>13. ASSUME own # {}
         PROVE  \E r \in own : r.seq = Recovered.seq /\ r.hlc = Recovered.hl
    <2>1. PICK r \in own : r.seq = Largest(seqs)
      <3>1. CASE Largest(seqs) \in seqs
        BY <3>1
      <3>2. CASE Largest(seqs) = 0
        <4>1. PICK r \in own : TRUE
          BY <1>13
        <4>2. r.seq \in Nat /\ r.seq <= 0
          BY <3>2, <1>1, <1>4
        <4>3. r.seq = 0
          BY <4>2
        <4>4. r.seq = Largest(seqs)
          BY <4>3, <3>2
        <4> HIDE DEF seqs
        <4> QED BY <4>4
      <3> QED BY <3>1, <3>2, <1>4
    <2>2. PICK s \in own : Wall(s.hlc) = wall
      <3>1. CASE wall \in walls
        BY <3>1
      <3>2. CASE wall = 0
        BY <3>2, <1>5, <1>6, <1>13
      <3> QED BY <3>1, <3>2, <1>6
    <2>3. PICK q \in own : Wall(q.hlc) = wall /\ Counter(q.hlc) = counter
      <3>1. CASE counter \in counters
        BY <3>1
      <3>2. CASE counter = 0
        <4>1. Counter(s.hlc) \in Nat /\ Counter(s.hlc) <= counter
          BY <1>1, <1>3, <1>8, <2>2, Quotients
        <4> QED BY <4>1, <3>2, <2>2
      <3> QED BY <3>1, <3>2, <1>8
    <2>4. q.hlc = wall * Counters + counter
      BY <1>1, <2>3, Quotients
    <2>5. r.hlc = q.hlc
      <3>1. q.seq <= r.seq /\ q.seq \in Nat /\ r.seq \in Nat /\ q.hlc \in Nat /\ r.hlc \in Nat
        BY <1>1, <1>4, <2>1
      <3>2. r.hlc <= q.hlc
        BY <1>11, <2>4
      <3>3. CASE q.seq < r.seq
        BY <3>1, <3>2, <3>3 DEF StoreInv, ClockFits, own
      <3>4. CASE q.seq = r.seq
        <4>1. q = r
          BY <3>4 DEF own, Own, StoreInv, DbFits, KeysHold, Unique
        <4> QED BY <4>1
      <3> QED BY <3>1, <3>3, <3>4
    <2> QED BY <1>2, <2>1, <2>4, <2>5
  <1>14. Largest(seqs) \in Nat
    BY <1>1, <1>4
  <1> HIDE DEF seqs
  <1>15. /\ Recovered \in [seq : Nat, hl : Nat]
         /\ Recovered.seq = Largest(seqs) /\ Recovered.hl = wall * Counters + counter
    BY <1>2, <1>9, <1>10, <1>14
  <1> QED BY <1>4, <1>11, <1>12, <1>13, <1>15 DEF own

LEMMA RestartKeeps == ASSUME StoreInv, Restart PROVE StoreInv'
  <1>1. tx' = NoTx /\ central' = Recovered /\ db' = db /\ workload' = workload /\ calls' = calls
    BY DEF Restart
  <1>2. ClockFits(db, Recovered)
    BY RecoveredFacts DEF StoreInv, ClockFits
  <1>3. ClockFits(db', central')
    BY <1>1, <1>2
  <1> QED BY <1>1, <1>3 DEF StoreInv, TxFits

LEMMA StoreInvNext == ASSUME StoreInv, [Next]_vars PROVE StoreInv'
  <1>1. ASSUME Write PROVE StoreInv'
    <2>1. CASE \E env \in Sent : AppendEvent(env)
      BY <2>1, AppendKeeps
    <2>2. CASE \E cause \in {e.id : e \in Stored \cap Sent} \cup {NoEvent}, now \in Walls :
                  EmitCentral(cause, now)
      BY <2>2, EmitKeeps
    <2>3. ASSUME NEW n \in Nodes,
                 \/ \E seq \in 1..Cardinality(Sent) : SetPushedSeq(n, seq)
                 \/ \E r \in Queued(n) : SetDeliveredOrd(n, r.ord)
          PROVE  StoreInv'
      BY <2>3, CursorKeeps
    <2>4. ASSUME NEW n \in Nodes, NEW env \in Stored, Enqueue(n, env) PROVE StoreInv'
      BY <2>4, EnqueueKeeps
    <2>5. ASSUME NEW n \in Nodes, NEW refused \in Refusals, RegisterNode(n, refused) PROVE StoreInv'
      BY <2>5, RegisterKeeps
    <2>6. CASE Simple
      BY <2>6, SimpleKeeps
    <2>7. CASE \E a \in Arrived : MarkReceived(a)
      BY <2>7, MarkKeeps
    <2> QED BY <1>1, <2>1, <2>2, <2>3, <2>4, <2>5, <2>6, <2>7 DEF Write, Simple
  <1>2. CASE InsertReject
    BY <1>2, RejectKeeps
  <1>3. CASE CommitRegistration
    BY <1>3, CommitKeeps
  <1>4. CASE AddToRow
    <2>1. PICK a \in Arrived :
               /\ Conflicting(db.transfer_receipts, MarkOf(a), {"event", "sku"}) = {}
               /\ db' = IF Conflicting(db.in_transit, a, TransitKey) = {} THEN db ELSE Folded(db, a)
      BY <1>4, AddIs
    <2>2. DbFits(db') /\ db'.events = db.events
      BY <2>1, FoldedFits DEF StoreInv
    <2>3. UNCHANGED <<central, workload, calls>> /\ tx' = NoTx
      BY <1>4, AddIs
    <2>4. ClockFits(db', central')
      BY <2>2, <2>3 DEF StoreInv, ClockFits, Own
    <2> QED BY <2>2, <2>3, <2>4 DEF StoreInv, TxFits
  <1>5. CASE Rollback
    BY <1>5, TablesStay DEF Rollback, TxFits, StoreInv
  <1>6. CASE Restart
    BY <1>6, RestartKeeps
  <1>7. CASE UNCHANGED vars
    <2>1. TxFits'
      BY <1>7 DEF vars, StoreInv, TxFits
    <2> QED BY <1>7, <2>1, TablesStay DEF vars, StoreInv
  <1> QED BY <1>1, <1>2, <1>3, <1>4, <1>5, <1>6, <1>7 DEF Next

LEMMA StoreInvAlways == Spec => []StoreInv
  BY StoreInvInit, StoreInvNext, PTL DEF Spec

LEMMA StoreInvTypes == StoreInv => TypeOK
  <1> SUFFICES ASSUME StoreInv PROVE TypeOK
    OBVIOUS
  <1>1. db \in Tables /\ KeysHold(db) /\ LogFits(db) /\ QueueFits(db) /\ RefusalsFit(db)
    BY DEF StoreInv, DbFits
  <1>2. {Envelope(r) : r \in {r \in db.events : r.node_id # CentralNode}} \subseteq Sent
    BY <1>1 DEF LogFits
  <1>3. \A r \in db.outbound : r.ord \in 1..db.drawn
    <2>1. \A r \in db.outbound : r.ord \in Nat \ {0} /\ r.ord <= db.drawn /\ db.drawn \in Nat
      BY <1>1 DEF QueueFits, Tables, QueueRows
    <2> QED BY <2>1
  <1>4. tx.of \in {"none", "AddReceived", "RegisterNode"}
    BY TxFacts DEF StoreInv, TxFits
  <1>5. central \in [seq : Nat, hl : Nat] /\ workload \in Workloads /\ calls \in 0..MaxCalls
    BY DEF StoreInv, ClockFits
  <1>6. /\ db.items \subseteq Master /\ db.purchase_orders \subseteq Orders
        /\ db.nodes \subseteq Nodes /\ db.receipts \subseteq Facts /\ db.decisions \subseteq Outcomes
    BY <1>1 DEF Tables
  <1> QED BY <1>1, <1>2, <1>3, <1>4, <1>5, <1>6 DEF TypeOK, KeysHold, RefusalsFit

\* The store is well typed: no table holds a key twice, whatever is retried, rolled back or cut
\* short by a crash (the primary keys of schema.sql), and every row is one the callers gave.
THEOREM TypeCorrect == Spec => []TypeOK
  BY StoreInvAlways, StoreInvTypes, PTL

-----------------------------------------------------------------------------
(* What central emits *)

\* All that stores an event.
LEMMA EventsStay ==
    ASSUME StoreInv, [Next]_vars
    PROVE  \/ db'.events = db.events
           \/ \E env \in Sent : AppendEvent(env)
           \/ \E cause \in {e.id : e \in Stored \cap Sent} \cup {NoEvent}, now \in Walls :
                 EmitCentral(cause, now)
  <1>1. db \in Tables
    BY DEF StoreInv, DbFits
  <1>2. ASSUME NEW n \in Nodes,
               \/ \E seq \in 1..Cardinality(Sent) : SetPushedSeq(n, seq)
               \/ \E r \in Queued(n) : SetDeliveredOrd(n, r.ord)
        PROVE  db'.events = db.events
    BY <1>1, <1>2 DEF SetPushedSeq, SetDeliveredOrd, SetCursor, Tables
  <1>3. ASSUME NEW n \in Nodes, NEW env \in Stored, Enqueue(n, env) PROVE db'.events = db.events
    BY <1>1, <1>3, EnqueueIs DEF Queueing, Tables
  <1>4. ASSUME NEW n \in Nodes, NEW refused \in Refusals, RegisterNode(n, refused)
        PROVE  db'.events = db.events
    BY <1>4 DEF RegisterNode
  <1>5. Simple => db'.events = db.events
    BY SimpleFits
  <1>6. ASSUME NEW a \in Arrived, MarkReceived(a) PROVE db'.events = db.events
    BY <1>6 DEF MarkReceived
  <1>7. CommitRegistration => db'.events = db.events
    BY <1>1, CommitIs DEF Registered, Tables
  <1>8. AddToRow => db'.events = db.events
    BY AddIs, FoldedFits DEF StoreInv
  <1>9. InsertReject \/ Rollback \/ Restart \/ UNCHANGED vars => db'.events = db.events
    BY DEF InsertReject, Rollback, Restart, vars
  <1> QED BY <1>2, <1>3, <1>4, <1>5, <1>6, <1>7, <1>8, <1>9 DEF Next, Write, Simple

LEMMA AppendStores ==
    ASSUME StoreInv, NEW env \in Sent, AppendEvent(env)
    PROVE  Stored' \subseteq Stored \cup {env}
  <1> DEFINE row == EventRow(env)
  <1>1. db'.events = InsertNew(db.events, row, {"node_id", "seq"})
    BY DEF AppendEvent, InsertEvent, StoreInv, DbFits, Tables
  <1>2. Envelope(row) = env
    BY SentFacts
  <1>3. db'.events \subseteq db.events \cup {row}
    BY <1>1 DEF InsertNew
  <1> HIDE DEF row
  <1> QED BY <1>2, <1>3 DEF Stored

LEMMA EmitStores ==
    ASSUME StoreInv, NEW cause \in {e.id : e \in Stored \cap Sent} \cup {NoEvent}, NEW now \in Walls,
           EmitCentral(cause, now)
    PROVE  Stored' \subseteq Stored \cup {Envelope(CentralRow(cause, now))}
  <1> DEFINE row == CentralRow(cause, now)
  <1>1. InsertNew(db.events, row, {"node_id", "seq"}) = db.events \cup {row}
    BY CentralRowFacts
  <1>2. db' = db \/ db' = [db EXCEPT !.events = InsertNew(@, row, {"node_id", "seq"})]
    BY DEF EmitCentral, InsertEvent, CentralRow
  <1> HIDE DEF row
  <1>3. db'.events \subseteq db.events \cup {row}
    BY <1>1, <1>2 DEF StoreInv, DbFits, Tables
  <1> QED BY <1>3 DEF Stored, row

SortsLast ==
    \A e \in Stored' \ Stored : e.id[1] = CentralNode =>
       \A f \in Stored :
          /\ f.id[1] = CentralNode => f.id[2] < e.id[2] /\ f.at < e.at
          /\ f.id = e.cause => f.at < e.at

LEMMA NextSortsLast == ASSUME StoreInv, [Next]_vars PROVE SortsLast
  <1>1. CASE db'.events = db.events
    BY <1>1 DEF Stored, SortsLast
  <1>2. ASSUME NEW env \in Sent, AppendEvent(env) PROVE SortsLast
    <2>1. env.id \in NodeIds
      BY SentFacts
    <2>2. env.id[1] \in Nodes
      BY <2>1 DEF NodeIds
    <2>3. env.id[1] # CentralNode
      BY <2>2, NodeNumbers
    <2> QED BY <1>2, <2>3, AppendStores DEF SortsLast
  <1>3. ASSUME NEW cause \in {e.id : e \in Stored \cap Sent} \cup {NoEvent}, NEW now \in Walls,
               EmitCentral(cause, now)
        PROVE  SortsLast
    <2> DEFINE env == [id |-> <<CentralNode, central.seq + 1>>, at |-> NextReading(cause, now),
                       cause |-> cause]
    <2>1. DbFits(db) /\ central \in [seq : Nat, hl : Nat]
      BY DEF StoreInv, ClockFits
    <2>2. Stored' \subseteq Stored \cup {env}
      BY <1>3, EmitStores, CentralRowFacts
    <2>3. /\ NextReading(cause, now) \in Nat /\ central.hl < NextReading(cause, now)
          /\ \A f \in Stored : cause # NoEvent /\ f.id = cause => f.at < NextReading(cause, now)
      BY <2>1, NextReadingFacts
    <2>4. env.id[2] = central.seq + 1 /\ env.at = NextReading(cause, now) /\ env.cause = cause
      OBVIOUS
    <2>5. ASSUME NEW f \in Stored
          PROVE  /\ f.id[1] = CentralNode => f.id[2] <= central.seq /\ f.at <= central.hl
                 /\ f.id[2] \in Nat \ {0} /\ f.at \in Nat
      <3>1. PICK r \in db.events : f = Envelope(r)
        BY DEF Stored
      <3>2. r \in EventRows
        BY <2>1 DEF DbFits, Tables
      <3>3. f.id = <<r.node_id, r.seq>> /\ f.at = r.hlc
        BY <3>1, <3>2, EventFacts
      <3>4. r.seq \in Nat \ {0} /\ r.hlc \in Nat
        BY <3>2 DEF EventRows
      <3>5. r.node_id = CentralNode => r.seq <= central.seq /\ r.hlc <= central.hl
        BY DEF StoreInv, ClockFits, Own
      <3> QED BY <3>3, <3>4, <3>5
    <2>6. \A f \in Stored : f.id # NoEvent
      BY <2>5 DEF NoEvent
    <2> HIDE DEF env
    <2>7. ASSUME NEW f \in Stored
          PROVE  /\ f.id[1] = CentralNode => f.id[2] < env.id[2] /\ f.at < env.at
                 /\ f.id = env.cause => f.at < env.at
      <3>1. central.seq \in Nat /\ central.hl \in Nat
        BY <2>1
      <3>2. f.id[1] = CentralNode => f.id[2] < env.id[2] /\ f.at < env.at
        BY <3>1, <2>3, <2>4, <2>5
      <3>3. f.id = env.cause => f.at < env.at
        BY <2>3, <2>4, <2>6
      <3> QED BY <3>2, <3>3
    <2> QED BY <2>2, <2>7 DEF SortsLast
  <1> QED BY <1>1, <1>2, <1>3, EventsStay

\* What central emits sorts after all it emitted before and after what it answers, under a
\* number never stored before, with any wall clock, failed inserts and restarts (EmitCentral,
\* recoverCentral).
THEOREM CentralSortsLastCorrect == Spec => CentralSortsLast
  <1>1. StoreInv /\ [Next]_vars => SortsLast
    BY NextSortsLast
  <1>2. (StoreInv /\ [Next]_vars =>
            [\A e \in Stored' \ Stored : e.id[1] = CentralNode =>
                \A f \in Stored :
                   /\ f.id[1] = CentralNode => f.id[2] < e.id[2] /\ f.at < e.at
                   /\ f.id = e.cause => f.at < e.at]_vars)
    BY <1>1 DEF SortsLast
  <1> QED BY <1>2, StoreInvAlways, PTL DEF Spec, CentralSortsLast

-----------------------------------------------------------------------------
(* The maps the tables stand for, table by table, from the tables and not from *)
(* the variables that hold them: Maps(db, central) is Loaded, and what becomes  *)
(* of the maps is what becomes of the arguments.                                *)

\* A table as a map, by one column or by two.
Column(T, c) == [k \in {r[c] : r \in T} |-> CHOOSE r \in T : r[c] = k]
Pairs(T, a, b) == [k \in {<<r[a], r[b]>> : r \in T} |-> CHOOSE r \in T : <<r[a], r[b]>> = k]
Quantities(T, a, b) ==
    [k \in {<<r[a], r[b]>> : r \in T} |-> (CHOOSE r \in T : <<r[a], r[b]>> = k).qty]

Envelopes(E) == {Envelope(r) : r \in E}
CursorOf(C, n, column) == Largest({r[column] : r \in {r \in C : r.node_id = n}})
RankIn(O, ord) == Cardinality({r \in O : r.ord <= ord})
QueuedIn(O, n) == {r \in O : r.target_node = n}
PlaceIn(O, r) == RankIn(QueuedIn(O, r.target_node), r.ord)
EventIn(S, r) == CHOOSE e \in S : e.id = <<r.node_id, r.seq>>
QueueOf(O, S, n) ==
    [i \in 1..Cardinality(QueuedIn(O, n)) |->
        LET r == CHOOSE r \in QueuedIn(O, n) : PlaceIn(O, r) = i
        IN [ord |-> RankIn(O, r.ord), env |-> EventIn(S, r)]]
QueuesOf(O, S) == [n \in Nodes |-> QueueOf(O, S, n)]
PushedOf(C) == [n \in Nodes |-> CursorOf(C, n, "pushed_seq")]
DeliveredOf(C, O) == [n \in Nodes |-> RankIn(O, CursorOf(C, n, "delivered_ord"))]
EnqueuedOf(O) == {<<r.target_node, <<r.node_id, r.seq>>>> : r \in O}
NodesOf(N, R) == [n \in N |-> {r.sku : r \in {r \in R : r.node_id = n}}]

Maps(d, c) ==
    [events |-> Column(Envelopes(d.events), "id"), centralHL |-> c.hl, centralN |-> c.seq,
     pushed |-> PushedOf(d.cursors), delivered |-> DeliveredOf(d.cursors, d.outbound),
     queue |-> QueuesOf(d.outbound, Envelopes(d.events)), nextOrd |-> Cardinality(d.outbound),
     enqueued |-> EnqueuedOf(d.outbound),
     items |-> Column(d.items, "sku"), orders |-> Quantities(d.purchase_orders, "po", "sku"),
     nodes |-> NodesOf(d.nodes, d.node_rejects), receipts |-> Column(d.receipts, "event"),
     transit |-> Pairs(d.in_transit, "transfer", "sku"),
     folded |-> Quantities(d.transfer_receipts, "event", "sku"),
     decisions |-> Column(d.decisions, "event")]

LEMMA LoadedIs == Loaded = Maps(db, central)
  <1>1. /\ ByKey(Stored, LAMBDA e : e.id, Whole) = Column(Envelopes(db.events), "id")
        /\ ByKey(db.items, LAMBDA r : r.sku, Whole) = Column(db.items, "sku")
        /\ ByKey(db.receipts, LAMBDA r : r.event, Whole) = Column(db.receipts, "event")
        /\ ByKey(db.decisions, LAMBDA r : r.event, Whole) = Column(db.decisions, "event")
    BY DEF ByKey, Whole, Column, Envelopes, Stored
  <1>2. /\ ByKey(db.in_transit, LAMBDA r : <<r.transfer, r.sku>>, Whole)
             = Pairs(db.in_transit, "transfer", "sku")
        /\ ByKey(db.purchase_orders, LAMBDA r : <<r.po, r.sku>>, LAMBDA r : r.qty)
             = Quantities(db.purchase_orders, "po", "sku")
        /\ ByKey(db.transfer_receipts, LAMBDA r : <<r.event, r.sku>>, LAMBDA r : r.qty)
             = Quantities(db.transfer_receipts, "event", "sku")
    BY DEF ByKey, Whole, Pairs, Quantities
  <1>3. ByKey(db.nodes, Whole, LAMBDA n : {r.sku : r \in {r \in db.node_rejects : r.node_id = n}})
          = NodesOf(db.nodes, db.node_rejects)
    <2>1. db.nodes = {Whole(r) : r \in db.nodes}
      BY DEF Whole
    <2>2. \A n \in db.nodes : (CHOOSE r \in db.nodes : Whole(r) = n) = n
      BY DEF Whole
    <2> QED BY <2>1, <2>2 DEF ByKey, NodesOf
  <1>4. [n \in Nodes |-> PushedSeq(n)] = PushedOf(db.cursors)
    BY DEF PushedSeq, Cursor, PushedOf, CursorOf
  <1>5. [n \in Nodes |-> Rank(DeliveredOrd(n))] = DeliveredOf(db.cursors, db.outbound)
    BY DEF DeliveredOrd, Cursor, DeliveredOf, CursorOf, Rank, RankIn
  <1>6. [n \in Nodes |-> InOrder(n)] = QueuesOf(db.outbound, Envelopes(db.events))
    BY DEF InOrder, QueuesOf, QueueOf, Queued, QueuedIn, Place, PlaceIn, EventOf, EventIn, Rank,
           RankIn, Stored, Envelopes
  <1>7. {<<r.target_node, <<r.node_id, r.seq>>>> : r \in db.outbound} = EnqueuedOf(db.outbound)
    BY DEF EnqueuedOf
  <1> QED BY <1>1, <1>2, <1>3, <1>4, <1>5, <1>6, <1>7 DEF Loaded, Maps

LEMMA LoadedNext == Loaded' = Maps(db', central')
  <1>1. (Loaded = Maps(db, central))'
    BY LoadedIs, PTL
  <1> QED BY <1>1 DEF Maps

-----------------------------------------------------------------------------
(* Changing one map *)

\* A map with one key set.
Assigned(f, k, v) == [x \in DOMAIN f \cup {k} |-> IF x = k THEN v ELSE f[x]]

LEMMA PutIs ==
    /\ \A f, k, v : Memory!Put(f, k, v) = Assigned(f, k, v)
    /\ \A f, k : Memory!Has(f, k) <=> k \in DOMAIN f
  BY DEF Memory!Put, Memory!Has, Assigned

\* A row that takes the place of the one with its key, by one column and by two.
LEMMA ColumnReplaced ==
    ASSUME NEW T, NEW row, NEW c, Unique(T, {c})
    PROVE  Column(Replacing(T, row, {c}), c) = Assigned(Column(T, c), row[c], row)
  <1> DEFINE U == Replacing(T, row, {c})
  <1>1. /\ \A r, s \in T : r[c] = s[c] => r = s
        /\ \A r : r \in U <=> r = row \/ (r \in T /\ r[c] # row[c])
    BY DEF Unique, Replacing, Conflicting
  <1> HIDE DEF U
  <1>2. \A r \in U : (CHOOSE s \in U : s[c] = r[c]) = r
    BY <1>1
  <1>3. \A r \in T : (CHOOSE s \in T : s[c] = r[c]) = r
    BY <1>1
  <1>4. {r[c] : r \in U} = {r[c] : r \in T} \cup {row[c]}
    BY <1>1
  <1>5. \A k \in {r[c] : r \in U} :
           (CHOOSE r \in U : r[c] = k) = IF k = row[c] THEN row ELSE CHOOSE r \in T : r[c] = k
    BY <1>1, <1>2, <1>3
  <1> QED BY <1>4, <1>5 DEF Column, Assigned, U

LEMMA ColumnFacts ==
    ASSUME NEW T, NEW c, Unique(T, {c})
    PROVE  /\ DOMAIN Column(T, c) = {r[c] : r \in T}
           /\ \A r \in T : Column(T, c)[r[c]] = r
  <1>1. \A r, s \in T : r[c] = s[c] => r = s
    BY DEF Unique
  <1>2. \A r \in T : (CHOOSE s \in T : s[c] = r[c]) = r
    BY <1>1
  <1> QED BY <1>2 DEF Column

LEMMA PairsReplaced ==
    ASSUME NEW T, NEW row, NEW a, NEW b, Unique(T, {a, b})
    PROVE  /\ Pairs(Replacing(T, row, {a, b}), a, b) = Assigned(Pairs(T, a, b), <<row[a], row[b]>>, row)
           /\ Quantities(Replacing(T, row, {a, b}), a, b)
                = Assigned(Quantities(T, a, b), <<row[a], row[b]>>, row.qty)
  <1> DEFINE U == Replacing(T, row, {a, b})
             K(r) == <<r[a], r[b]>>
  <1>1. /\ \A r, s \in T : K(r) = K(s) => r = s
        /\ \A r : r \in U <=> r = row \/ (r \in T /\ K(r) # K(row))
    BY DEF Unique, Replacing, Conflicting
  <1> HIDE DEF U, K
  <1>2. \A r \in U : (CHOOSE s \in U : K(s) = K(r)) = r
    BY <1>1
  <1>3. \A r \in T : (CHOOSE s \in T : K(s) = K(r)) = r
    BY <1>1
  <1>4. {K(r) : r \in U} = {K(r) : r \in T} \cup {K(row)}
    BY <1>1
  <1>5. \A k \in {K(r) : r \in U} :
           (CHOOSE r \in U : K(r) = k) = IF k = K(row) THEN row ELSE CHOOSE r \in T : K(r) = k
    BY <1>1, <1>2, <1>3
  <1>6. [k \in {K(r) : r \in U} |-> CHOOSE r \in U : K(r) = k]
          = Assigned([k \in {K(r) : r \in T} |-> CHOOSE r \in T : K(r) = k], K(row), row)
    BY <1>4, <1>5 DEF Assigned
  <1>7. Pairs(Replacing(T, row, {a, b}), a, b) = Assigned(Pairs(T, a, b), <<row[a], row[b]>>, row)
    BY <1>6 DEF Pairs, K, U
  <1>8. \A X : Quantities(X, a, b) = [k \in DOMAIN Pairs(X, a, b) |-> Pairs(X, a, b)[k].qty]
    BY DEF Quantities, Pairs
  <1>9. ASSUME NEW P, NEW k
        PROVE  LET Q == Assigned(P, k, row)
               IN [x \in DOMAIN Q |-> Q[x].qty] = Assigned([x \in DOMAIN P |-> P[x].qty], k, row.qty)
    BY DEF Assigned
  <1> QED BY <1>7, <1>8, <1>9

LEMMA PairsFacts ==
    ASSUME NEW T, NEW a, NEW b, Unique(T, {a, b})
    PROVE  /\ DOMAIN Pairs(T, a, b) = {<<r[a], r[b]>> : r \in T}
           /\ DOMAIN Quantities(T, a, b) = {<<r[a], r[b]>> : r \in T}
           /\ \A r \in T : Pairs(T, a, b)[<<r[a], r[b]>>] = r
  <1>1. \A r, s \in T : <<r[a], r[b]>> = <<s[a], s[b]>> => r = s
    BY DEF Unique
  <1>2. \A r \in T : (CHOOSE s \in T : <<s[a], s[b]>> = <<r[a], r[b]>>) = r
    BY <1>1
  <1> QED BY <1>2 DEF Pairs, Quantities

-----------------------------------------------------------------------------
(* What becomes of the maps when a table changes *)

MapNames == {"events", "centralHL", "centralN", "pushed", "delivered", "queue", "nextOrd",
   "enqueued", "items", "orders", "nodes", "receipts", "transit", "folded", "decisions"}
TableNames == {"events", "cursors", "outbound", "drawn", "items", "purchase_orders", "nodes",
   "node_rejects", "receipts", "in_transit", "transfer_receipts", "decisions"}

\* A record with these fields.
Shaped(M, names) == M = [f \in names |-> M[f]]

LEMMA Changed ==
    ASSUME NEW names, NEW M, Shaped(M, names), NEW f \in names, NEW v
    PROVE  /\ Shaped([M EXCEPT ![f] = v], names)
           /\ \A g \in names : [M EXCEPT ![f] = v][g] = IF g = f THEN v ELSE M[g]
  BY DEF Shaped

LEMMA SameFields ==
    ASSUME NEW names, NEW M, NEW N, Shaped(M, names), Shaped(N, names), \A f \in names : M[f] = N[f]
    PROVE  M = N
  BY DEF Shaped

LEMMA Shapes ==
    /\ \A d, c : Shaped(Maps(d, c), MapNames)
    /\ \A d \in Tables : Shaped(d, TableNames)
  <1>1. \A d, c : Shaped(Maps(d, c), MapNames)
    BY DEF Shaped, Maps, MapNames
  <1>2. \A d \in Tables : Shaped(d, TableNames)
    BY DEF Shaped, Tables, TableNames
  <1> QED BY <1>1, <1>2

\* Tables that differ in no others than these.
Others(d, e, names) ==
    Shaped(d, TableNames) /\ Shaped(e, TableNames) /\ \A g \in TableNames \ names : e[g] = d[g]

LEMMA MapsOfItems ==
    ASSUME NEW d \in Tables, NEW c, NEW T
    PROVE  Maps([d EXCEPT !.items = T], c) = [Maps(d, c) EXCEPT !.items = Column(T, "sku")]
  BY DEF Maps, Tables

LEMMA MapsOfOrders ==
    ASSUME NEW d \in Tables, NEW c, NEW T
    PROVE  Maps([d EXCEPT !.purchase_orders = T], c)
             = [Maps(d, c) EXCEPT !.orders = Quantities(T, "po", "sku")]
  BY DEF Maps, Tables

LEMMA MapsOfReceipts ==
    ASSUME NEW d \in Tables, NEW c, NEW T
    PROVE  Maps([d EXCEPT !.receipts = T], c) = [Maps(d, c) EXCEPT !.receipts = Column(T, "event")]
  BY DEF Maps, Tables

LEMMA MapsOfTransit ==
    ASSUME NEW d \in Tables, NEW c, NEW T
    PROVE  Maps([d EXCEPT !.in_transit = T], c) = [Maps(d, c) EXCEPT !.transit = Pairs(T, "transfer", "sku")]
  BY DEF Maps, Tables

LEMMA MapsOfDecisions ==
    ASSUME NEW d \in Tables, NEW c, NEW T
    PROVE  Maps([d EXCEPT !.decisions = T], c) = [Maps(d, c) EXCEPT !.decisions = Column(T, "event")]
  BY DEF Maps, Tables

-----------------------------------------------------------------------------
(* Statements on the reference data, the receipts and the decisions *)

LEMMA UpsertItemMaps ==
    ASSUME StoreInv, NEW item \in Master, UpsertItem(item) PROVE Memory!UpsertItem(item)
  <1> DEFINE T == db.items
             key == {"sku"}
  <1>1. db \in Tables /\ T \in SUBSET Master /\ Unique(T, key)
    BY DEF StoreInv, DbFits, Tables, KeysHold
  <1>2. db' = [db EXCEPT !.items = Replacing(T, item, key)] /\ central' = central
    BY <1>1, UpsertsReplace DEF UpsertItem, Statement
  <1>3. Column(Replacing(T, item, key), "sku") = Assigned(Column(T, "sku"), item.sku, item)
    BY <1>1, ColumnReplaced
  <1>4. Loaded = Maps(db, central) /\ Loaded' = Maps(db', central)
    BY <1>2, LoadedIs, LoadedNext
  <1>5a. \A U : Maps([db EXCEPT !.items = U], central)
               = [Maps(db, central) EXCEPT !.items = Column(U, "sku")]
    BY <1>1, MapsOfItems
  <1>5. Loaded' = [Loaded EXCEPT !.items = Assigned(Column(T, "sku"), item.sku, item)]
    BY <1>1, <1>2, <1>3, <1>4, <1>5a
  <1>6. Loaded.items = Column(T, "sku")
    BY <1>4 DEF Maps
  <1> QED BY <1>5, <1>6, PutIs DEF Memory!UpsertItem

LEMMA UpsertOrderMaps ==
    ASSUME StoreInv, NEW line \in Orders, UpsertPurchaseOrder(line)
    PROVE  Memory!UpsertPurchaseOrder(line)
  <1> DEFINE T == db.purchase_orders
             key == {"po", "sku"}
             M == Quantities(T, "po", "sku")
  <1>1. db \in Tables /\ T \in SUBSET Orders /\ Unique(T, key)
    BY DEF StoreInv, DbFits, Tables, KeysHold
  <1>2. db' = [db EXCEPT !.purchase_orders = Replacing(T, line, key)] /\ central' = central
    BY <1>1, UpsertsReplace DEF UpsertPurchaseOrder, Statement
  <1>3. Quantities(Replacing(T, line, key), "po", "sku") = Assigned(M, <<line.po, line.sku>>, line.qty)
    BY <1>1, PairsReplaced
  <1>4. Loaded = Maps(db, central) /\ Loaded' = Maps(db', central)
    BY <1>2, LoadedIs, LoadedNext
  <1>5a. \A U : Maps([db EXCEPT !.purchase_orders = U], central)
               = [Maps(db, central) EXCEPT !.orders = Quantities(U, "po", "sku")]
    BY <1>1, MapsOfOrders
  <1>5. Loaded' = [Loaded EXCEPT !.orders = Assigned(M, <<line.po, line.sku>>, line.qty)]
    BY <1>1, <1>2, <1>3, <1>4, <1>5a
  <1>6. Loaded.orders = M
    BY <1>4 DEF Maps
  <1> QED BY <1>5, <1>6, PutIs DEF Memory!UpsertPurchaseOrder

LEMMA RecordDecisionMaps ==
    ASSUME StoreInv, NEW x \in Outcomes, RecordDecision(x) PROVE Memory!RecordDecision(x)
  <1> DEFINE T == db.decisions
             key == {"event"}
  <1>1. db \in Tables /\ T \in SUBSET Outcomes /\ Unique(T, key)
    BY DEF StoreInv, DbFits, Tables, KeysHold
  <1>2. db' = [db EXCEPT !.decisions = Replacing(T, x, key)] /\ central' = central
    BY <1>1, UpsertsReplace DEF RecordDecision, Statement
  <1>3. Column(Replacing(T, x, key), "event") = Assigned(Column(T, "event"), x.event, x)
    BY <1>1, ColumnReplaced
  <1>4. Loaded = Maps(db, central) /\ Loaded' = Maps(db', central)
    BY <1>2, LoadedIs, LoadedNext
  <1>5a. \A U : Maps([db EXCEPT !.decisions = U], central)
               = [Maps(db, central) EXCEPT !.decisions = Column(U, "event")]
    BY <1>1, MapsOfDecisions
  <1>5. Loaded' = [Loaded EXCEPT !.decisions = Assigned(Column(T, "event"), x.event, x)]
    BY <1>1, <1>2, <1>3, <1>4, <1>5a
  <1>6. Loaded.decisions = Column(T, "event")
    BY <1>4 DEF Maps
  <1> QED BY <1>5, <1>6, PutIs DEF Memory!RecordDecision

LEMMA InsertedNew ==
    ASSUME NEW T, NEW row, NEW key
    PROVE  InsertNew(T, row, key) =
             IF Conflicting(T, row, key) = {} THEN Replacing(T, row, key) ELSE T
  BY DEF InsertNew, Replacing

LEMMA RecordReceiptMaps ==
    ASSUME StoreInv, NEW f \in Facts, RecordReceipt(f) PROVE Memory!RecordReceipt(f)
  <1> DEFINE T == db.receipts
             key == {"event"}
             M == Column(T, "event")
  <1>1. db \in Tables /\ T \in SUBSET Facts /\ Unique(T, key)
    BY DEF StoreInv, DbFits, Tables, KeysHold
  <1>2. db' = [db EXCEPT !.receipts = InsertNew(T, f, key)] /\ central' = central
    BY <1>1 DEF RecordReceipt, Statement, Tables
  <1>3. Loaded = Maps(db, central) /\ Loaded' = Maps(db', central)
    BY <1>2, LoadedIs, LoadedNext
  <1>4. Loaded.receipts = M
    BY <1>3 DEF Maps
  <1>5. Conflicting(T, f, key) = {} <=> f.event \notin DOMAIN M
    <2>1. DOMAIN M = {r.event : r \in T}
      BY DEF Column
    <2> QED BY <2>1 DEF Conflicting
  <1>6. CASE Conflicting(T, f, key) = {}
    <2>1. Column(InsertNew(T, f, key), "event") = Assigned(M, f.event, f)
      BY <1>1, <1>6, ColumnReplaced, InsertedNew
    <2>2a. \A U : Maps([db EXCEPT !.receipts = U], central)
                 = [Maps(db, central) EXCEPT !.receipts = Column(U, "event")]
      BY <1>1, MapsOfReceipts
    <2>2. Loaded' = [Loaded EXCEPT !.receipts = Assigned(M, f.event, f)]
      BY <1>1, <1>2, <1>3, <2>1, <2>2a
    <2> QED BY <1>4, <1>5, <1>6, <2>2, PutIs DEF Memory!RecordReceipt
  <1>7. CASE Conflicting(T, f, key) # {}
    <2>1. db' = db
      BY <1>1, <1>2, <1>7 DEF InsertNew, Tables
    <2> QED BY <1>3, <1>4, <1>5, <1>7, <2>1, PutIs DEF Memory!RecordReceipt
  <1> QED BY <1>6, <1>7

-----------------------------------------------------------------------------
(* Statements on transfers *)

\* A row that changes in what is not its key.
LEMMA RowReplaced ==
    ASSUME NEW T \in SUBSET TransitRows, NEW r \in T, NEW s \in TransitRows,
           Unique(T, TransitKey), s.transfer = r.transfer, s.sku = r.sku
    PROVE  /\ Conflicting(T, s, TransitKey) = {r}
           /\ (T \ {r}) \cup {s} = Replacing(T, s, TransitKey)
           /\ Pairs((T \ {r}) \cup {s}, "transfer", "sku")
                = [Pairs(T, "transfer", "sku") EXCEPT ![<<r.transfer, r.sku>>] = s]
  <1>1. \A u, v \in T : u.transfer = v.transfer /\ u.sku = v.sku => u = v
    BY DEF Unique, TransitKey
  <1>2. Conflicting(T, s, TransitKey) = {r}
    <2>1. Conflicting(T, s, TransitKey) = {u \in T : u.transfer = s.transfer /\ u.sku = s.sku}
      BY RowFacts
    <2> QED BY <1>1, <2>1
  <1>3. (T \ {r}) \cup {s} = Replacing(T, s, TransitKey)
    BY <1>2 DEF Replacing
  <1>4. Pairs(Replacing(T, s, TransitKey), "transfer", "sku")
          = Assigned(Pairs(T, "transfer", "sku"), <<s.transfer, s.sku>>, s)
    BY PairsReplaced DEF TransitKey
  <1>5. <<r.transfer, r.sku>> \in DOMAIN Pairs(T, "transfer", "sku")
    BY DEF Pairs
  <1>6. ASSUME NEW P, P = [k \in DOMAIN P |-> P[k]], NEW k \in DOMAIN P
        PROVE  Assigned(P, k, s) = [P EXCEPT ![k] = s]
    BY <1>6 DEF Assigned
  <1>7. Pairs(T, "transfer", "sku")
          = [k \in DOMAIN Pairs(T, "transfer", "sku") |-> Pairs(T, "transfer", "sku")[k]]
    BY DEF Pairs
  <1> QED BY <1>2, <1>3, <1>4, <1>5, <1>6, <1>7

LEMMA RecordDispatchMaps ==
    ASSUME StoreInv, NEW row \in Dispatched, RecordDispatch(row)
    PROVE  Memory!RecordDispatch(row)
  <1> DEFINE T == db.in_transit
             M == Pairs(T, "transfer", "sku")
             key == <<row.transfer, row.sku>>
             old == Conflicting(T, row, TransitKey)
             U == Upsert(T, row, TransitKey, {"dispatched"})
  <1>1. /\ db \in Tables /\ T \in SUBSET TransitRows /\ Unique(T, TransitKey)
        /\ \A u, v \in T : u.transfer = v.transfer /\ u.sku = v.sku => u = v
        /\ old = {r \in T : r.transfer = row.transfer /\ r.sku = row.sku}
    BY RowFacts DEF StoreInv, DbFits, Tables, KeysHold, Unique, TransitKey
  <1>2. db' = [db EXCEPT !.in_transit = U] /\ central' = central
    BY <1>1 DEF RecordDispatch, Statement, Tables
  <1>3. Loaded = Maps(db, central) /\ Loaded' = Maps(db', central)
    BY <1>2, LoadedIs, LoadedNext
  <1>4. Loaded.transit = M
    BY <1>3 DEF Maps
  <1>5. U = IF old = {} THEN T \cup {row} ELSE (T \ old) \cup {SetDispatched(r, row) : r \in old}
    BY <1>1, DispatchIs
  <1>6. DOMAIN M = {<<r.transfer, r.sku>> : r \in T} /\ \A r \in T : M[<<r.transfer, r.sku>>] = r
    <2>1. \A r \in T : (CHOOSE s \in T : <<s.transfer, s.sku>> = <<r.transfer, r.sku>>) = r
      BY <1>1
    <2> QED BY <2>1 DEF Pairs
  <1>7. Loaded' = [Loaded EXCEPT !.transit = Pairs(U, "transfer", "sku")]
    <2> HIDE DEF U
    <2> QED BY <1>1, <1>2, <1>3, MapsOfTransit
  <1> HIDE DEF U
  <1>8. CASE old = {}
    <2>1. U = Replacing(T, row, TransitKey)
      BY <1>5, <1>8 DEF Replacing
    <2>2. Pairs(U, "transfer", "sku") = Assigned(M, key, row)
      BY <1>1, <2>1, PairsReplaced DEF TransitKey
    <2>3. key \notin DOMAIN M
      BY <1>1, <1>6, <1>8
    <2> QED BY <1>4, <1>7, <2>2, <2>3, PutIs DEF Memory!RecordDispatch
  <1>9. ASSUME NEW r \in old
        PROVE  Memory!RecordDispatch(row)
    <2>1. old = {r} /\ r \in T /\ r.transfer = row.transfer /\ r.sku = row.sku
      BY <1>1
    <2>2. row \in TransitRows /\ r \in TransitRows
      BY <1>1, <2>1, RowFacts
    <2> DEFINE s == SetDispatched(r, row)
    <2>3. s \in TransitRows /\ s.transfer = r.transfer /\ s.sku = r.sku
      BY <2>2 DEF SetDispatched, TransitRows
    <2>4. U = (T \ {r}) \cup {s}
      BY <1>5, <2>1
    <2> HIDE DEF s
    <2>5. Pairs(U, "transfer", "sku") = [M EXCEPT ![key] = s]
      BY <1>1, <2>1, <2>3, <2>4, RowReplaced
    <2>6. key \in DOMAIN M /\ M[key] = r
      BY <1>6, <2>1
    <2>7. [M EXCEPT ![key].dispatched = row.dispatched] = [M EXCEPT ![key] = s]
      BY <2>6 DEF s, SetDispatched
    <2> QED BY <1>4, <1>7, <2>5, <2>6, <2>7, PutIs DEF Memory!RecordDispatch
  <1> QED BY <1>8, <1>9

LEMMA FailTransferMaps ==
    ASSUME StoreInv, NEW transfer, FailTransfer(transfer) PROVE Memory!FailTransfer(transfer)
  <1> DEFINE T == db.in_transit
             M == Pairs(T, "transfer", "sku")
             U == {Failing(r, transfer) : r \in T}
  <1>1. /\ db \in Tables /\ T \in SUBSET TransitRows
        /\ \A u, v \in T : u.transfer = v.transfer /\ u.sku = v.sku => u = v
    BY DEF StoreInv, DbFits, Tables, KeysHold, Unique, TransitKey
  <1>2. db' = [db EXCEPT !.in_transit = U] /\ central' = central
    BY <1>1 DEF FailTransfer, Statement, Tables, Failing
  <1>3. Loaded = Maps(db, central) /\ Loaded' = Maps(db', central)
    BY <1>2, LoadedIs, LoadedNext
  <1>4. Loaded.transit = M
    BY <1>3 DEF Maps
  <1>5. Loaded' = [Loaded EXCEPT !.transit = Pairs(U, "transfer", "sku")]
    <2> HIDE DEF U
    <2> QED BY <1>1, <1>2, <1>3, MapsOfTransit
  <1>6. \A r \in T : /\ Failing(r, transfer).transfer = r.transfer
                     /\ Failing(r, transfer).sku = r.sku
    BY <1>1 DEF Failing, TransitRows
  <1>7. \A u, v \in U : u.transfer = v.transfer /\ u.sku = v.sku => u = v
    BY <1>1, <1>6
  <1>8. DOMAIN M = {<<r.transfer, r.sku>> : r \in T} /\ \A r \in T : M[<<r.transfer, r.sku>>] = r
    <2>1. \A r \in T : (CHOOSE s \in T : <<s.transfer, s.sku>> = <<r.transfer, r.sku>>) = r
      BY <1>1
    <2> QED BY <2>1 DEF Pairs
  <1>9. /\ {<<u.transfer, u.sku>> : u \in U} = {<<r.transfer, r.sku>> : r \in T}
        /\ \A r \in T : (CHOOSE u \in U : <<u.transfer, u.sku>> = <<r.transfer, r.sku>>)
                          = Failing(r, transfer)
    <2>1. {<<u.transfer, u.sku>> : u \in U} = {<<r.transfer, r.sku>> : r \in T}
      BY <1>6
    <2>2. \A u \in U : (CHOOSE v \in U : <<v.transfer, v.sku>> = <<u.transfer, u.sku>>) = u
      <3> HIDE DEF U
      <3> QED BY <1>7
    <2> QED BY <1>6, <2>1, <2>2
  <1>10. Pairs(U, "transfer", "sku")
           = [key \in DOMAIN M |-> IF key[1] = transfer THEN [M[key] EXCEPT !.failed = TRUE]
                                   ELSE M[key]]
    <2> DEFINE F(key) == IF key[1] = transfer THEN [M[key] EXCEPT !.failed = TRUE] ELSE M[key]
               C(key) == CHOOSE u \in U : <<u.transfer, u.sku>> = key
    <2>1. \A r \in T : F(<<r.transfer, r.sku>>) = Failing(r, transfer)
      BY <1>8 DEF Failing
    <2>2. \A r \in T : C(<<r.transfer, r.sku>>) = F(<<r.transfer, r.sku>>)
      BY <1>9, <2>1
    <2>3. Pairs(U, "transfer", "sku") = [key \in {<<r.transfer, r.sku>> : r \in T} |-> C(key)]
      BY <1>9 DEF Pairs
    <2> HIDE DEF U, M, F, C
    <2>4. \A key \in {<<r.transfer, r.sku>> : r \in T} : C(key) = F(key)
      BY <2>2
    <2>5. Pairs(U, "transfer", "sku") = [key \in DOMAIN M |-> F(key)]
      BY <1>8, <2>3, <2>4
    <2> QED BY <2>5 DEF F
  <1> QED BY <1>4, <1>5, <1>10 DEF Memory!FailTransfer

\* The maps a fold changes.
WithFold(M, F, P) == [M EXCEPT !.folded = F, !.transit = P]

LEMMA MapsOfFold ==
    ASSUME NEW d, NEW e, NEW c, Others(d, e, {"transfer_receipts", "in_transit"})
    PROVE  Maps(e, c) = WithFold(Maps(d, c), Quantities(e.transfer_receipts, "event", "sku"),
                                 Pairs(e.in_transit, "transfer", "sku"))
  <1> DEFINE M == Maps(d, c)
             F == Quantities(e.transfer_receipts, "event", "sku")
             P == Pairs(e.in_transit, "transfer", "sku")
             A == [M EXCEPT !.folded = F]
             B == [A EXCEPT !.transit = P]
  <1>1. Shaped(M, MapNames)
    BY Shapes
  <1>2. Shaped(A, MapNames) /\ \A g \in MapNames : A[g] = IF g = "folded" THEN F ELSE M[g]
    <2> HIDE DEF M, F
    <2> QED BY <1>1, Changed DEF MapNames
  <1>3. Shaped(B, MapNames) /\ \A g \in MapNames : B[g] = IF g = "transit" THEN P ELSE A[g]
    <2> HIDE DEF M, P, A
    <2> QED BY <1>2, Changed DEF MapNames
  <1>4. B = WithFold(M, F, P)
    BY DEF WithFold
  <1> HIDE DEF A, B
  <1>6. \A g \in MapNames : Maps(e, c)[g] = B[g]
    BY <1>2, <1>3 DEF MapNames, TableNames, Others, Maps, M, F, P
  <1>7. Maps(e, c) = B
    BY <1>3, <1>6, Shapes, SameFields
  <1> QED BY <1>4, <1>7

LEMMA FoldQuantities ==
    ASSUME NEW R, NEW mark, Unique(R, {"event", "sku"})
    PROVE  Quantities(Replacing(R, mark, {"event", "sku"}), "event", "sku")
             = Assigned(Quantities(R, "event", "sku"), <<mark.event, mark.sku>>, mark.qty)
  BY PairsReplaced

LEMMA FoldMaps ==
    ASSUME StoreInv, NEW a \in Arrived,
           Conflicting(db.transfer_receipts, MarkOf(a), {"event", "sku"}) = {},
           Conflicting(db.in_transit, a, TransitKey) # {},
           db' = Folded(db, a), central' = central
    PROVE  Memory!AddReceived(a)
  <1> DEFINE T == db.in_transit
             R == db.transfer_receipts
             M == Pairs(T, "transfer", "sku")
             F == Quantities(R, "event", "sku")
             key == <<a.transfer, a.sku>>
             fold == <<a.event, a.sku>>
             rows == Conflicting(T, a, TransitKey)
             U == (T \ rows) \cup Added(rows, a.qty)
  <1>1. /\ db \in Tables /\ T \in SUBSET TransitRows /\ Unique(T, TransitKey)
        /\ \A u, v \in T : u.transfer = v.transfer /\ u.sku = v.sku => u = v
        /\ rows = {r \in T : r.transfer = a.transfer /\ r.sku = a.sku}
        /\ Unique(R, {"event", "sku"})
    BY RowFacts DEF StoreInv, DbFits, Tables, KeysHold, Unique, TransitKey
  <1>2. db' = [db EXCEPT !.transfer_receipts = R \cup {MarkOf(a)}, !.in_transit = U]
    BY <1>1 DEF Folded, Tables
  <1>3. Loaded = Maps(db, central) /\ Loaded' = Maps(db', central)
    BY LoadedIs, LoadedNext
  <1>4. Loaded.transit = M /\ Loaded.folded = F
    BY <1>3 DEF Maps
  <1>5. Quantities(R \cup {MarkOf(a)}, "event", "sku") = Assigned(F, fold, a.qty)
    <2> DEFINE mark == MarkOf(a)
    <2>1. mark.event = a.event /\ mark.sku = a.sku /\ mark.qty = a.qty
      BY DEF MarkOf
    <2>2. Replacing(R, mark, {"event", "sku"}) = R \cup {mark}
      BY DEF Replacing
    <2> HIDE DEF mark
    <2>3. Quantities(Replacing(R, mark, {"event", "sku"}), "event", "sku")
            = Assigned(F, <<mark.event, mark.sku>>, mark.qty)
      BY <1>1, FoldQuantities
    <2> QED BY <2>1, <2>2, <2>3 DEF mark
  <1>6. fold \notin DOMAIN F
    <2>1. \A r \in R : ~ (r.event = a.event /\ r.sku = a.sku)
      BY DEF Conflicting, MarkOf
    <2> QED BY <2>1 DEF Quantities
  <1>7. PICK r \in T : rows = {r} /\ r.transfer = a.transfer /\ r.sku = a.sku
    BY <1>1
  <1> DEFINE s == Receiving(r, a.qty)
  <1>8. s \in TransitRows /\ s.transfer = r.transfer /\ s.sku = r.sku
    <2>1. r \in TransitRows /\ a.qty \in Nat
      BY <1>1, StoreCallsAssumption
    <2> QED BY <2>1 DEF Receiving, TransitRows
  <1>9. U = (T \ {r}) \cup {s}
    BY <1>7 DEF Added, Receiving
  <1>10. Loaded' = WithFold(Loaded, Assigned(F, fold, a.qty), Pairs(U, "transfer", "sku"))
    <2> HIDE DEF U
    <2>1. Others(db, db', {"transfer_receipts", "in_transit"})
      BY <1>1, <1>2 DEF Others, Shaped, Tables, TableNames
    <2>2. /\ db'.transfer_receipts = R \cup {MarkOf(a)}
          /\ db'.in_transit = U
      BY <1>1, <1>2 DEF Tables
    <2> QED BY <1>3, <1>5, <2>1, <2>2, MapsOfFold
  <1> HIDE DEF U, s
  <1>11. Pairs(U, "transfer", "sku") = [M EXCEPT ![key] = s]
    BY <1>1, <1>7, <1>8, <1>9, RowReplaced
  <1>12. key \in DOMAIN M /\ M[key] = r
    <2>1. \A u \in T : (CHOOSE v \in T : <<v.transfer, v.sku>> = <<u.transfer, u.sku>>) = u
      BY <1>1
    <2> QED BY <1>7, <2>1 DEF Pairs
  <1>13. [M EXCEPT ![key].received = @ + a.qty] = [M EXCEPT ![key] = s]
    BY <1>12 DEF s, Receiving
  <1> HIDE DEF M, F, key, fold
  <1>14. WithFold(Loaded, Assigned(F, fold, a.qty), [M EXCEPT ![key] = s])
           = [Loaded EXCEPT !.folded = Memory!Put(@, fold, a.qty),
                            !.transit[key].received = @ + a.qty]
    <2>1. Loaded.transit = M /\ Loaded.folded = F
      BY <1>4
    <2> HIDE DEF Loaded
    <2> QED BY <2>1, <1>3, <1>13, PutIs DEF Maps, WithFold
  <1> QED BY <1>4, <1>6, <1>10, <1>11, <1>12, <1>14, PutIs DEF Memory!AddReceived, key, fold

LEMMA MapsOfNodes ==
    ASSUME NEW d, NEW e, NEW c, Others(d, e, {"nodes", "node_rejects"})
    PROVE  Maps(e, c) = [Maps(d, c) EXCEPT !.nodes = NodesOf(e.nodes, e.node_rejects)]
  <1> DEFINE M == Maps(d, c)
             N == NodesOf(e.nodes, e.node_rejects)
             A == [M EXCEPT !.nodes = N]
  <1>1. Shaped(M, MapNames)
    BY Shapes
  <1>2. Shaped(A, MapNames) /\ \A g \in MapNames : A[g] = IF g = "nodes" THEN N ELSE M[g]
    <2> HIDE DEF M, N
    <2> QED BY <1>1, Changed DEF MapNames
  <1> HIDE DEF A
  <1>3. \A g \in MapNames : Maps(e, c)[g] = A[g]
    BY <1>2 DEF MapNames, TableNames, Others, Maps, M, N
  <1>4. Maps(e, c) = A
    BY <1>2, <1>3, Shapes, SameFields
  <1> QED BY <1>4 DEF A

LEMMA CommitMaps ==
    ASSUME StoreInv, NEW n \in Nodes, NEW refused \in Refusals, db' = Registered(db, n, refused),
           central' = central
    PROVE  Memory!RegisterNode(n, refused)
  <1> DEFINE N == db.nodes
             R == db.node_rejects
             X == N \cup {n}
             Y == {r \in R : r.node_id # n} \cup {[node_id |-> n, sku |-> s] : s \in refused}
  <1>1. db \in Tables
    BY DEF StoreInv, DbFits
  <1>2. db' = [db EXCEPT !.nodes = X, !.node_rejects = Y]
    BY <1>1 DEF Registered, Tables
  <1>3. Loaded = Maps(db, central) /\ Loaded' = Maps(db', central)
    BY LoadedIs, LoadedNext
  <1>4. Loaded.nodes = NodesOf(N, R)
    BY <1>3 DEF Maps
  <1>5. Loaded' = [Loaded EXCEPT !.nodes = NodesOf(X, Y)]
    <2> HIDE DEF X, Y
    <2>1. Others(db, db', {"nodes", "node_rejects"})
      BY <1>1, <1>2 DEF Others, Shaped, Tables, TableNames
    <2>2. db'.nodes = X /\ db'.node_rejects = Y
      BY <1>1, <1>2 DEF Tables
    <2> QED BY <1>3, <2>1, <2>2, MapsOfNodes
  <1>6. {r.sku : r \in {r \in Y : r.node_id = n}} = refused
    <2> DEFINE Z == {r \in Y : r.node_id = n}
    <2>1. \A r \in Z : r.sku \in refused
      OBVIOUS
    <2>2. \A s \in refused : [node_id |-> n, sku |-> s] \in Z
      OBVIOUS
    <2>3. \A s \in refused : \E r \in Z : r.sku = s
      <3> HIDE DEF Z
      <3> QED BY <2>2
    <2> HIDE DEF Z
    <2>4. {r.sku : r \in Z} = refused
      BY <2>1, <2>3
    <2> QED BY <2>4 DEF Z
  <1>7. ASSUME NEW k, k # n
        PROVE  {r.sku : r \in {r \in Y : r.node_id = k}} = {r.sku : r \in {r \in R : r.node_id = k}}
    <2>1. {r \in Y : r.node_id = k} = {r \in R : r.node_id = k}
      BY <1>7
    <2> QED BY <2>1
  <1> HIDE DEF Y
  <1>8. NodesOf(X, Y) = Assigned(NodesOf(N, R), n, refused)
    BY <1>6, <1>7 DEF NodesOf, Assigned
  <1> QED BY <1>4, <1>5, <1>8, PutIs DEF Memory!RegisterNode

-----------------------------------------------------------------------------
(* Cursors *)

\* Setting one column of a node's row leaves the other column and the other nodes alone.
LEMMA CursorUpserted ==
    ASSUME NEW C \in SUBSET CursorRows, Unique(C, {"node_id"}), NEW row \in CursorRows,
           NEW column \in {"pushed_seq", "delivered_ord"},
           NEW other \in {"pushed_seq", "delivered_ord"} \ {column}, row[other] = 0
    PROVE  LET U == Upsert(C, row, {"node_id"}, {column})
           IN \A n : /\ CursorOf(U, n, column) = IF n = row.node_id THEN row[column]
                                                 ELSE CursorOf(C, n, column)
                     /\ CursorOf(U, n, other) = CursorOf(C, n, other)
  <1> DEFINE U == Upsert(C, row, {"node_id"}, {column})
             old == Conflicting(C, row, {"node_id"})
             Of(T, n) == {r \in T : r.node_id = n}
  <1>1. U = IF old = {} THEN C \cup {row} ELSE (C \ old) \cup {Set(r, row, {column}) : r \in old}
    BY UpsertIs
  <1>2. old = Of(C, row.node_id)
    BY DEF Conflicting
  <1>3. \A r, s \in C : r.node_id = s.node_id => r = s
    BY DEF Unique
  <1>4. \A r \in CursorRows :
           /\ Set(r, row, {column}).node_id = r.node_id
           /\ Set(r, row, {column})[column] = row[column]
           /\ Set(r, row, {column})[other] = r[other]
    BY DEF Set, CursorRows
  <1>5. \A r \in CursorRows : r[column] \in Nat /\ r[other] \in Nat
    BY DEF CursorRows
  <1> HIDE DEF U, old
  <1>6. ASSUME NEW n, n # row.node_id PROVE Of(U, n) = Of(C, n)
    <2>1. \A r \in old : r \in CursorRows /\ r.node_id = row.node_id
      BY <1>2
    <2>2. \A u \in U : u \in C \ old \/ u.node_id = row.node_id
      BY <1>1, <1>4, <2>1
    <2>3. \A r \in C : r.node_id # row.node_id => r \in U
      BY <1>1, <1>2
    <2> QED BY <1>6, <2>2, <2>3
  <1>7. CASE old = {}
    <2>1. Of(U, row.node_id) = {row} /\ Of(C, row.node_id) = {}
      BY <1>1, <1>2, <1>7
    <2>2. /\ {r[column] : r \in Of(U, row.node_id)} = {row[column]}
          /\ {r[other] : r \in Of(U, row.node_id)} = {0}
          /\ {r[other] : r \in Of(C, row.node_id)} = {}
      BY <2>1
    <2>3. /\ CursorOf(U, row.node_id, column) = row[column]
          /\ CursorOf(U, row.node_id, other) = 0 /\ CursorOf(C, row.node_id, other) = 0
      BY <1>5, <2>2, LargestSingle DEF CursorOf
    <2> QED BY <1>6, <2>3 DEF CursorOf, U
  <1>8. ASSUME NEW r \in old
        PROVE  \A n : /\ CursorOf(U, n, column) = IF n = row.node_id THEN row[column]
                                                  ELSE CursorOf(C, n, column)
                      /\ CursorOf(U, n, other) = CursorOf(C, n, other)
    <2> DEFINE s == Set(r, row, {column})
    <2>1. old = {r} /\ r \in C /\ r.node_id = row.node_id
      BY <1>2, <1>3
    <2>2. s.node_id = row.node_id /\ s[column] = row[column] /\ s[other] = r[other]
      BY <1>4, <2>1
    <2>3. U = (C \ {r}) \cup {s}
      BY <1>1, <2>1
    <2> HIDE DEF s
    <2>4. Of(U, row.node_id) = {s} /\ Of(C, row.node_id) = {r}
      BY <1>2, <2>1, <2>2, <2>3
    <2>5. /\ {u[column] : u \in Of(U, row.node_id)} = {row[column]}
          /\ {u[other] : u \in Of(U, row.node_id)} = {r[other]}
          /\ {u[other] : u \in Of(C, row.node_id)} = {r[other]}
      BY <2>2, <2>4
    <2>6. /\ CursorOf(U, row.node_id, column) = row[column]
          /\ CursorOf(U, row.node_id, other) = CursorOf(C, row.node_id, other)
      BY <1>5, <2>5, LargestSingle DEF CursorOf
    <2> QED BY <1>6, <2>6 DEF CursorOf
  <1> QED BY <1>7, <1>8 DEF U

LEMMA MapsOfCursors ==
    ASSUME NEW d \in Tables, NEW c, NEW C
    PROVE  /\ PushedOf(C) = PushedOf(d.cursors) =>
              Maps([d EXCEPT !.cursors = C], c)
                = [Maps(d, c) EXCEPT !.delivered = DeliveredOf(C, d.outbound)]
           /\ DeliveredOf(C, d.outbound) = DeliveredOf(d.cursors, d.outbound) =>
              Maps([d EXCEPT !.cursors = C], c) = [Maps(d, c) EXCEPT !.pushed = PushedOf(C)]
  BY DEF Maps, Tables

LEMMA SetPushedMaps ==
    ASSUME StoreInv, NEW n \in Nodes, NEW seq \in 1..Cardinality(Sent), SetPushedSeq(n, seq)
    PROVE  Memory!SetPushedSeq(n, seq)
  <1> DEFINE C == db.cursors
             row == [node_id |-> n, pushed_seq |-> seq, delivered_ord |-> 0]
             U == Upsert(C, row, {"node_id"}, {"pushed_seq"})
  <1>1. db \in Tables /\ C \in SUBSET CursorRows /\ Unique(C, {"node_id"})
    BY DEF StoreInv, DbFits, Tables, KeysHold
  <1>2. row \in CursorRows /\ row["delivered_ord"] = 0
    <2>1. Cardinality(Sent) \in Nat
      BY StoreCallsAssumption, FS_CardinalityType
    <2> QED BY <2>1 DEF CursorRows
  <1>3. db' = [db EXCEPT !.cursors = U] /\ central' = central
    BY <1>1 DEF SetPushedSeq, SetCursor, Statement, Tables
  <1>4. \A k : /\ CursorOf(U, k, "pushed_seq") = IF k = n THEN seq ELSE CursorOf(C, k, "pushed_seq")
               /\ CursorOf(U, k, "delivered_ord") = CursorOf(C, k, "delivered_ord")
    <2>1. row.node_id = n /\ row["pushed_seq"] = seq
      OBVIOUS
    <2> HIDE DEF row
    <2> QED BY <1>1, <1>2, <2>1, CursorUpserted
  <1> HIDE DEF U
  <1>5. DeliveredOf(U, db.outbound) = DeliveredOf(C, db.outbound)
    BY <1>4 DEF DeliveredOf
  <1>6. PushedOf(U) = [PushedOf(C) EXCEPT ![n] = seq]
    BY <1>4 DEF PushedOf
  <1>7. Loaded = Maps(db, central) /\ Loaded' = Maps(db', central)
    BY <1>3, LoadedIs, LoadedNext
  <1>8. Loaded.pushed = PushedOf(C)
    BY <1>7 DEF Maps
  <1>9. Loaded' = [Loaded EXCEPT !.pushed = PushedOf(U)]
    BY <1>1, <1>3, <1>5, <1>7, MapsOfCursors
  <1> QED BY <1>6, <1>8, <1>9 DEF Memory!SetPushedSeq

LEMMA SetDeliveredMaps ==
    ASSUME StoreInv, NEW n \in Nodes, NEW r \in Queued(n), SetDeliveredOrd(n, r.ord)
    PROVE  Memory!SetDeliveredOrd(n, RankIn(db.outbound, r.ord))
           /\ RankIn(db.outbound, r.ord) \in 1..Loaded.nextOrd
  <1> DEFINE C == db.cursors
             O == db.outbound
             row == [node_id |-> n, pushed_seq |-> 0, delivered_ord |-> r.ord]
             U == Upsert(C, row, {"node_id"}, {"delivered_ord"})
  <1>1. /\ db \in Tables /\ C \in SUBSET CursorRows /\ Unique(C, {"node_id"})
        /\ O \in SUBSET QueueRows /\ IsFiniteSet(O) /\ r \in O
    BY DEF StoreInv, DbFits, Tables, KeysHold, QueueFits, Queued
  <1>2. row \in CursorRows /\ row["pushed_seq"] = 0
    BY <1>1 DEF CursorRows, QueueRows
  <1>3. db' = [db EXCEPT !.cursors = U] /\ central' = central
    BY <1>1 DEF SetDeliveredOrd, SetCursor, Statement, Tables
  <1>4. \A k : /\ CursorOf(U, k, "delivered_ord")
                    = IF k = n THEN r.ord ELSE CursorOf(C, k, "delivered_ord")
               /\ CursorOf(U, k, "pushed_seq") = CursorOf(C, k, "pushed_seq")
    <2>1. row.node_id = n /\ row["delivered_ord"] = r.ord
      OBVIOUS
    <2> HIDE DEF row
    <2> QED BY <1>1, <1>2, <2>1, CursorUpserted
  <1> HIDE DEF U
  <1>5. PushedOf(U) = PushedOf(C)
    BY <1>4 DEF PushedOf
  <1>6. DeliveredOf(U, O) = [DeliveredOf(C, O) EXCEPT ![n] = RankIn(O, r.ord)]
    BY <1>4 DEF DeliveredOf
  <1>7. Loaded = Maps(db, central) /\ Loaded' = Maps(db', central)
    BY <1>3, LoadedIs, LoadedNext
  <1>8. Loaded.delivered = DeliveredOf(C, O) /\ Loaded.nextOrd = Cardinality(O)
    BY <1>7 DEF Maps
  <1>9. Loaded' = [Loaded EXCEPT !.delivered = DeliveredOf(U, O)]
    BY <1>1, <1>3, <1>5, <1>7, MapsOfCursors
  <1>10. RankIn(O, r.ord) \in 1..Cardinality(O)
    <2> DEFINE S == {s \in O : s.ord <= r.ord}
    <2>1. S \subseteq O /\ r \in S
      BY <1>1 DEF QueueRows
    <2> HIDE DEF S
    <2>2. IsFiniteSet(S) /\ Cardinality(S) <= Cardinality(O)
      BY <1>1, <2>1, FS_Subset
    <2>3. Cardinality(S) \in Nat /\ Cardinality(O) \in Nat
      BY <1>1, <2>2, FS_CardinalityType
    <2>4. Cardinality(S) # 0
      BY <2>1, <2>2, FS_EmptySet
    <2> QED BY <2>2, <2>3, <2>4 DEF RankIn, S
  <1> QED BY <1>6, <1>8, <1>9, <1>10 DEF Memory!SetDeliveredOrd

-----------------------------------------------------------------------------
(* Places in a queue *)

LEMMA RankFacts ==
    ASSUME NEW Q \in SUBSET QueueRows, IsFiniteSet(Q)
    PROVE  /\ Cardinality(Q) \in Nat
           /\ \A ord : RankIn(Q, ord) \in Nat /\ RankIn(Q, ord) <= Cardinality(Q)
           /\ \A r \in Q : RankIn(Q, r.ord) \in 1..Cardinality(Q)
           /\ \A r, s \in Q : r.ord < s.ord => RankIn(Q, r.ord) < RankIn(Q, s.ord)
  <1> DEFINE UpTo(ord) == {s \in Q : s.ord <= ord}
  <1>1. \A r \in Q : r.ord \in Nat
    BY DEF QueueRows
  <1>2. Cardinality(Q) \in Nat
    BY FS_CardinalityType
  <1>3. ASSUME NEW ord
        PROVE  /\ IsFiniteSet(UpTo(ord)) /\ RankIn(Q, ord) = Cardinality(UpTo(ord))
               /\ RankIn(Q, ord) \in Nat /\ RankIn(Q, ord) <= Cardinality(Q)
    <2>1. UpTo(ord) \subseteq Q
      OBVIOUS
    <2> HIDE DEF UpTo
    <2>2. IsFiniteSet(UpTo(ord)) /\ Cardinality(UpTo(ord)) <= Cardinality(Q)
      BY <2>1, FS_Subset
    <2>3. Cardinality(UpTo(ord)) \in Nat
      BY <2>2, FS_CardinalityType
    <2> QED BY <2>2, <2>3 DEF RankIn, UpTo
  <1>4. ASSUME NEW r \in Q PROVE RankIn(Q, r.ord) \in 1..Cardinality(Q)
    <2>1. r \in UpTo(r.ord)
      BY <1>1
    <2> HIDE DEF UpTo
    <2>2. Cardinality(UpTo(r.ord)) # 0
      BY <1>3, <2>1, FS_EmptySet
    <2> QED BY <1>2, <1>3, <2>2
  <1>5. ASSUME NEW r \in Q, NEW s \in Q, r.ord < s.ord
        PROVE  RankIn(Q, r.ord) < RankIn(Q, s.ord)
    <2>1. UpTo(r.ord) \subseteq UpTo(s.ord) /\ s \in UpTo(s.ord) /\ s \notin UpTo(r.ord)
      BY <1>1, <1>5
    <2> HIDE DEF UpTo
    <2>2. /\ Cardinality(UpTo(r.ord)) <= Cardinality(UpTo(s.ord))
          /\ Cardinality(UpTo(r.ord)) # Cardinality(UpTo(s.ord))
      BY <1>3, <2>1, FS_Subset
    <2> QED BY <1>3, <2>2
  <1> QED BY <1>2, <1>3, <1>4, <1>5

\* Each place in a queue is taken, by one row.
LEMMA PlaceFacts ==
    ASSUME NEW O \in SUBSET QueueRows, IsFiniteSet(O), Unique(O, {"ord"}), NEW n
    PROVE  LET Q == QueuedIn(O, n)
           IN /\ IsFiniteSet(Q) /\ Cardinality(Q) \in Nat /\ Q \in SUBSET QueueRows
              /\ \A r \in Q : PlaceIn(O, r) = RankIn(Q, r.ord) /\ PlaceIn(O, r) \in 1..Cardinality(Q)
              /\ \A i \in 1..Cardinality(Q) : \E r \in Q : PlaceIn(O, r) = i
              /\ \A r, s \in Q : PlaceIn(O, r) = PlaceIn(O, s) => r = s
  <1> DEFINE Q == QueuedIn(O, n)
             f == [r \in Q |-> RankIn(Q, r.ord)]
  <1>1. Q \subseteq O /\ Q \in SUBSET QueueRows
    BY DEF QueuedIn
  <1>2. \A r \in Q : PlaceIn(O, r) = RankIn(Q, r.ord)
    BY DEF QueuedIn, PlaceIn
  <1> HIDE DEF Q
  <1>3. IsFiniteSet(Q)
    BY <1>1, FS_Subset
  <1> DEFINE N == Cardinality(Q)
  <1>4. N \in Nat /\ \A r \in Q : RankIn(Q, r.ord) \in 1..N
    BY <1>1, <1>3, RankFacts
  <1>5. \A r, s \in Q : RankIn(Q, r.ord) = RankIn(Q, s.ord) => r = s
    <2> SUFFICES ASSUME NEW r \in Q, NEW s \in Q, RankIn(Q, r.ord) = RankIn(Q, s.ord) PROVE r = s
      OBVIOUS
    <2>1. r.ord \in Nat /\ s.ord \in Nat
      BY <1>1 DEF QueueRows
    <2>2. RankIn(Q, r.ord) \in Nat /\ RankIn(Q, s.ord) \in Nat
      BY <1>4
    <2>3. ~ (r.ord < s.ord) /\ ~ (s.ord < r.ord)
      BY <1>1, <1>3, <2>2, RankFacts
    <2>4. r.ord = s.ord
      BY <2>1, <2>3
    <2> QED BY <1>1, <2>4 DEF Unique
  <1> HIDE DEF N
  <1>6. f \in Injection(Q, 1..N)
    BY <1>4, <1>5 DEF Injection, IsInjective
  <1>7. IsFiniteSet(1..N) /\ Cardinality(1..N) = N
    <2>1. 1 \in Int /\ N \in Int /\ N \in Nat
      BY <1>4
    <2>2. IsFiniteSet(1..N) /\ Cardinality(1..N) = IF 1 > N THEN 0 ELSE N - 1 + 1
      BY <2>1, FS_Interval
    <2> QED BY <2>1, <2>2
  <1>8. f \in Surjection(Q, 1..N)
    <2>1. Cardinality(Q) = Cardinality(1..N)
      BY <1>7 DEF N
    <2> HIDE DEF f
    <2> QED BY <1>6, <1>7, <2>1, FS_Injection
  <1>9. \A i \in 1..N : \E r \in Q : f[r] = i
    BY <1>8 DEF Surjection
  <1> QED BY <1>1, <1>2, <1>3, <1>4, <1>5, <1>9 DEF N, Q

-----------------------------------------------------------------------------
(* The log *)

\* A queue holds the events it did when others join the log.
LEMMA QueuesStay ==
    ASSUME NEW O \in SUBSET QueueRows, IsFiniteSet(O), Unique(O, {"ord"}), NEW S, NEW e,
           \A f, g \in S \cup {e} : f.id = g.id => f = g,
           \A r \in O : \E f \in S : f.id = <<r.node_id, r.seq>>
    PROVE  QueuesOf(O, S \cup {e}) = QueuesOf(O, S)
  <1>1. \A r \in O : EventIn(S \cup {e}, r) = EventIn(S, r)
    <2> SUFFICES ASSUME NEW r \in O PROVE EventIn(S \cup {e}, r) = EventIn(S, r)
      OBVIOUS
    <2>1. PICK f \in S : f.id = <<r.node_id, r.seq>>
      OBVIOUS
    <2>2. EventIn(S, r) = f
      BY <2>1 DEF EventIn
    <2>3. EventIn(S \cup {e}, r) = f
      BY <2>1 DEF EventIn
    <2> QED BY <2>2, <2>3
  <1>2. ASSUME NEW n \in Nodes PROVE QueueOf(O, S \cup {e}, n) = QueueOf(O, S, n)
    <2> DEFINE Row(i) == CHOOSE r \in QueuedIn(O, n) : PlaceIn(O, r) = i
    <2>1. \A i \in 1..Cardinality(QueuedIn(O, n)) : Row(i) \in O
      <3>1. \A i \in 1..Cardinality(QueuedIn(O, n)) : \E r \in QueuedIn(O, n) : PlaceIn(O, r) = i
        BY PlaceFacts
      <3> QED BY <3>1 DEF QueuedIn
    <2>2. \A T : QueueOf(O, T, n) = [i \in 1..Cardinality(QueuedIn(O, n)) |->
                                       [ord |-> RankIn(O, Row(i).ord), env |-> EventIn(T, Row(i))]]
      BY DEF QueueOf
    <2> DEFINE I == 1..Cardinality(QueuedIn(O, n))
               G(T, i) == [ord |-> RankIn(O, Row(i).ord), env |-> EventIn(T, Row(i))]
    <2>3. \A i \in I : G(S \cup {e}, i) = G(S, i)
      BY <1>1, <2>1
    <2>4. /\ QueueOf(O, S, n) = [i \in I |-> G(S, i)]
          /\ QueueOf(O, S \cup {e}, n) = [i \in I |-> G(S \cup {e}, i)]
      BY <2>2
    <2> HIDE DEF I, G
    <2> QED BY <2>3, <2>4
  <1> QED BY <1>2 DEF QueuesOf

LEMMA MapsOfEvents ==
    ASSUME NEW d \in Tables, NEW c, NEW E,
           QueuesOf(d.outbound, Envelopes(E)) = QueuesOf(d.outbound, Envelopes(d.events))
    PROVE  Maps([d EXCEPT !.events = E], c) = [Maps(d, c) EXCEPT !.events = Column(Envelopes(E), "id")]
  BY DEF Maps, Tables

LEMMA LogFacts ==
    ASSUME StoreInv
    PROVE  /\ db \in Tables
           /\ db.outbound \in SUBSET QueueRows /\ IsFiniteSet(db.outbound) /\ Unique(db.outbound, {"ord"})
           /\ Envelopes(db.events) = Stored
           /\ \A f, g \in Stored : f.id = g.id => f = g
           /\ \A r \in db.outbound : \E f \in Stored : f.id = <<r.node_id, r.seq>>
           /\ DOMAIN Column(Stored, "id") = {f.id : f \in Stored}
           /\ \A f \in Stored : Column(Stored, "id")[f.id] = f
           /\ Memory!Values(Column(Stored, "id")) = Stored
  <1>1. DbFits(db) /\ db \in Tables /\ db.events \subseteq EventRows
    BY DEF StoreInv, DbFits, Tables
  <1>2. db.outbound \in SUBSET QueueRows /\ IsFiniteSet(db.outbound) /\ Unique(db.outbound, {"ord"})
    BY <1>1 DEF DbFits, Tables, KeysHold, QueueFits
  <1>3. Envelopes(db.events) = Stored
    BY DEF Envelopes, Stored
  <1>4. \A f, g \in Stored : f.id = g.id => f = g
    BY <1>1, StoredOnce
  <1>5. ASSUME NEW r \in db.outbound PROVE \E f \in Stored : f.id = <<r.node_id, r.seq>>
    <2>1. PICK e \in db.events : e.node_id = r.node_id /\ e.seq = r.seq
      BY <1>1 DEF DbFits, QueueFits
    <2>2. e \in EventRows
      BY <1>1
    <2>3. Envelope(e).id = <<r.node_id, r.seq>>
      BY <2>1, <2>2, EventFacts
    <2> QED BY <2>3 DEF Stored
  <1>6. \A f \in Stored : (CHOOSE g \in Stored : g.id = f.id) = f
    BY <1>4
  <1>7. DOMAIN Column(Stored, "id") = {f.id : f \in Stored}
        /\ \A f \in Stored : Column(Stored, "id")[f.id] = f
    BY <1>6 DEF Column
  <1>8. Memory!Values(Column(Stored, "id")) = Stored
    BY <1>7 DEF Memory!Values
  <1> QED BY <1>1, <1>2, <1>3, <1>4, <1>5, <1>7, <1>8

LEMMA LogGrows ==
    ASSUME StoreInv, NEW row \in EventRows, NEW c,
           Conflicting(db.events, row, {"node_id", "seq"}) = {}
    PROVE  LET e == Envelope(row)
           IN /\ \A f \in Stored : f.id # e.id
              /\ Maps([db EXCEPT !.events = @ \cup {row}], c)
                   = [Maps(db, c) EXCEPT !.events = Assigned(Column(Stored, "id"), e.id, e)]
  <1> DEFINE e == Envelope(row)
             E == db.events \cup {row}
  <1>1. db.events \subseteq EventRows
    BY LogFacts DEF Tables
  <1>2. \A f \in Stored : f.id # e.id
    <2> SUFFICES ASSUME NEW r \in db.events, Envelope(r).id = e.id PROVE FALSE
      BY DEF Stored
    <2>1. r \in EventRows
      BY <1>1
    <2>2. r.node_id = row.node_id /\ r.seq = row.seq
      <3>1. Envelope(r).id = <<r.node_id, r.seq>> /\ e.id = <<row.node_id, row.seq>>
        BY <2>1, EventFacts
      <3>2. <<r.node_id, r.seq>> = <<row.node_id, row.seq>>
        BY <3>1
      <3> QED BY <3>2
    <2> QED BY <2>2 DEF Conflicting
  <1>3. Envelopes(E) = Stored \cup {e}
    BY DEF Envelopes, Stored
  <1> HIDE DEF e, E
  <1>4. \A f, g \in Stored \cup {e} : f.id = g.id => f = g
    BY <1>2, LogFacts
  <1>5. QueuesOf(db.outbound, Stored \cup {e}) = QueuesOf(db.outbound, Stored)
    BY <1>4, LogFacts, QueuesStay
  <1>6. Column(Stored \cup {e}, "id") = Assigned(Column(Stored, "id"), e.id, e)
    <2>1. Unique(Stored, {"id"})
      BY <1>4 DEF Unique
    <2>2. Replacing(Stored, e, {"id"}) = Stored \cup {e}
      BY <1>2 DEF Replacing, Conflicting
    <2> HIDE DEF Stored
    <2>3. Column(Replacing(Stored, e, {"id"}), "id") = Assigned(Column(Stored, "id"), e.id, e)
      BY <2>1, ColumnReplaced
    <2> QED BY <2>2, <2>3
  <1>7. Maps([db EXCEPT !.events = E], c) = [Maps(db, c) EXCEPT !.events = Column(Envelopes(E), "id")]
    <2>1. db \in Tables /\ QueuesOf(db.outbound, Envelopes(E)) = QueuesOf(db.outbound, Envelopes(db.events))
      BY <1>3, <1>5, LogFacts
    <2> QED BY <2>1, MapsOfEvents
  <1> QED BY <1>2, <1>3, <1>6, <1>7 DEF e, E

LEMMA AppendMaps ==
    ASSUME StoreInv, NEW env \in Sent, AppendEvent(env) PROVE Memory!AppendEvent(env)
  <1> DEFINE row == EventRow(env)
             key == {"node_id", "seq"}
  <1>1. row \in EventRows /\ Envelope(row) = env
    BY SentFacts
  <1>2. db \in Tables /\ db' = [db EXCEPT !.events = InsertNew(db.events, row, key)]
        /\ central' = central
    BY LogFacts DEF AppendEvent, InsertEvent, Statement, Tables
  <1>3. Loaded = Maps(db, central) /\ Loaded' = Maps(db', central)
    BY <1>2, LoadedIs, LoadedNext
  <1>4. Loaded.events = Column(Stored, "id")
    BY <1>3, LogFacts DEF Maps
  <1>5. CASE Conflicting(db.events, row, key) = {}
    <2>1. db' = [db EXCEPT !.events = @ \cup {row}]
      BY <1>2, <1>5 DEF InsertNew
    <2> HIDE DEF row
    <2>2. /\ \A f \in Stored : f.id # env.id
          /\ Loaded' = [Loaded EXCEPT !.events = Assigned(Column(Stored, "id"), env.id, env)]
      BY <1>1, <1>3, <1>5, <2>1, LogGrows
    <2>3. env.id \notin DOMAIN Loaded.events
      BY <1>4, <2>2, LogFacts
    <2> QED BY <1>4, <2>2, <2>3, PutIs DEF Memory!AppendEvent
  <1>6. ASSUME NEW r \in Conflicting(db.events, row, key) PROVE Memory!AppendEvent(env)
    <2>1. db' = db
      BY <1>2, <1>6 DEF InsertNew, Tables
    <2>2. r \in db.events /\ r.node_id = row.node_id /\ r.seq = row.seq
      BY DEF Conflicting
    <2>3. Envelope(r).id = env.id
      <3>1. r \in EventRows
        BY <1>2, <2>2 DEF Tables
      <3>2. Envelope(r).id = <<r.node_id, r.seq>> /\ Envelope(row).id = <<row.node_id, row.seq>>
        BY <1>1, <3>1, EventFacts
      <3> QED BY <1>1, <2>2, <3>2
    <2>4. Envelope(r) \in Stored
      BY <2>2 DEF Stored
    <2>5. env.id \in DOMAIN Loaded.events
      BY <1>4, <2>3, <2>4, LogFacts
    <2> QED BY <1>3, <2>1, <2>5, PutIs DEF Memory!AppendEvent
  <1> QED BY <1>5, <1>6

-----------------------------------------------------------------------------
(* What central emits, and what it starts again with *)

\* The fields that central draws from.
WithClock(M, n, h) == [M EXCEPT !.centralN = n, !.centralHL = h]

LEMMA MapsOfClock ==
    ASSUME NEW d, NEW c, NEW q
    PROVE  Maps(d, q) = WithClock(Maps(d, c), q.seq, q.hl)
  <1> DEFINE M == Maps(d, c)
             n == q.seq
             h == q.hl
             A == [M EXCEPT !.centralN = n]
             B == [A EXCEPT !.centralHL = h]
  <1>1. Shaped(M, MapNames)
    BY Shapes
  <1>2. Shaped(A, MapNames) /\ \A g \in MapNames : A[g] = IF g = "centralN" THEN n ELSE M[g]
    <2> HIDE DEF M, n
    <2> QED BY <1>1, Changed DEF MapNames
  <1>3. Shaped(B, MapNames) /\ \A g \in MapNames : B[g] = IF g = "centralHL" THEN h ELSE A[g]
    <2> HIDE DEF A, h
    <2> QED BY <1>2, Changed DEF MapNames
  <1> HIDE DEF A, B
  <1>4. \A g \in MapNames : Maps(d, q)[g] = B[g]
    BY <1>2, <1>3 DEF MapNames, Maps, M, n, h
  <1>5. Maps(d, q) = B
    BY <1>3, <1>4, Shapes, SameFields
  <1> QED BY <1>5 DEF A, B, WithClock

LEMMA SameClock ==
    /\ Memory!NoEvent = NoEvent /\ Memory!CentralNode = CentralNode
    /\ \A prev, now : Memory!Tick(prev, now) = Tick(prev, now)
    /\ \A prev, seen, now : Memory!Merge(prev, seen, now) = Merge(prev, seen, now)
  BY DEF Memory!NoEvent, NoEvent, Memory!CentralNode, CentralNode, Memory!Tick, Tick,
         Memory!Merge, Merge, Memory!Wall, Wall, Memory!Max2, Max2

LEMMA SameReading ==
    ASSUME StoreInv, NEW cause \in {e.id : e \in Stored \cap Sent} \cup {NoEvent}, NEW now
    PROVE  /\ Memory!NextReading(cause, now) = NextReading(cause, now)
           /\ cause \in DOMAIN Loaded.events \cup {NoEvent}
  <1>1. /\ Loaded.events = Column(Stored, "id")
        /\ Loaded.centralHL = central.hl
    BY LoadedIs, LogFacts DEF Maps
  <1>2. CASE cause = NoEvent
    BY <1>1, <1>2, SameClock DEF Memory!NextReading, NextReading
  <1>3. ASSUME NEW e \in Stored, cause = e.id, cause # NoEvent
        PROVE  /\ Memory!NextReading(cause, now) = NextReading(cause, now)
               /\ cause \in DOMAIN Loaded.events \cup {NoEvent}
    <2>1. HlcOf(cause) = e.at
      BY <1>3, HlcFacts DEF StoreInv
    <2>2. cause \in DOMAIN Loaded.events /\ Loaded.events[cause] = e
      BY <1>1, <1>3, LogFacts
    <2> QED BY <1>1, <1>3, <2>1, <2>2, SameClock, PutIs DEF Memory!NextReading, NextReading
  <1> QED BY <1>2, <1>3

LEMMA EmitMaps ==
    ASSUME StoreInv, NEW cause \in {e.id : e \in Stored \cap Sent} \cup {NoEvent}, NEW now \in Walls,
           EmitCentral(cause, now)
    PROVE  Memory!EmitCentral(cause, now) \/ Memory!EmitFails(cause, now)
  <1> DEFINE row == CentralRow(cause, now)
             env == [id |-> <<CentralNode, central.seq + 1>>, at |-> NextReading(cause, now),
                     cause |-> cause]
             q == [seq |-> central.seq + 1, hl |-> NextReading(cause, now)]
             key == {"node_id", "seq"}
  <1>1. /\ row \in EventRows /\ Envelope(row) = env
        /\ InsertNew(db.events, row, key) = db.events \cup {row}
        /\ row.node_id = CentralNode /\ row.seq = central.seq + 1 /\ central.seq \in Nat
    BY CentralRowFacts
  <1>2. /\ central' = q
        /\ db' = db \/ db' = [db EXCEPT !.events = InsertNew(@, row, key)]
    BY DEF EmitCentral, InsertEvent, CentralRow
  <1>3. Loaded = Maps(db, central) /\ Loaded' = Maps(db', q)
    BY <1>2, LoadedIs, LoadedNext
  <1>4. /\ Loaded.events = Column(Stored, "id") /\ Loaded.centralN = central.seq
    BY <1>3, LogFacts DEF Maps
  <1>5. Maps(db, q) = WithClock(Loaded, central.seq + 1, NextReading(cause, now))
    <2>1. q.seq = central.seq + 1 /\ q.hl = NextReading(cause, now)
      OBVIOUS
    <2> HIDE DEF q
    <2> QED BY <1>3, <2>1, MapsOfClock
  <1>6. CASE db' = db
    BY <1>3, <1>4, <1>5, <1>6, SameReading DEF Memory!EmitFails, WithClock
  <1>7. CASE db' = [db EXCEPT !.events = InsertNew(@, row, key)]
    <2>1. Conflicting(db.events, row, key) = {}
      <3> SUFFICES ASSUME NEW r \in db.events, r.node_id = row.node_id, r.seq = row.seq PROVE FALSE
        BY DEF Conflicting
      <3>1. r \in Own(db)
        BY <1>1 DEF Own
      <3>2. r.seq <= central.seq
        BY <3>1 DEF StoreInv, ClockFits
      <3> QED BY <1>1, <3>2
    <2>2. db' = [db EXCEPT !.events = @ \cup {row}]
      BY <1>1, <1>7
    <2> HIDE DEF row, q
    <2>3. Loaded' = [Maps(db, q) EXCEPT !.events = Assigned(Column(Stored, "id"), env.id, env)]
      BY <1>1, <1>3, <2>1, <2>2, LogGrows
    <2>4. Loaded' = [Loaded EXCEPT !.centralN = central.seq + 1, !.centralHL = NextReading(cause, now),
                                   !.events = Assigned(Column(Stored, "id"), env.id, env)]
      BY <1>5, <2>3 DEF WithClock
    <2>5. env.at = NextReading(cause, now)
      OBVIOUS
    <2>6. Memory!EmitCentral(cause, now)
      BY <1>4, <2>4, SameReading, SameClock, PutIs DEF Memory!EmitCentral
    <2> QED BY <2>6
  <1> QED BY <1>2, <1>6, <1>7

LEMMA RestartMaps == ASSUME StoreInv, Restart PROVE Reopened
  <1> DEFINE own == {e \in Stored : e.id[1] = CentralNode}
             last == IF own = {} THEN [id |-> NoEvent, at |-> 0]
                     ELSE CHOOSE e \in own : \A f \in own : f.id[2] <= e.id[2]
  <1>1. db' = db /\ central' = Recovered
    BY DEF Restart
  <1>2. Loaded = Maps(db, central) /\ Loaded' = Maps(db, Recovered)
    BY <1>1, LoadedIs, LoadedNext
  <1>3. Loaded' = WithClock(Loaded, Recovered.seq, Recovered.hl)
    BY <1>2, MapsOfClock
  <1>4. db.events \subseteq EventRows
    BY LogFacts DEF Tables
  <1>5. \A r \in db.events : /\ Envelope(r).id[1] = r.node_id /\ Envelope(r).id[2] = r.seq
                             /\ Envelope(r).at = r.hlc /\ r.seq \in Nat
    <2> SUFFICES ASSUME NEW r \in db.events
                 PROVE  /\ Envelope(r).id[1] = r.node_id /\ Envelope(r).id[2] = r.seq
                        /\ Envelope(r).at = r.hlc /\ r.seq \in Nat
      OBVIOUS
    <2>1. r \in EventRows
      BY <1>4
    <2>2. Envelope(r).id = <<r.node_id, r.seq>> /\ Envelope(r).at = r.hlc
      BY <2>1, EventFacts
    <2>3. r.seq \in Nat
      BY <2>1 DEF EventRows
    <2> QED BY <2>2, <2>3
  <1>6. last.id[2] = Recovered.seq /\ last.at = Recovered.hl
    <2>1. CASE Own(db) = {}
      <3>1. own = {}
        BY <1>5, <2>1 DEF Stored, Own
      <3>2. Recovered = [seq |-> 0, hl |-> 0]
        BY <2>1, RecoveredFacts
      <3> QED BY <3>1, <3>2 DEF NoEvent
    <2>2. CASE Own(db) # {}
      <3>1. PICK r \in Own(db) : r.seq = Recovered.seq /\ r.hlc = Recovered.hl
        BY <2>2, RecoveredFacts
      <3> DEFINE e == Envelope(r)
      <3>2. e \in own /\ e.id[2] = Recovered.seq /\ e.at = Recovered.hl
        BY <1>5, <3>1 DEF Own, Stored
      <3>3. \A f \in own : f.id[2] \in Nat /\ f.id[2] <= Recovered.seq
        <4> SUFFICES ASSUME NEW s \in db.events, Envelope(s) \in own
                     PROVE  Envelope(s).id[2] \in Nat /\ Envelope(s).id[2] <= Recovered.seq
          BY DEF Stored
        <4>1. s \in Own(db)
          BY <1>5 DEF Own
        <4> QED BY <1>5, <4>1, RecoveredFacts
      <3>4. \A f \in own : f.id[2] = Recovered.seq => f = e
        <4> SUFFICES ASSUME NEW s \in db.events, Envelope(s) \in own,
                            Envelope(s).id[2] = Recovered.seq
                     PROVE  s = r
          BY DEF Stored
        <4>1. s.node_id = CentralNode /\ s.seq = r.seq /\ r.node_id = CentralNode
          BY <1>5, <3>1 DEF Own
        <4>2. Unique(db.events, {"node_id", "seq"})
          BY DEF StoreInv, DbFits, KeysHold
        <4> QED BY <3>1, <4>1, <4>2 DEF Unique, Own
      <3> HIDE DEF own, e
      <3>5. Recovered.seq \in Nat
        BY RecoveredFacts
      <3>6. (CHOOSE f \in own : \A g \in own : g.id[2] <= f.id[2]) = e
        BY <3>2, <3>3, <3>4, <3>5
      <3> QED BY <3>2, <3>6
    <2> QED BY <2>1, <2>2
  <1> QED BY <1>3, <1>6 DEF Reopened, WithClock

-----------------------------------------------------------------------------
(* Queueing an event *)

\* A function that is a sequence of length n.
Spans(f, n) == f = [i \in 1..n |-> f[i]]

LEMMA Appended ==
    ASSUME NEW n \in Nat, NEW f, Spans(f, n), NEW g, Spans(g, n + 1), \A i \in 1..n : g[i] = f[i]
    PROVE  g = Append(f, g[n + 1])
  <1> DEFINE S == {g[i] : i \in 1..(n + 1)}
             h == Append(f, g[n + 1])
  <1>1. f \in [1..n -> S] /\ g \in [1..(n + 1) -> S] /\ g[n + 1] \in S
    BY DEF Spans
  <1> HIDE DEF S
  <1>2. f \in Seq(S) /\ Len(f) = n
    BY <1>1
  <1>3. h \in Seq(S) /\ Len(h) = n + 1
    BY <1>1, <1>2
  <1>4. ASSUME NEW i \in 1..n PROVE h[i] = g[i]
    <2>1. i \in 1..Len(f) /\ h[i] = f[i]
      BY <1>1, <1>2, <1>4, AppendProperties
    <2> QED BY <2>1, <1>4
  <1>5. h[n + 1] = g[n + 1]
    BY <1>1, <1>2, AppendProperties
  <1> HIDE DEF h
  <1>6. \A i \in 1..(n + 1) : h[i] = g[i]
    BY <1>4, <1>5
  <1>7. h \in [1..(n + 1) -> S]
    BY <1>3
  <1>8. g = h
    BY <1>1, <1>6, <1>7
  <1> QED BY <1>8 DEF h

\* A row whose ordinal is past all takes the last rank.
LEMMA RankGrows ==
    ASSUME NEW O \in SUBSET QueueRows, IsFiniteSet(O), NEW row \in QueueRows,
           \A r \in O : r.ord < row.ord
    PROVE  /\ \A ord \in Nat : ord < row.ord => RankIn(O \cup {row}, ord) = RankIn(O, ord)
           /\ RankIn(O \cup {row}, row.ord) = Cardinality(O) + 1
           /\ Cardinality(O \cup {row}) = Cardinality(O) + 1
  <1>1. /\ row.ord \in Nat
        /\ \A r \in O : r.ord \in Nat
    BY DEF QueueRows
  <1>2. row \notin O
    BY <1>1
  <1>3. Cardinality(O \cup {row}) = Cardinality(O) + 1
    BY <1>2, FS_AddElement
  <1>4. {r \in O \cup {row} : r.ord <= row.ord} = O \cup {row}
    BY <1>1
  <1>5. ASSUME NEW ord \in Nat, ord < row.ord
        PROVE  {r \in O \cup {row} : r.ord <= ord} = {r \in O : r.ord <= ord}
    BY <1>1, <1>5
  <1> QED BY <1>3, <1>4, <1>5 DEF RankIn

LEMMA PlacesGrow ==
    ASSUME NEW O \in SUBSET QueueRows, IsFiniteSet(O), NEW row \in QueueRows,
           \A r \in O : r.ord < row.ord
    PROVE  /\ \A r \in O : PlaceIn(O \cup {row}, r) = PlaceIn(O, r)
           /\ PlaceIn(O \cup {row}, row) = Cardinality(QueuedIn(O, row.target_node)) + 1
           /\ QueuedIn(O \cup {row}, row.target_node) = QueuedIn(O, row.target_node) \cup {row}
           /\ \A n : n # row.target_node => QueuedIn(O \cup {row}, n) = QueuedIn(O, n)
           /\ Cardinality(QueuedIn(O \cup {row}, row.target_node))
                = Cardinality(QueuedIn(O, row.target_node)) + 1
  <1> DEFINE Q == QueuedIn(O, row.target_node)
  <1>1. /\ QueuedIn(O \cup {row}, row.target_node) = Q \cup {row}
        /\ \A n : n # row.target_node => QueuedIn(O \cup {row}, n) = QueuedIn(O, n)
    BY DEF QueuedIn
  <1>2. Q \in SUBSET QueueRows /\ IsFiniteSet(Q) /\ \A r \in Q : r.ord < row.ord
    <2>1. Q \subseteq O
      BY DEF QueuedIn
    <2> HIDE DEF Q
    <2> QED BY <2>1, FS_Subset
  <1>3. \A r \in O : r.ord \in Nat
    BY DEF QueueRows
  <1> HIDE DEF Q
  <1>4. /\ \A ord \in Nat : ord < row.ord => RankIn(Q \cup {row}, ord) = RankIn(Q, ord)
        /\ RankIn(Q \cup {row}, row.ord) = Cardinality(Q) + 1
        /\ Cardinality(Q \cup {row}) = Cardinality(Q) + 1
    BY <1>2, RankGrows
  <1>5. ASSUME NEW r \in O PROVE PlaceIn(O \cup {row}, r) = PlaceIn(O, r)
    <2>1. CASE r.target_node = row.target_node
      BY <1>1, <1>3, <1>4, <2>1 DEF PlaceIn, Q
    <2>2. CASE r.target_node # row.target_node
      BY <1>1, <2>2 DEF PlaceIn
    <2> QED BY <2>1, <2>2
  <1> QED BY <1>1, <1>4, <1>5 DEF PlaceIn, Q

\* The row at a place of a node's queue.
RowAt(O, n, i) == CHOOSE r \in QueuedIn(O, n) : PlaceIn(O, r) = i

LEMMA RowIs ==
    ASSUME NEW O \in SUBSET QueueRows, IsFiniteSet(O), Unique(O, {"ord"}), NEW n,
           NEW r \in QueuedIn(O, n)
    PROVE  RowAt(O, n, PlaceIn(O, r)) = r
  <1>1. \A s \in QueuedIn(O, n) : PlaceIn(O, s) = PlaceIn(O, r) => s = r
    BY PlaceFacts
  <1> QED BY <1>1 DEF RowAt

LEMMA RowsStay ==
    ASSUME NEW O \in SUBSET QueueRows, IsFiniteSet(O), Unique(O, {"ord"}), NEW row \in QueueRows,
           \A r \in O : r.ord < row.ord, NEW n, NEW i \in 1..Cardinality(QueuedIn(O, n))
    PROVE  /\ RowAt(O \cup {row}, n, i) = RowAt(O, n, i)
           /\ RowAt(O, n, i) \in O
           /\ RankIn(O \cup {row}, RowAt(O, n, i).ord) = RankIn(O, RowAt(O, n, i).ord)
  <1>1. PICK r \in QueuedIn(O, n) : PlaceIn(O, r) = i
    BY PlaceFacts
  <1>2. RowAt(O, n, i) = r
    BY <1>1, RowIs
  <1>3. O \cup {row} \in SUBSET QueueRows /\ IsFiniteSet(O \cup {row}) /\ Unique(O \cup {row}, {"ord"})
    <2>1. \A s \in O : s.ord \in Nat
      BY DEF QueueRows
    <2> QED BY <2>1, FS_AddElement DEF Unique, QueueRows
  <1>4. r \in O /\ r \in QueuedIn(O \cup {row}, n)
    BY DEF QueuedIn
  <1>5. PlaceIn(O \cup {row}, r) = i
    BY <1>1, <1>4, PlacesGrow
  <1>6. RowAt(O \cup {row}, n, i) = r
    <2> DEFINE U == O \cup {row}
    <2>1. U \in SUBSET QueueRows /\ IsFiniteSet(U) /\ Unique(U, {"ord"}) /\ r \in QueuedIn(U, n)
      BY <1>3, <1>4
    <2> HIDE DEF U
    <2>2. RowAt(U, n, PlaceIn(U, r)) = r
      BY <2>1, RowIs
    <2> QED BY <1>5, <2>2 DEF U
  <1>7. r.ord \in Nat /\ r.ord < row.ord
    BY <1>4 DEF QueueRows
  <1> QED BY <1>2, <1>4, <1>6, <1>7, RankGrows

LEMMA QueueGrows ==
    ASSUME NEW O \in SUBSET QueueRows, IsFiniteSet(O), Unique(O, {"ord"}), NEW row \in QueueRows,
           \A r \in O : r.ord < row.ord, NEW S
    PROVE  /\ \A n : n # row.target_node => QueueOf(O \cup {row}, S, n) = QueueOf(O, S, n)
           /\ QueueOf(O \cup {row}, S, row.target_node)
                = Append(QueueOf(O, S, row.target_node),
                         [ord |-> Cardinality(O) + 1, env |-> EventIn(S, row)])
  <1> DEFINE U == O \cup {row}
             Held(T, r) == [ord |-> RankIn(T, r.ord), env |-> EventIn(S, r)]
             At(T, n, i) == Held(T, RowAt(T, n, i))
             Size(T, n) == Cardinality(QueuedIn(T, n))
  <1>1. \A T, n : QueueOf(T, S, n) = [i \in 1..Size(T, n) |-> At(T, n, i)]
    BY DEF QueueOf, RowAt
  <1>2. \A n : Size(O, n) \in Nat
    BY PlaceFacts
  <1>3. /\ \A n : n # row.target_node => Size(U, n) = Size(O, n)
        /\ Size(U, row.target_node) = Size(O, row.target_node) + 1
    BY PlacesGrow
  <1>4. \A n : \A i \in 1..Size(O, n) : At(U, n, i) = At(O, n, i)
    BY RowsStay
  <1>5. At(U, row.target_node, Size(U, row.target_node))
          = [ord |-> Cardinality(O) + 1, env |-> EventIn(S, row)]
    <2>1. U \in SUBSET QueueRows /\ IsFiniteSet(U) /\ Unique(U, {"ord"})
      <3>1. \A s \in O : s.ord \in Nat
        BY DEF QueueRows
      <3> QED BY <3>1, FS_AddElement DEF Unique, QueueRows
    <2>2. row \in QueuedIn(U, row.target_node) /\ PlaceIn(U, row) = Size(U, row.target_node)
      BY PlacesGrow DEF QueuedIn
    <2>3. RowAt(U, row.target_node, PlaceIn(U, row)) = row
      <3> HIDE DEF U
      <3> QED BY <2>1, <2>2, RowIs
    <2>4. RankIn(U, row.ord) = Cardinality(O) + 1
      BY RankGrows
    <2> QED BY <2>2, <2>3, <2>4
  <1> HIDE DEF U, At, Size, Held
  <1>6. ASSUME NEW n, n # row.target_node PROVE QueueOf(U, S, n) = QueueOf(O, S, n)
    <2> DEFINE I == 1..Size(O, n)
    <2>1. /\ QueueOf(O, S, n) = [i \in I |-> At(O, n, i)]
          /\ QueueOf(U, S, n) = [i \in I |-> At(U, n, i)]
      BY <1>1, <1>3, <1>6
    <2>2. \A i \in I : At(U, n, i) = At(O, n, i)
      BY <1>4
    <2> HIDE DEF I
    <2> QED BY <2>1, <2>2
  <1>7. QueueOf(U, S, row.target_node)
          = Append(QueueOf(O, S, row.target_node),
                   [ord |-> Cardinality(O) + 1, env |-> EventIn(S, row)])
    <2> DEFINE k == Size(O, row.target_node)
               f == QueueOf(O, S, row.target_node)
               g == QueueOf(U, S, row.target_node)
    <2>1. k \in Nat /\ f = [i \in 1..k |-> At(O, row.target_node, i)]
          /\ g = [i \in 1..(k + 1) |-> At(U, row.target_node, i)]
      BY <1>1, <1>2, <1>3
    <2>2. \A i \in 1..k : At(U, row.target_node, i) = At(O, row.target_node, i)
      BY <1>4
    <2>3. g[k + 1] = [ord |-> Cardinality(O) + 1, env |-> EventIn(S, row)]
      BY <1>3, <1>5, <2>1
    <2> HIDE DEF f, g, k
    <2>4. k \in Nat /\ Spans(f, k) /\ Spans(g, k + 1) /\ \A i \in 1..k : g[i] = f[i]
      BY <2>1, <2>2 DEF Spans
    <2>5. g = Append(f, g[k + 1])
      BY <2>4, Appended
    <2> QED BY <2>3, <2>5 DEF f, g
  <1> QED BY <1>6, <1>7 DEF U

\* The maps an insert into the queue changes.
WithQueued(M, N, k, Q) == [M EXCEPT !.enqueued = N, !.nextOrd = k, !.queue = Q]

LEMMA MapsOfQueued ==
    ASSUME NEW d, NEW e, NEW c, Others(d, e, {"outbound", "drawn"}),
           DeliveredOf(d.cursors, e.outbound) = DeliveredOf(d.cursors, d.outbound)
    PROVE  Maps(e, c) = WithQueued(Maps(d, c), EnqueuedOf(e.outbound), Cardinality(e.outbound),
                                   QueuesOf(e.outbound, Envelopes(d.events)))
  <1> DEFINE M == Maps(d, c)
             N == EnqueuedOf(e.outbound)
             k == Cardinality(e.outbound)
             Q == QueuesOf(e.outbound, Envelopes(d.events))
             A == [M EXCEPT !.enqueued = N]
             B == [A EXCEPT !.nextOrd = k]
             D == [B EXCEPT !.queue = Q]
  <1>1. Shaped(M, MapNames)
    BY Shapes
  <1>2. Shaped(A, MapNames) /\ \A g \in MapNames : A[g] = IF g = "enqueued" THEN N ELSE M[g]
    <2> HIDE DEF M, N
    <2> QED BY <1>1, Changed DEF MapNames
  <1>3. Shaped(B, MapNames) /\ \A g \in MapNames : B[g] = IF g = "nextOrd" THEN k ELSE A[g]
    <2> HIDE DEF M, k, A
    <2> QED BY <1>2, Changed DEF MapNames
  <1>4. Shaped(D, MapNames) /\ \A g \in MapNames : D[g] = IF g = "queue" THEN Q ELSE B[g]
    <2> HIDE DEF M, Q, B
    <2> QED BY <1>3, Changed DEF MapNames
  <1>5. D = WithQueued(M, N, k, Q)
    BY DEF WithQueued
  <1> HIDE DEF A, B, D
  <1>6. \A g \in MapNames : Maps(e, c)[g] = D[g]
    BY <1>2, <1>3, <1>4 DEF MapNames, TableNames, Others, Maps, M, N, k, Q
  <1>7. Maps(e, c) = D
    BY <1>4, <1>6, Shapes, SameFields
  <1> QED BY <1>5, <1>7

\* No cursor is past the last ordinal drawn, so a new row moves no rank a cursor has.
LEMMA CursorsStay ==
    ASSUME StoreInv, NEW row \in QueueRows, row.ord = db.drawn + 1
    PROVE  DeliveredOf(db.cursors, db.outbound \cup {row}) = DeliveredOf(db.cursors, db.outbound)
  <1>1. /\ db.drawn \in Nat /\ db.cursors \in SUBSET CursorRows
        /\ \A r \in db.cursors : r.delivered_ord <= db.drawn
        /\ \A r \in db.outbound : r.ord <= db.drawn
    BY DEF StoreInv, DbFits, Tables, QueueFits
  <1>2. ASSUME NEW n \in Nodes
        PROVE  RankIn(db.outbound \cup {row}, CursorOf(db.cursors, n, "delivered_ord"))
                 = RankIn(db.outbound, CursorOf(db.cursors, n, "delivered_ord"))
    <2> DEFINE S == {r["delivered_ord"] : r \in {r \in db.cursors : r.node_id = n}}
    <2>1. S \in SUBSET Nat /\ \A x \in S : x <= db.drawn
      BY <1>1 DEF CursorRows
    <2> HIDE DEF S
    <2>2. Largest(S) \in S \cup {0}
      BY <1>1, <2>1, LargestOf
    <2>3. Largest(S) \in Nat /\ Largest(S) < row.ord
      <3>1. \A x \in S \cup {0} : x \in Nat /\ x <= db.drawn
        BY <1>1, <2>1
      <3>2. \A x \in Nat : x <= db.drawn => x < row.ord
        BY <1>1
      <3> QED BY <2>2, <3>1, <3>2
    <2>4. /\ db.outbound \in SUBSET QueueRows /\ IsFiniteSet(db.outbound)
          /\ \A r \in db.outbound : r.ord < row.ord
      <3>1. \A r \in db.outbound : r.ord \in Nat
        BY LogFacts DEF QueueRows
      <3> QED BY <1>1, <3>1, LogFacts
    <2>5. RankIn(db.outbound \cup {row}, Largest(S)) = RankIn(db.outbound, Largest(S))
      BY <2>3, <2>4, RankGrows
    <2> QED BY <2>5 DEF CursorOf, S
  <1> QED BY <1>2 DEF DeliveredOf

LEMMA EnqueueMaps ==
    ASSUME StoreInv, NEW n \in Nodes, NEW env \in Stored, Enqueue(n, env) PROVE Memory!Enqueue(n, env)
  <1> DEFINE O == db.outbound
             row == QueueRow(db, n, env)
             key == {"target_node", "node_id", "seq"}
  <1>1. db \in Tables /\ db.drawn \in Nat /\ O \in SUBSET QueueRows /\ IsFiniteSet(O)
        /\ Unique(O, {"ord"}) /\ \A r \in O : r.ord <= db.drawn
    BY LogFacts DEF StoreInv, DbFits, QueueFits, Tables
  <1>2. row \in QueueRows /\ env.id = <<row.node_id, row.seq>> /\ row.target_node = n
        /\ row.ord = db.drawn + 1
    <2>1. PICK e \in db.events : env = Envelope(e)
      BY DEF Stored
    <2>2. e \in EventRows
      BY <1>1, <2>1 DEF Tables
    <2>3. env.id = <<e.node_id, e.seq>> /\ e.node_id \in Nat /\ e.seq \in Nat
      BY <2>1, <2>2, EventFacts, NodeNumbers DEF EventRows
    <2> QED BY <1>1, <2>3 DEF QueueRow, QueueRows
  <1>3. \A r \in O : r.ord < row.ord
    BY <1>1, <1>2 DEF QueueRows
  <1>4. db' = Queueing(db, n, env) /\ central' = central
    BY EnqueueIs DEF Enqueue, Statement
  <1>5. Loaded = Maps(db, central) /\ Loaded' = Maps(db', central)
    BY <1>4, LoadedIs, LoadedNext
  <1>6. /\ Loaded.enqueued = EnqueuedOf(O) /\ Loaded.nextOrd = Cardinality(O)
        /\ Loaded.queue = QueuesOf(O, Stored)
    BY <1>5, LogFacts DEF Maps
  <1>7. Others(db, db', {"outbound", "drawn"}) /\ db'.outbound = InsertNew(O, row, key)
    BY <1>1, <1>4 DEF Others, Shaped, Tables, TableNames, Queueing
  <1>8. <<n, env.id>> \in EnqueuedOf(O) <=> Conflicting(O, row, key) # {}
    <2>1. ASSUME NEW r \in O
          PROVE  <<r.target_node, <<r.node_id, r.seq>>>> = <<n, env.id>>
                   <=> (r.target_node = row.target_node /\ r.node_id = row.node_id /\ r.seq = row.seq)
      BY <1>2
    <2> HIDE DEF row
    <2> QED BY <2>1 DEF EnqueuedOf, Conflicting
  <1> HIDE DEF row
  <1>9. CASE Conflicting(O, row, key) # {}
    <2>1. db'.outbound = O
      BY <1>7, <1>9 DEF InsertNew
    <2>2. Maps(db', central) = Maps(db, central)
      <3>1. \A g \in MapNames : Maps(db', central)[g] = Maps(db, central)[g]
        BY <1>7, <2>1 DEF Others, TableNames, MapNames, Maps
      <3> QED BY <3>1, Shapes, SameFields
    <2> QED BY <1>5, <1>6, <1>8, <1>9, <2>2 DEF Memory!Enqueue
  <1>10. CASE Conflicting(O, row, key) = {}
    <2>1. db'.outbound = O \cup {row}
      BY <1>7, <1>10 DEF InsertNew
    <2>2. Loaded' = WithQueued(Loaded, EnqueuedOf(O \cup {row}), Cardinality(O \cup {row}),
                               QueuesOf(O \cup {row}, Stored))
      <3>1. DeliveredOf(db.cursors, db'.outbound) = DeliveredOf(db.cursors, O)
        BY <1>2, <2>1, CursorsStay
      <3>2. Maps(db', central)
              = WithQueued(Maps(db, central), EnqueuedOf(db'.outbound), Cardinality(db'.outbound),
                           QueuesOf(db'.outbound, Envelopes(db.events)))
        BY <1>7, <3>1, MapsOfQueued
      <3> QED BY <1>5, <2>1, <3>2, LogFacts
    <2>3. EnqueuedOf(O \cup {row}) = EnqueuedOf(O) \cup {<<n, env.id>>}
      BY <1>2 DEF EnqueuedOf
    <2>4. Cardinality(O \cup {row}) = Cardinality(O) + 1
      BY <1>1, <1>2, <1>3, RankGrows
    <2>5. EventIn(Stored, row) = env
      <3>1. \A e \in Stored : e.id = <<row.node_id, row.seq>> <=> e = env
        BY <1>2, LogFacts
      <3> QED BY <3>1 DEF EventIn
    <2>6. QueuesOf(O \cup {row}, Stored)
            = [QueuesOf(O, Stored) EXCEPT ![n] = Append(@, [ord |-> Cardinality(O) + 1, env |-> env])]
      <3>1. /\ \A k : k # n => QueueOf(O \cup {row}, Stored, k) = QueueOf(O, Stored, k)
            /\ QueueOf(O \cup {row}, Stored, n)
                 = Append(QueueOf(O, Stored, n), [ord |-> Cardinality(O) + 1, env |-> env])
        <4>1. /\ \A k : k # row.target_node => QueueOf(O \cup {row}, Stored, k) = QueueOf(O, Stored, k)
              /\ QueueOf(O \cup {row}, Stored, row.target_node)
                   = Append(QueueOf(O, Stored, row.target_node),
                            [ord |-> Cardinality(O) + 1, env |-> EventIn(Stored, row)])
          <5> HIDE DEF O
          <5> QED BY <1>1, <1>2, <1>3, QueueGrows
        <4> QED BY <1>2, <2>5, <4>1
      <3> QED BY <3>1 DEF QueuesOf
    <2>7. Loaded' = WithQueued(Loaded, Loaded.enqueued \cup {<<n, env.id>>}, Loaded.nextOrd + 1,
                               [Loaded.queue EXCEPT ![n] =
                                  Append(@, [ord |-> Loaded.nextOrd + 1, env |-> env])])
      BY <1>6, <2>2, <2>3, <2>4, <2>6
    <2>8. <<n, env.id>> \notin Loaded.enqueued
      BY <1>6, <1>8, <1>10
    <2> QED BY <2>7, <2>8 DEF Memory!Enqueue, WithQueued
  <1> QED BY <1>9, <1>10

-----------------------------------------------------------------------------
(* Every step is one of Memory's, a restart, or nothing *)

LEMMA TablesStand == ASSUME db' = db, central' = central PROVE Loaded' = Loaded
  BY LoadedIs, LoadedNext

LEMMA SameSize == Memory!Cardinality(Sent) = Cardinality(Sent)
  BY DEF Memory!Cardinality, Cardinality

LEMMA MemoryWrites ==
    /\ \A env \in Sent : Memory!AppendEvent(env) => Memory!Next
    /\ \A cause \in DOMAIN Loaded.events \cup {NoEvent}, now \in Walls :
          Memory!EmitCentral(cause, now) \/ Memory!EmitFails(cause, now) => Memory!Next
    /\ \A item \in Master : Memory!UpsertItem(item) => Memory!Next
    /\ \A line \in Orders : Memory!UpsertPurchaseOrder(line) => Memory!Next
    /\ \A f \in Facts : Memory!RecordReceipt(f) => Memory!Next
    /\ \A row \in Dispatched :
          Memory!RecordDispatch(row) \/ Memory!FailTransfer(row.transfer) => Memory!Next
    /\ \A a \in Arrived : Memory!AddReceived(a) => Memory!Next
    /\ \A d \in Outcomes : Memory!RecordDecision(d) => Memory!Next
  BY SameClock DEF Memory!Next

LEMMA MemoryNodeWrites ==
    ASSUME NEW n \in Nodes
    PROVE  /\ \A seq \in 0..Cardinality(Sent) : Memory!SetPushedSeq(n, seq) => Memory!Next
           /\ \A ord \in 1..Loaded.nextOrd : Memory!SetDeliveredOrd(n, ord) => Memory!Next
           /\ \A env \in Memory!Values(Loaded.events) : Memory!Enqueue(n, env) => Memory!Next
           /\ \A refused \in Refusals : Memory!RegisterNode(n, refused) => Memory!Next
  BY SameSize DEF Memory!Next

LEMMA WriteMaps == ASSUME StoreInv, Write PROVE Memory!Next \/ UNCHANGED Loaded
  <1>1. CASE \E env \in Sent : AppendEvent(env)
    BY <1>1, AppendMaps, MemoryWrites
  <1>2. CASE \E cause \in {e.id : e \in Stored \cap Sent} \cup {NoEvent}, now \in Walls :
                EmitCentral(cause, now)
    <2>1. PICK cause \in {e.id : e \in Stored \cap Sent} \cup {NoEvent}, now \in Walls :
               EmitCentral(cause, now)
      BY <1>2
    <2>2. cause \in DOMAIN Loaded.events \cup {NoEvent}
      BY SameReading
    <2>3. Memory!EmitCentral(cause, now) \/ Memory!EmitFails(cause, now)
      BY <2>1, EmitMaps
    <2> QED BY <2>2, <2>3, MemoryWrites
  <1>3. ASSUME NEW n \in Nodes, NEW seq \in 1..Cardinality(Sent), SetPushedSeq(n, seq)
        PROVE  Memory!Next
    <2>1. Memory!SetPushedSeq(n, seq)
      BY <1>3, SetPushedMaps
    <2>2. seq \in 0..Cardinality(Sent)
      OBVIOUS
    <2> QED BY <2>1, <2>2, MemoryNodeWrites
  <1>4. ASSUME NEW n \in Nodes, NEW r \in Queued(n), SetDeliveredOrd(n, r.ord)
        PROVE  Memory!Next
    BY <1>4, SetDeliveredMaps, MemoryNodeWrites
  <1>5. ASSUME NEW n \in Nodes, NEW env \in Stored, Enqueue(n, env) PROVE Memory!Next
    <2>1. Memory!Enqueue(n, env)
      BY <1>5, EnqueueMaps
    <2>2. Memory!Values(Loaded.events) = Stored
      BY LoadedIs, LogFacts DEF Maps
    <2> QED BY <2>1, <2>2, MemoryNodeWrites
  <1>6. ASSUME NEW n, NEW refused, RegisterNode(n, refused) PROVE UNCHANGED Loaded
    BY <1>6, TablesStand DEF RegisterNode
  <1>7. CASE \E item \in Master : UpsertItem(item)
    BY <1>7, UpsertItemMaps, MemoryWrites
  <1>8. CASE \E line \in Orders : UpsertPurchaseOrder(line)
    BY <1>8, UpsertOrderMaps, MemoryWrites
  <1>9. CASE \E f \in Facts : RecordReceipt(f)
    BY <1>9, RecordReceiptMaps, MemoryWrites
  <1>10. CASE \E row \in Dispatched : RecordDispatch(row) \/ FailTransfer(row.transfer)
    BY <1>10, RecordDispatchMaps, FailTransferMaps, MemoryWrites
  <1>11. ASSUME NEW a, MarkReceived(a) PROVE UNCHANGED Loaded
    BY <1>11, TablesStand DEF MarkReceived
  <1>12. CASE \E d \in Outcomes : RecordDecision(d)
    BY <1>12, RecordDecisionMaps, MemoryWrites
  <1> QED BY <1>1, <1>2, <1>3, <1>4, <1>5, <1>6, <1>7, <1>8, <1>9, <1>10, <1>11, <1>12 DEF Write

LEMMA StepMaps == ASSUME StoreInv, [Next]_vars PROVE [Memory!Next \/ Reopened]_Loaded
  <1>1. CASE Write
    BY <1>1, WriteMaps
  <1>2. CASE InsertReject
    BY <1>2, TablesStand DEF InsertReject
  <1>3. CASE CommitRegistration
    <2>1. PICK n \in Nodes, refused \in Refusals :
               db' = Registered(db, n, refused) /\ UNCHANGED <<central, workload, calls>> /\ tx' = NoTx
      BY <1>3, CommitIs
    <2>2. Memory!RegisterNode(n, refused)
      BY <2>1, CommitMaps
    <2> QED BY <2>2, MemoryNodeWrites
  <1>4. CASE AddToRow
    <2>1. UNCHANGED <<central, workload, calls>> /\ tx' = NoTx
      BY <1>4, AddIs
    <2>2. PICK a \in Arrived :
               /\ Conflicting(db.transfer_receipts, MarkOf(a), {"event", "sku"}) = {}
               /\ db' = IF Conflicting(db.in_transit, a, TransitKey) = {} THEN db ELSE Folded(db, a)
      BY <1>4, AddIs
    <2>3. CASE Conflicting(db.in_transit, a, TransitKey) = {}
      BY <2>1, <2>2, <2>3, TablesStand
    <2>4. CASE Conflicting(db.in_transit, a, TransitKey) # {}
      <3>1. Memory!AddReceived(a)
        BY <2>1, <2>2, <2>4, FoldMaps
      <3> QED BY <3>1, MemoryWrites
    <2> QED BY <2>3, <2>4
  <1>5. CASE Rollback
    BY <1>5, TablesStand DEF Rollback
  <1>6. CASE Restart
    BY <1>6, RestartMaps
  <1>7. CASE UNCHANGED vars
    BY <1>7, TablesStand DEF vars
  <1> QED BY <1>1, <1>2, <1>3, <1>4, <1>5, <1>6, <1>7 DEF Next

LEMMA InitMaps == ASSUME Init PROVE Memory!Init
  <1>1. /\ db.events = {} /\ db.cursors = {} /\ db.outbound = {} /\ db.items = {}
        /\ db.purchase_orders = {} /\ db.nodes = {} /\ db.node_rejects = {} /\ db.receipts = {}
        /\ db.in_transit = {} /\ db.transfer_receipts = {} /\ db.decisions = {}
        /\ central.seq = 0 /\ central.hl = 0
    BY DEF Init, Schema
  <1>2. \A f : DOMAIN f = {} /\ f = [k \in {} |-> f[k]] => f = << >>
    OBVIOUS
  <1>3. \A c, a, b : Column({}, c) = << >> /\ Pairs({}, a, b) = << >> /\ Quantities({}, a, b) = << >>
    BY <1>2 DEF Column, Pairs, Quantities
  <1>4. NodesOf({}, {}) = << >>
    BY DEF NodesOf
  <1>5. Cardinality({}) = 0 /\ Largest({}) = 0
    BY FS_EmptySet, LargestSingle
  <1>6. PushedOf({}) = [n \in Nodes |-> 0] /\ DeliveredOf({}, {}) = [n \in Nodes |-> 0]
    <2>1. \A n, c : CursorOf({}, n, c) = 0
      BY <1>5 DEF CursorOf
    <2>2. \A ord : RankIn({}, ord) = 0
      BY <1>5 DEF RankIn
    <2> QED BY <2>1, <2>2 DEF PushedOf, DeliveredOf
  <1>7. Envelopes({}) = {} /\ EnqueuedOf({}) = {}
    BY DEF Envelopes, EnqueuedOf
  <1>8. QueuesOf({}, {}) = [n \in Nodes |-> << >>]
    <2>1. \A n : QueuedIn({}, n) = {}
      BY DEF QueuedIn
    <2>2. ASSUME NEW n PROVE QueueOf({}, {}, n) = << >>
      <3>1. DOMAIN QueueOf({}, {}, n) = {}
        BY <1>5, <2>1 DEF QueueOf
      <3>2. QueueOf({}, {}, n) = [i \in DOMAIN QueueOf({}, {}, n) |-> QueueOf({}, {}, n)[i]]
        BY DEF QueueOf
      <3> QED BY <1>2, <3>1, <3>2
    <2> QED BY <2>2 DEF QueuesOf
  <1>9. Loaded = Memory!NewMemory
    <2> DEFINE zeros == [n \in Nodes |-> 0]
               none == [n \in Nodes |-> << >>]
    <2>1. /\ Column(Envelopes(db.events), "id") = << >> /\ Column(db.items, "sku") = << >>
          /\ Column(db.receipts, "event") = << >> /\ Column(db.decisions, "event") = << >>
          /\ Quantities(db.purchase_orders, "po", "sku") = << >>
          /\ Quantities(db.transfer_receipts, "event", "sku") = << >>
          /\ Pairs(db.in_transit, "transfer", "sku") = << >>
          /\ NodesOf(db.nodes, db.node_rejects) = << >>
      BY <1>1, <1>3, <1>4, <1>7
    <2>2. /\ PushedOf(db.cursors) = zeros /\ DeliveredOf(db.cursors, db.outbound) = zeros
          /\ QueuesOf(db.outbound, Envelopes(db.events)) = none
          /\ Cardinality(db.outbound) = 0 /\ EnqueuedOf(db.outbound) = {}
      BY <1>1, <1>5, <1>6, <1>7, <1>8
    <2>3. Memory!NewMemory =
            [events |-> << >>, centralHL |-> 0, centralN |-> 0, pushed |-> zeros, delivered |-> zeros,
             queue |-> none, nextOrd |-> 0, enqueued |-> {}, items |-> << >>, orders |-> << >>,
             nodes |-> << >>, receipts |-> << >>, transit |-> << >>, folded |-> << >>,
             decisions |-> << >>]
      BY DEF Memory!NewMemory
    <2> HIDE DEF zeros, none
    <2>4. Maps(db, central) = Memory!NewMemory
      BY <1>1, <2>1, <2>2, <2>3 DEF Maps
    <2> QED BY <2>4, LoadedIs
  <1> QED BY <1>9 DEF Memory!Init

\* Postgres implements Memory: whatever is called, retried, rolled back or cut short by a crash,
\* the tables are at each moment maps that Memory's calls lead to, one call at a time, and a
\* restart loses nothing stored: the sequence and the clock go on from central's last stored
\* event (runStoreContract tests the two stores for the same answers; store.go:6-9).
THEOREM MemoryCorrect == Spec => MemoryImplemented
  <1>1. StoreInv /\ [Next]_vars => [Memory!Next \/ Reopened]_Loaded
    BY StepMaps
  <1>2. Init => Memory!Init
    BY InitMaps
  <1> QED BY <1>1, <1>2, StoreInvAlways, PTL DEF Spec, MemoryImplemented
=============================================================================
