--------------------------- MODULE OutboundProofs ---------------------------
(***************************************************************************)
(* Proofs about central's downstream queue, for every set of envelopes and  *)
(* handlers, every page size and every number of failures: the types for    *)
(* any writers, and, where one call of Enqueue is under way at a time, that *)
(* no position a node acknowledged passes a row it has not applied and that *)
(* the whole is a reliable FIFO queue.                                      *)
(***************************************************************************)
EXTENDS OutboundProperties, TLAPS, FiniteSetTheorems, WellFoundedInduction

-----------------------------------------------------------------------------
(* Sets of rows *)

Apart(S) == \A r, q \in S : r.ord = q.ord => r = q

\* A non-empty set of naturals has a least element, and a greatest if it is bounded.
LEMMA LeastNumber ==
    ASSUME NEW T \in SUBSET Nat, T # {}
    PROVE  \E m \in T : \A n \in T : m <= n
  <1>1. PICK m \in T : \A n \in T : <<n, m>> \notin OpToRel(<, Nat)
    BY NatLessThanWellFounded, WFMin
  <1>2. \A n \in T : ~ (n < m)
    BY <1>1 DEF OpToRel
  <1>. QED
    BY <1>2

LEMMA GreatestNumber ==
    ASSUME NEW T \in SUBSET Nat, T # {}, NEW b \in Nat, \A n \in T : n <= b
    PROVE  \E m \in T : \A n \in T : n <= m
  <1>. DEFINE U == {b - n : n \in T}
  <1>1. U \subseteq Nat /\ U # {}
    <2>1. \A n \in T : b - n \in Nat
      OBVIOUS
    <2>. QED
      BY <2>1
  <1>2. PICK u \in U : \A n \in U : u <= n
    BY <1>1, LeastNumber
  <1>3. PICK m \in T : u = b - m
    OBVIOUS
  <1>4. \A n \in T : b - m <= b - n
    BY <1>2, <1>3
  <1>. QED
    BY <1>4

LEMMA LeastRow ==
    ASSUME NEW S \in SUBSET Row, S # {}
    PROVE  \E m \in S : \A r \in S : m.ord <= r.ord
  <1>. DEFINE T == {r.ord : r \in S}
  <1>1. T \subseteq Nat /\ T # {}
    BY DEF Row
  <1>2. PICK o \in T : \A n \in T : o <= n
    BY <1>1, LeastNumber
  <1>. QED
    BY <1>2

LEMMA LastOrdFacts ==
    ASSUME NEW S \in SUBSET Row, S # {}, NEW b \in Nat, \A r \in S : r.ord <= b
    PROVE  /\ LastOrd(S) \in Nat
           /\ \E r \in S : r.ord = LastOrd(S)
           /\ \A r \in S : r.ord <= LastOrd(S)
  <1>. DEFINE T == {r.ord : r \in S}
  <1>1. T \subseteq Nat /\ T # {} /\ \A n \in T : n <= b
    BY DEF Row
  <1>2. PICK o \in T : \A n \in T : n <= o
    BY <1>1, GreatestNumber
  <1>3. \A r \in S : r.ord <= o
    BY <1>2
  <1>4. LastOrd(S) \in T /\ \A r \in S : r.ord <= LastOrd(S)
    BY <1>2, <1>3 DEF LastOrd
  <1>. QED
    BY <1>1, <1>4

\* FirstOf takes from the front of a set of rows, and something as soon as it may.
LEMMA FirstOfFacts ==
    ASSUME NEW S \in SUBSET Row, IsFiniteSet(S), Apart(S), NEW k \in Nat
    PROVE  /\ FirstOf(S, k) \subseteq S
           /\ \A r \in FirstOf(S, k), q \in S : q.ord <= r.ord => q \in FirstOf(S, k)
           /\ S # {} /\ k > 0 => FirstOf(S, k) # {}
  <1>. DEFINE Upto(r) == {q \in S : q.ord <= r.ord}
  <1>1. \A r \in S : IsFiniteSet(Upto(r)) /\ Cardinality(Upto(r)) \in Nat
    BY FS_Subset, FS_CardinalityType
  <1>2. FirstOf(S, k) \subseteq S
    BY DEF FirstOf
  <1>3. ASSUME NEW r \in FirstOf(S, k), NEW q \in S, q.ord <= r.ord
        PROVE  q \in FirstOf(S, k)
    <2>1. r \in S /\ Cardinality(Upto(r)) <= k
      BY <1>3 DEF FirstOf
    <2>2. Upto(q) \subseteq Upto(r)
      BY <1>3, <2>1 DEF Row
    <2>3. Cardinality(Upto(q)) <= Cardinality(Upto(r))
      BY <1>1, <2>1, <2>2, FS_Subset
    <2>4. Cardinality(Upto(q)) <= k
      <3>1. Cardinality(Upto(q)) \in Nat /\ Cardinality(Upto(r)) \in Nat
        BY <1>1, <2>1
      <3>. HIDE DEF Upto
      <3>. QED
        BY <2>1, <2>3, <3>1
    <2>. QED
      BY <2>4 DEF FirstOf
  <1>4. ASSUME S # {}, k > 0 PROVE FirstOf(S, k) # {}
    <2>1. PICK m \in S : \A r \in S : m.ord <= r.ord
      BY <1>4, LeastRow
    <2>2. Upto(m) = {m}
      BY <2>1 DEF Apart, Row
    <2>3. Cardinality(Upto(m)) = 1
      BY <2>2, FS_Singleton
    <2>. QED
      BY <1>4, <2>3 DEF FirstOf
  <1>. QED
    BY <1>2, <1>3, <1>4

\* The first row of a set comes before all its others.
LEMMA FirstRow ==
    ASSUME NEW S \in SUBSET Row, IsFiniteSet(S), Apart(S), S # {}
    PROVE  \E m \in S : FirstOf(S, 1) = {m} /\ \A r \in S : m.ord <= r.ord
  <1>1. PICK m \in S : \A r \in S : m.ord <= r.ord
    BY LeastRow
  <1>2. FirstOf(S, 1) \subseteq S /\ FirstOf(S, 1) # {}
    BY FirstOfFacts
  <1>3. ASSUME NEW r \in FirstOf(S, 1) PROVE r = m
    <2>. DEFINE Upto == {q \in S : q.ord <= r.ord}
    <2>1. IsFiniteSet(Upto) /\ Cardinality(Upto) \in Nat /\ Cardinality(Upto) <= 1
      BY FS_Subset, FS_CardinalityType DEF FirstOf
    <2>2. r \in Upto /\ m \in Upto
      BY <1>1, <1>2 DEF Row
    <2>3. {r} \subseteq Upto /\ Cardinality({r}) = 1
      BY <2>2, FS_Singleton
    <2>4. {r} = Upto
      <3>1. Cardinality({r}) <= Cardinality(Upto)
        BY <2>1, <2>3, FS_Subset
      <3>2. Cardinality(Upto) = Cardinality({r})
        BY <2>1, <2>3, <3>1
      <3>. QED
        BY <2>1, <2>3, <3>2, FS_Subset
    <2>. QED
      BY <2>2, <2>4
  <1>. QED
    BY <1>1, <1>2, <1>3

-----------------------------------------------------------------------------
(* Types *)

Drawn == rows \cup UNION {writing[w] : w \in Writers}

\* Each position is drawn once, so a set of rows has a first and a last one.
RowsApart ==
    /\ IsFiniteSet(rows)
    /\ \A w \in Writers : IsFiniteSet(writing[w])
    /\ Apart(Drawn)
    /\ \A r \in Drawn : r.ord <= nextOrd

\* What a handler holds was read from the queue, and what it stores is a position.
HandlerFits(s) ==
    /\ s.page \subseteq rows
    /\ s.pc = "store" => s.ack # NoAck

TypeInv ==
    /\ TypeOK
    /\ RowsApart
    /\ \A h \in Handlers : HandlerFits(handler[h])

HandlerType ==
    [pc : {"idle", "cursor", "page", "send", "ack", "store"},
     cursor : Nat, page : SUBSET Row, ack : Nat \cup {NoAck}]
ClientType ==
    [pc : {"off", "receive", "ingest", "apply", "pulled", "ack"},
     at : SUBSET Handlers, batch : Batch, highest : Nat]

LEMMA RecordTypes ==
    /\ TypeOK => handler \in [Handlers -> HandlerType] /\ client \in ClientType
    /\ IdleHandler \in HandlerType
    /\ Disconnected \in ClientType
    /\ NoBatch \in Batch
  BY DEF TypeOK, HandlerType, ClientType, IdleHandler, Disconnected, NoBatch, Batch, NoAck

LEMMA TypeInvInit == Init => TypeInv
  <1>. SUFFICES ASSUME Init PROVE TypeInv
    OBVIOUS
  <1>1. TypeOK
    BY RecordTypes, OutboundAssumption DEF Init, TypeOK, HandlerType, ClientType
  <1>2. Drawn = {}
    BY DEF Init, Drawn
  <1>. QED
    BY <1>1, <1>2, FS_EmptySet DEF Init, TypeInv, RowsApart, Apart, IdleHandler, HandlerFits

\* A step of a handler leaves the queue, the node and the client alone.
LEMMA HandlerTypes ==
    ASSUME TypeInv, HandlerFrame, delivered' \in Nat, frames' \in Seq(Batch),
           NEW h \in Handlers, NEW s \in HandlerType, HandlerFits(s),
           handler' = [handler EXCEPT ![h] = s]
    PROVE  TypeInv'
  <1>1. handler' \in [Handlers -> HandlerType]
    BY RecordTypes DEF TypeInv
  <1>2. \A g \in Handlers : HandlerFits(handler'[g])
    BY DEF TypeInv, TypeOK
  <1>3. TypeOK'
    BY <1>1 DEF TypeInv, TypeOK, HandlerFrame, HandlerType, queueVars, nodeVars
  <1>4. RowsApart'
    BY DEF TypeInv, RowsApart, Drawn, HandlerFrame, queueVars
  <1>. QED
    BY <1>2, <1>3, <1>4 DEF TypeInv, HandlerFrame, queueVars, HandlerFits

\* A step of the client leaves the queue and what central stored alone.
LEMMA ClientTypes ==
    ASSUME TypeInv, UNCHANGED <<queueVars, delivered, handler>>,
           failures' \in Nat, pulled' \in Nat, frames' \in Seq(Batch),
           ingested' \subseteq Envs, applied' \subseteq Envs, client' \in ClientType
    PROVE  TypeInv'
  <1>1. TypeOK'
    BY DEF TypeInv, TypeOK, ClientType, queueVars
  <1>2. RowsApart'
    BY DEF TypeInv, RowsApart, Drawn, queueVars
  <1>. QED
    BY <1>1, <1>2 DEF TypeInv, queueVars, HandlerFits

LEMMA EnqueueTypes ==
    ASSUME TypeInv, NEW w \in Writers, Enqueue(w) PROVE TypeInv'
  <1>1. CASE Draw(w)
    <2>1. PICK e \in Envs :
              writing' = [writing EXCEPT ![w] = {[ord |-> nextOrd + 1, env |-> e]}]
      BY <1>1 DEF Draw
    <2>. DEFINE p == [ord |-> nextOrd + 1, env |-> e]
    <2>2. p \in Row /\ nextOrd' = nextOrd + 1 /\ nextOrd' \in Nat
      BY <1>1 DEF Draw, Row, TypeInv, TypeOK
    <2>3. TypeOK'
      BY <1>1, <2>1, <2>2 DEF Draw, TypeInv, TypeOK, nodeVars
    <2>4. Drawn' \subseteq Drawn \cup {p}
      BY <1>1, <2>1 DEF Draw, Drawn, TypeInv, TypeOK
    <2>5. \A r \in Drawn : r.ord \in Nat /\ r.ord < p.ord
      BY <2>2 DEF TypeInv, TypeOK, RowsApart, Drawn, Row
    <2>6. RowsApart'
      <3>1. Apart(Drawn')
        BY <2>4, <2>5 DEF Apart, TypeInv, RowsApart
      <3>2. \A r \in Drawn' : r.ord <= nextOrd'
        BY <2>2, <2>4, <2>5
      <3>3. \A v \in Writers : IsFiniteSet(writing'[v])
        BY <2>1, FS_Singleton DEF TypeInv, TypeOK, RowsApart
      <3>. QED
        BY <1>1, <3>1, <3>2, <3>3 DEF RowsApart, TypeInv, Draw
    <2>. QED
      BY <1>1, <2>3, <2>6 DEF TypeInv, Draw, HandlerFits
  <1>2. CASE Commit(w)
    <2>. DEFINE new == {r \in writing[w] : r.env \notin EnvsOf(rows)}
    <2>1. writing[w] \subseteq Drawn /\ writing[w] \subseteq Row
      BY DEF Drawn, TypeInv, TypeOK
    <2>2. rows' = rows \cup new /\ writing' = [writing EXCEPT ![w] = {}]
      BY <1>2 DEF Commit
    <2>3. TypeOK'
      BY <1>2, <2>1, <2>2 DEF Commit, TypeInv, TypeOK, nodeVars
    <2>4. Drawn' \subseteq Drawn
      BY <2>2 DEF Drawn, TypeInv, TypeOK
    <2>5. IsFiniteSet(writing[w])
      BY DEF TypeInv, RowsApart
    <2>6. IsFiniteSet(rows')
      BY <2>2, <2>5, FS_Subset, FS_Union DEF TypeInv, RowsApart
    <2>7. \A v \in Writers : IsFiniteSet(writing'[v])
      BY <2>2, FS_EmptySet DEF TypeInv, TypeOK, RowsApart
    <2>8. RowsApart'
      BY <1>2, <2>4, <2>6, <2>7 DEF RowsApart, TypeInv, Commit, Apart
    <2>. QED
      BY <1>2, <2>2, <2>3, <2>8 DEF TypeInv, Commit, HandlerFits
  <1>3. CASE Abort(w)
    <2>1. TypeOK'
      BY <1>3 DEF Abort, TypeInv, TypeOK, nodeVars
    <2>2. Drawn' \subseteq Drawn
      BY <1>3 DEF Abort, Drawn, TypeInv, TypeOK
    <2>3. \A v \in Writers : IsFiniteSet(writing'[v])
      BY <1>3, FS_EmptySet DEF Abort, TypeInv, TypeOK, RowsApart
    <2>. QED
      BY <1>3, <2>1, <2>2, <2>3 DEF TypeInv, RowsApart, Apart, Abort, HandlerFits
  <1>. QED
    BY <1>1, <1>2, <1>3 DEF Enqueue

LEMMA PageFacts ==
    ASSUME TypeInv, NEW h \in Handlers
    PROVE  LET page == handler[h].page
           IN page \in SUBSET Row /\ IsFiniteSet(page) /\ Apart(page)
              /\ \A r \in page : r.ord <= nextOrd
  BY FS_Subset DEF TypeInv, TypeOK, RowsApart, Drawn, Apart, HandlerFits

LEMMA AboveFacts ==
    ASSUME TypeInv, NEW cursor
    PROVE  Above(cursor) \in SUBSET rows /\ rows \in SUBSET Row
           /\ IsFiniteSet(Above(cursor)) /\ Apart(Above(cursor))
  BY FS_Subset DEF TypeInv, TypeOK, RowsApart, Drawn, Apart, Above

LEMMA SendType ==
    ASSUME TypeInv, NEW h, NEW batch \in Batch, Send(h, batch)
    PROVE  frames' \in Seq(Batch)
  BY DEF Send, TypeInv, TypeOK

LEMMA PushTypes ==
    ASSUME TypeInv, NEW h \in Handlers, Push(h) PROVE TypeInv'
  <1>. DEFINE s == handler[h]
  <1>. s \in HandlerType /\ HandlerFits(s)
    BY RecordTypes DEF TypeInv
  <1>. delivered \in Nat /\ frames \in Seq(Batch)
    BY DEF TypeInv, TypeOK
  <1>1. CASE ReadCursor(h)
    <2>1. handler' = [handler EXCEPT ![h] = [s EXCEPT !.pc = "page", !.cursor = delivered]]
      BY <1>1 DEF ReadCursor, TypeInv, TypeOK
    <2>2. [s EXCEPT !.pc = "page", !.cursor = delivered] \in HandlerType
      BY DEF HandlerType
    <2>. QED
      BY <1>1, <2>1, <2>2, HandlerTypes DEF ReadCursor, HandlerType, HandlerFits
  <1>2. CASE ReadPage(h)
    <2>. DEFINE page == FirstOf(Above(s.cursor), MaxPage)
                batch == [rows |-> {}, last |-> s.cursor, more |-> FALSE]
    <2>1. page \subseteq rows /\ page \in SUBSET Row
      BY AboveFacts, FirstOfFacts, OutboundAssumption
    <2>2. CASE Send(h, batch) /\ handler' = [handler EXCEPT ![h].pc = "ack"]
      <3>1. batch \in Batch
        BY DEF Batch, HandlerType
      <3>2. handler' = [handler EXCEPT ![h] = [s EXCEPT !.pc = "ack"]]
        BY <2>2 DEF TypeInv, TypeOK
      <3>3. [s EXCEPT !.pc = "ack"] \in HandlerType
        BY DEF HandlerType
      <3>. QED
        BY <1>2, <2>2, <3>1, <3>2, <3>3, SendType, HandlerTypes
           DEF ReadPage, HandlerType, HandlerFits
    <2>3. CASE /\ handler' = [handler EXCEPT ![h].pc = "send", ![h].page = page]
               /\ UNCHANGED frames
      <3>1. handler' = [handler EXCEPT ![h] = [s EXCEPT !.pc = "send", !.page = page]]
        BY <2>3 DEF TypeInv, TypeOK
      <3>2. [s EXCEPT !.pc = "send", !.page = page] \in HandlerType
        BY <2>1 DEF HandlerType
      <3>. QED
        BY <1>2, <2>1, <2>3, <3>1, <3>2, HandlerTypes DEF ReadPage, HandlerType, HandlerFits
    <2>. QED
      BY <1>2, <2>2, <2>3 DEF ReadPage
  <1>3. CASE SendChunk(h)
    <2>. DEFINE page == s.page
                chunk(k) == FirstOf(page, k)
                rest(k) == page \ chunk(k)
                last(k) == LastOrd(chunk(k))
                more(k) == rest(k) # {} \/ Above(last(k)) # {}
                batch(k) == [rows |-> chunk(k), last |-> last(k), more |-> more(k)]
                next(k) == [s EXCEPT !.page = rest(k), !.cursor = last(k),
                              !.pc = IF rest(k) # {} THEN "send"
                                     ELSE IF more(k) THEN "page" ELSE "ack"]
    <2>1. PICK k \in 1..Cardinality(page) :
              /\ Send(h, batch(k))
              /\ handler' = [handler EXCEPT ![h] = next(k)]
      BY <1>3 DEF SendChunk
    <2>2. page # {} /\ k \in Nat /\ k > 0 /\ page \in SUBSET Row
      BY PageFacts, FS_EmptySet
    <2>3. chunk(k) \subseteq page /\ chunk(k) # {}
      BY <2>2, PageFacts, FirstOfFacts
    <2>4. last(k) \in Nat
      BY <2>2, <2>3, PageFacts, LastOrdFacts DEF TypeInv, TypeOK
    <2>5. batch(k) \in Batch
      BY <2>2, <2>3, <2>4 DEF Batch
    <2>6. next(k) \in HandlerType /\ HandlerFits(next(k))
      BY <2>2, <2>3, <2>4 DEF HandlerType, HandlerFits
    <2>. HIDE DEF batch, next
    <2>. QED
      BY <1>3, <2>1, <2>5, <2>6, SendType, HandlerTypes DEF SendChunk
  <1>4. CASE ReceiveAck(h)
    <2>. DEFINE t == IF s.ack > 0 THEN [s EXCEPT !.pc = "store"] ELSE IdleHandler
    <2>1. t \in HandlerType /\ HandlerFits(t)
      BY <1>4, RecordTypes DEF HandlerType, IdleHandler, HandlerFits, ReceiveAck
    <2>2. handler' = [handler EXCEPT ![h] = t]
      BY <1>4 DEF ReceiveAck
    <2>. QED
      BY <1>4, <2>1, <2>2, HandlerTypes DEF ReceiveAck
  <1>5. CASE StoreDelivered(h) \/ Notice(h)
    <2>1. IdleHandler \in HandlerType /\ HandlerFits(IdleHandler)
      BY RecordTypes DEF IdleHandler, HandlerFits
    <2>2. delivered' \in Nat
      BY <1>5 DEF StoreDelivered, Notice, HandlerType, HandlerFits, At, NoAck
    <2>. QED
      BY <1>5, <2>1, <2>2, HandlerTypes DEF StoreDelivered, Notice
  <1>. QED
    BY <1>1, <1>2, <1>3, <1>4, <1>5 DEF Push

LEMMA ClientStepTypes ==
    ASSUME TypeInv, ApplyDownstream PROVE TypeInv'
  <1>. client \in ClientType /\ frames \in Seq(Batch)
    BY RecordTypes DEF TypeInv, TypeOK
  <1>. /\ pulled \in Nat /\ ingested \subseteq Envs /\ applied \subseteq Envs
       /\ failures \in Nat /\ delivered \in Nat
    BY DEF TypeInv, TypeOK
  <1>. Disconnected \in ClientType /\ NoBatch \in Batch
    BY RecordTypes
  <1>1. CASE ReceiveFrame
    <2>1. Head(frames) \in Batch /\ Tail(frames) \in Seq(Batch)
      BY <1>1 DEF ReceiveFrame
    <2>. QED
      BY <1>1, <2>1, ClientTypes DEF ReceiveFrame, ClientFrame, nodeVars, ClientType
  <1>2. CASE Ingest
    <2>1. EnvsOf(client.batch.rows) \subseteq Envs
      BY DEF EnvsOf, ClientType, Batch, Row
    <2>2. client' \in ClientType
      BY <1>2 DEF Ingest, ToApply, ClientType, Batch
    <2>. QED
      BY <1>2, <2>1, <2>2, ClientTypes DEF Ingest, ClientFrame
  <1>3. CASE Apply
    <2>. DEFINE first == FirstOf(client.batch.rows, 1)
                batch == client.batch
    <2>1. batch.rows \in SUBSET Row /\ batch \in Batch
      BY DEF ClientType, Batch
    <2>2. EnvsOf(first) \subseteq Envs
      <3>1. first \subseteq Row
        BY <2>1 DEF FirstOf
      <3>. QED
        BY <3>1 DEF EnvsOf, Row
    <2>3. CASE batch.rows # {}
      <3>1. [batch EXCEPT !.rows = batch.rows \ first] \in Batch
        BY <2>1 DEF Batch
      <3>2. client' = [client EXCEPT !.batch = [batch EXCEPT !.rows = batch.rows \ first]]
        BY <1>3, <2>3 DEF Apply, ClientType
      <3>3. client' \in ClientType
        BY <3>1, <3>2 DEF ClientType
      <3>. QED
        BY <1>3, <2>2, <2>3, <3>3, ClientTypes DEF Apply, ClientFrame
    <2>4. CASE batch.rows = {}
      <3>1. Max2(client.highest, batch.last) \in Nat
        BY <2>1 DEF Max2, ClientType, Batch
      <3>2. client' = [client EXCEPT !.highest = Max2(client.highest, batch.last),
                         !.batch = NoBatch, !.pc = IF batch.more THEN "receive" ELSE "pulled"]
        BY <1>3, <2>4 DEF Apply, ClientType
      <3>3. client' \in ClientType
        BY <3>1, <3>2 DEF ClientType
      <3>. QED
        BY <1>3, <2>4, <3>3, ClientTypes DEF Apply, ClientFrame
    <2>. QED
      BY <2>3, <2>4
  <1>4. CASE StorePulled
    BY <1>4, ClientTypes DEF StorePulled, ClientFrame, ClientType
  <1>5. CASE SendAck
    <2>1. handler' \in [Handlers -> HandlerType]
      BY <1>5, RecordTypes DEF SendAck, HandlerType, ClientType, TypeInv
    <2>2. \A h \in Handlers : HandlerFits(handler[h])'
      BY <1>5 DEF SendAck, HandlerFits, ClientFrame, queueVars, TypeInv, TypeOK, ClientType, NoAck
    <2>3. TypeOK'
      BY <1>5, <2>1
      DEF SendAck, TypeInv, TypeOK, ClientFrame, HandlerType, ClientType, queueVars, nodeVars
    <2>4. RowsApart'
      BY <1>5 DEF SendAck, ClientFrame, TypeInv, RowsApart, Drawn, queueVars
    <2>. QED
      BY <2>2, <2>3, <2>4 DEF TypeInv
  <1>6. CASE StreamEnds
    BY <1>6, ClientTypes DEF StreamEnds, ClientFrame, nodeVars
  <1>. QED
    BY <1>1, <1>2, <1>3, <1>4, <1>5, <1>6 DEF ApplyDownstream

LEMMA ConnectTypes ==
    ASSUME TypeInv, NEW h \in Handlers, Connect(h) PROVE TypeInv'
  <1>1. client' \in ClientType /\ frames' \in Seq(Batch)
    <2>1. client' = [pc |-> "receive", at |-> {h}, batch |-> NoBatch, highest |-> 0]
      BY DEF Connect, Disconnected
    <2>. QED
      BY <2>1, RecordTypes DEF Connect, ClientType
  <1>2. handler' \in [Handlers -> HandlerType]
    BY RecordTypes DEF Connect, HandlerType, TypeInv
  <1>3. TypeOK'
    BY <1>1, <1>2
    DEF Connect, TypeInv, TypeOK, ClientFrame, HandlerType, ClientType, queueVars, nodeVars
  <1>4. RowsApart'
    BY DEF Connect, ClientFrame, TypeInv, RowsApart, Drawn, queueVars
  <1>5. \A g \in Handlers : HandlerFits(handler[g])'
    BY DEF Connect, HandlerFits, ClientFrame, queueVars, TypeInv, TypeOK
  <1>. QED
    BY <1>3, <1>4, <1>5 DEF TypeInv

LEMMA FailureTypes ==
    ASSUME TypeInv, Drop \/ Restart \/ \E h \in Handlers : Fail(h) PROVE TypeInv'
  <1>1. ASSUME NEW h \in Handlers, Fail(h) PROVE TypeInv'
    <2>1. handler' \in [Handlers -> HandlerType]
      BY <1>1, RecordTypes DEF Fail, TypeInv
    <2>2. TypeOK'
      BY <1>1, <2>1 DEF Fail, TypeInv, TypeOK, HandlerType, queueVars, nodeVars
    <2>3. RowsApart' /\ \A g \in Handlers : HandlerFits(handler[g])'
      BY <1>1 DEF Fail, TypeInv, TypeOK, RowsApart, Drawn, queueVars, HandlerFits, IdleHandler
    <2>. QED
      BY <2>2, <2>3 DEF TypeInv
  <1>2. CASE Drop \/ Restart
    <2>1. /\ pulled \in Nat /\ ingested \subseteq Envs /\ applied \subseteq Envs
          /\ failures \in Nat
      BY DEF TypeInv, TypeOK
    <2>2. failures' \in Nat /\ pulled' \in Nat /\ frames' \in Seq(Batch)
      <3>1. failures' = failures + 1 /\ pulled' = pulled /\ frames' = <<>>
        BY <1>2 DEF Drop, Restart, nodeVars
      <3>. QED
        BY <2>1, <3>1
    <2>3. ingested' \subseteq Envs /\ applied' \subseteq Envs
      BY <1>2, <2>1 DEF Drop, Restart, nodeVars
    <2>4. client' \in ClientType /\ UNCHANGED <<queueVars, delivered, handler>>
      BY <1>2, RecordTypes DEF Drop, Restart
    <2>. QED
      BY <2>2, <2>3, <2>4, ClientTypes
  <1>. QED
    BY <1>1, <1>2

LEMMA TypeInvNext == ASSUME TypeInv, [Next]_vars PROVE TypeInv'
  <1>1. CASE UNCHANGED vars
    BY <1>1 DEF vars, queueVars, nodeVars, TypeInv, TypeOK, RowsApart, Drawn, HandlerFits
  <1>. QED
    BY <1>1, EnqueueTypes, PushTypes, ClientStepTypes, ConnectTypes, FailureTypes DEF Next

\* Every position, page, batch and cursor of a session stays what the code takes it
\* for, and a handler that stores a position was given one, whatever fails (push,
\* applyDownstream, Enqueue).
THEOREM TypeCorrect == Spec => []TypeOK
  <1>1. TypeInv => TypeOK
    BY DEF TypeInv
  <1>. QED
    BY <1>1, TypeInvInit, TypeInvNext, PTL DEF Spec

-----------------------------------------------------------------------------
(* The invariant *)

\* Central's in-memory store holds its mutex through Enqueue (memory.go).
OneWriter == \A v, w \in Writers : v = w

\* Each row committed or under way has its position and, once committed, its envelope
\* to itself; what is under way will come after every committed row.
RowsOrdered ==
    /\ IsFiniteSet(rows)
    /\ \A r, q \in rows : r.ord = q.ord \/ r.env = q.env => r = q
    /\ \A r \in rows : r.ord <= nextOrd
    /\ \A w \in Writers : \A p \in writing[w] :
          /\ writing[w] = {p}
          /\ p.ord <= nextOrd
          /\ \A r \in rows : r.ord < p.ord

\* A position no later row can come at or before.
Settled(p) == p = 0 \/ \E r \in rows : r.ord = p

\* Every row up to the position has taken effect at the node.
Covered(p) == \A r \in rows : r.ord <= p => r.env \in applied

Reached(p) == Settled(p) /\ Covered(p)

\* What the node's log or its projections hold is a prefix of the queue.
Prefix(S) ==
    /\ S \subseteq EnvsOf(rows)
    /\ \A r, q \in rows : q.env \in S /\ r.ord <= q.ord => r.env \in S

\* Every row up to the position has been applied, is in the client's hands, or is in
\* one of the first k frames on the way.
OnTheWay(p, k) ==
    \A r \in rows : r.ord <= p =>
        \/ r.env \in applied
        \/ r \in client.batch.rows
        \/ \E j \in 1..k : r \in frames[j].rows

BatchSound(batch, k) ==
    /\ batch.rows \subseteq rows
    /\ \A r \in batch.rows : r.ord <= batch.last
    /\ Settled(batch.last)
    /\ OnTheWay(batch.last, k)

CursorsReached ==
    /\ Reached(delivered) /\ Reached(pulled) /\ Reached(client.highest)
    /\ \A h \in Handlers : handler[h].ack # NoAck => Reached(handler[h].ack)
    /\ \A h \in Handlers : At(h, "store") => handler[h].ack # NoAck

LogInOrder == applied \subseteq ingested /\ Prefix(applied) /\ Prefix(ingested)

ClientSound ==
    /\ client.pc = "off" => client.at = {}
    /\ client.pc \in {"ingest", "apply"} => BatchSound(client.batch, 0)
    /\ client.pc = "apply" => EnvsOf(client.batch.rows) \subseteq ingested
    /\ client.pc \notin {"ingest", "apply"} => client.batch = NoBatch
    /\ \A i \in 1..Len(frames) : BatchSound(frames[i], i)

\* The rest of a page follows on from the handler's cursor with no row left out, and
\* a handler the node listens to has sent it everything up to the cursor.
HandlerSound(h) ==
    /\ At(h, "page") \/ At(h, "send") => Settled(handler[h].cursor)
    /\ At(h, "send") =>
          /\ handler[h].page # {} /\ handler[h].page \subseteq rows
          /\ \A q \in handler[h].page : q.ord > handler[h].cursor
          /\ \A q \in handler[h].page, r \in rows :
                handler[h].cursor < r.ord /\ r.ord <= q.ord => r \in handler[h].page
    /\ Serves(h) /\ (At(h, "page") \/ At(h, "send")) =>
          OnTheWay(handler[h].cursor, Len(frames))

SessionInv ==
    /\ CursorsReached
    /\ LogInOrder
    /\ ClientSound
    /\ \A h \in Handlers : HandlerSound(h)

QueueInv == RowsOrdered /\ SessionInv

LEMMA QueueInvInit == Init => QueueInv
  <1>. SUFFICES ASSUME Init PROVE QueueInv
    OBVIOUS
  <1>1. RowsOrdered
    BY FS_EmptySet DEF Init, RowsOrdered
  <1>2. CursorsReached
    BY DEF Init, CursorsReached, Reached, Settled, Covered, IdleHandler, Disconnected, At, NoAck
  <1>3. LogInOrder
    BY DEF Init, LogInOrder, Prefix
  <1>4. ClientSound
    BY DEF Init, ClientSound, Disconnected
  <1>5. \A h \in Handlers : HandlerSound(h)
    BY DEF Init, HandlerSound, At, IdleHandler
  <1>. QED
    BY <1>1, <1>2, <1>3, <1>4, <1>5 DEF QueueInv, SessionInv

-----------------------------------------------------------------------------
(* The queue grows *)

LEMMA SameQueue ==
    ASSUME SessionInv, UNCHANGED <<rows, delivered, handler, client, frames, nodeVars>>
    PROVE  SessionInv'
  <1>1. CursorsReached'
    BY DEF SessionInv, CursorsReached, Reached, Settled, Covered, At, nodeVars
  <1>2. LogInOrder'
    BY DEF SessionInv, LogInOrder, Prefix, nodeVars
  <1>3. ClientSound'
    BY DEF SessionInv, ClientSound, BatchSound, OnTheWay, Settled, nodeVars
  <1>4. \A h \in Handlers : HandlerSound(h)'
    BY DEF SessionInv, HandlerSound, OnTheWay, Settled, At, Serves, nodeVars
  <1>. QED
    BY <1>1, <1>2, <1>3, <1>4 DEF SessionInv

\* A row that comes after all the others touches nothing a session relies on.
LEMMA LaterRow ==
    ASSUME TypeInv, SessionInv, NEW p \in Row,
           rows' = rows \cup {p}, p.env \notin EnvsOf(rows), \A r \in rows : r.ord < p.ord,
           UNCHANGED <<delivered, handler, client, frames, nodeVars>>
    PROVE  SessionInv'
  <1>. rows \subseteq Row /\ delivered \in Nat /\ pulled \in Nat
    BY DEF TypeInv, TypeOK
  <1>1. ASSUME NEW x \in Nat, Settled(x) PROVE Settled(x)' /\ x < p.ord
    BY <1>1 DEF Settled, Row
  <1>2. ASSUME NEW x \in Nat, Reached(x) PROVE Reached(x)'
    BY <1>1, <1>2 DEF Reached, Covered, Row, nodeVars
  <1>3. ASSUME NEW x \in Nat, Settled(x), NEW k, OnTheWay(x, k) PROVE OnTheWay(x, k)'
    BY <1>1, <1>3 DEF OnTheWay, Row, nodeVars
  <1>4. ASSUME NEW batch \in Batch, NEW k, BatchSound(batch, k) PROVE BatchSound(batch, k)'
    BY <1>1, <1>3, <1>4 DEF BatchSound, Batch
  <1>5. CursorsReached'
    <2>1. client.highest \in Nat
      BY DEF TypeInv, TypeOK
    <2>2. \A h \in Handlers : handler[h].ack # NoAck => handler[h].ack \in Nat
      BY DEF TypeInv, TypeOK
    <2>3. /\ Reached(delivered)' /\ Reached(pulled)' /\ Reached(client.highest)'
      BY <1>2, <2>1 DEF SessionInv, CursorsReached, nodeVars
    <2>4. \A h \in Handlers : handler'[h].ack # NoAck => Reached(handler[h].ack)'
      BY <1>2, <2>2 DEF SessionInv, CursorsReached
    <2>. QED
      BY <2>3, <2>4 DEF SessionInv, CursorsReached, At
  <1>6. LogInOrder'
    <2>1. ASSUME NEW S, Prefix(S) PROVE Prefix(S)'
      BY <2>1 DEF Prefix, EnvsOf, Row
    <2>. QED
      BY <2>1 DEF SessionInv, LogInOrder, nodeVars
  <1>7. ClientSound'
    <2>1. client.batch \in Batch /\ \A i \in 1..Len(frames) : frames[i] \in Batch
      BY DEF TypeInv, TypeOK
    <2>2. client.pc \in {"ingest", "apply"} => BatchSound(client.batch, 0)'
      BY <1>4, <2>1 DEF SessionInv, ClientSound
    <2>3. \A i \in 1..Len(frames) : BatchSound(frames[i], i)'
      BY <1>4, <2>1 DEF SessionInv, ClientSound
    <2>. QED
      BY <2>2, <2>3 DEF SessionInv, ClientSound, nodeVars
  <1>8. ASSUME NEW h \in Handlers PROVE HandlerSound(h)'
    <2>1. HandlerSound(h) /\ handler[h].cursor \in Nat /\ handler'[h] = handler[h]
      BY DEF TypeInv, TypeOK, SessionInv
    <2>2. At(h, "page") \/ At(h, "send") => Settled(handler[h].cursor)'
      BY <1>1, <2>1 DEF HandlerSound
    <2>3. Serves(h) /\ (At(h, "page") \/ At(h, "send")) =>
              OnTheWay(handler[h].cursor, Len(frames))'
      BY <1>3, <2>1 DEF HandlerSound
    <2>4. At(h, "send") =>
            \A q \in handler[h].page, r \in rows' :
                handler[h].cursor < r.ord /\ r.ord <= q.ord => r \in handler[h].page
      BY <2>1 DEF HandlerSound, Row
    <2>. QED
      BY <2>1, <2>2, <2>3, <2>4 DEF HandlerSound, At, Serves
  <1>. QED
    BY <1>5, <1>6, <1>7, <1>8 DEF SessionInv

LEMMA EnqueuePreserves ==
    ASSUME OneWriter, TypeInv, QueueInv, NEW w \in Writers, Enqueue(w) PROVE QueueInv'
  <1>. rows \subseteq Row /\ nextOrd \in Nat /\ writing \in [Writers -> SUBSET Row]
    BY DEF TypeInv, TypeOK
  <1>. \A v \in Writers : v = w
    BY DEF OneWriter
  <1>1. CASE Draw(w)
    <2>1. PICK e \in Envs :
              writing' = [writing EXCEPT ![w] = {[ord |-> nextOrd + 1, env |-> e]}]
      BY <1>1 DEF Draw
    <2>2. \A r \in rows : r.ord < nextOrd + 1 /\ r.ord <= nextOrd + 1
      BY DEF QueueInv, RowsOrdered, Row
    <2>3. RowsOrdered'
      BY <1>1, <2>1, <2>2 DEF Draw, QueueInv, RowsOrdered
    <2>. QED
      BY <1>1, <2>3, SameQueue DEF Draw, QueueInv
  <1>2. CASE Commit(w)
    <2>1. PICK p \in writing[w] : writing[w] = {p}
      BY <1>2 DEF Commit, QueueInv, RowsOrdered
    <2>2. p \in Row /\ p.ord <= nextOrd /\ \A r \in rows : r.ord < p.ord
      BY <2>1 DEF QueueInv, RowsOrdered
    <2>3. CASE p.env \in EnvsOf(rows)
      <3>1. rows' = rows
        BY <1>2, <2>1, <2>3 DEF Commit
      <3>2. RowsOrdered'
        BY <1>2, <3>1 DEF Commit, QueueInv, RowsOrdered
      <3>. QED
        BY <1>2, <3>1, <3>2, SameQueue DEF Commit, QueueInv
    <2>4. CASE p.env \notin EnvsOf(rows)
      <3>1. rows' = rows \cup {p}
        BY <1>2, <2>1, <2>4 DEF Commit
      <3>2. IsFiniteSet(rows')
        BY <3>1, FS_AddElement DEF QueueInv, RowsOrdered
      <3>3. \A r \in rows : r.ord # p.ord /\ r.env # p.env
        BY <2>2, <2>4 DEF EnvsOf, Row
      <3>4. \A r, q \in rows' : r.ord = q.ord \/ r.env = q.env => r = q
        BY <3>1, <3>3 DEF QueueInv, RowsOrdered
      <3>5. RowsOrdered'
        BY <1>2, <2>2, <3>1, <3>2, <3>4 DEF Commit, QueueInv, RowsOrdered
      <3>. QED
        BY <1>2, <2>2, <2>4, <3>1, <3>5, LaterRow DEF Commit, QueueInv
    <2>. QED
      BY <2>3, <2>4
  <1>3. CASE Abort(w)
    <2>1. RowsOrdered'
      BY <1>3 DEF Abort, QueueInv, RowsOrdered
    <2>. QED
      BY <1>3, <2>1, SameQueue DEF Abort, QueueInv
  <1>. QED
    BY <1>1, <1>2, <1>3 DEF Enqueue

-----------------------------------------------------------------------------
(* The handlers *)

\* A handler's step keeps the invariant if the frames and the handler itself stay
\* sound: it reaches nothing else, and only the handler the node listens to sends.
LEMMA HandlerKeeps ==
    ASSUME TypeInv, QueueInv, UNCHANGED <<queueVars, nodeVars, client>>, Reached(delivered'),
           NEW h \in Handlers, NEW s, handler' = [handler EXCEPT ![h] = s],
           s.ack = handler[h].ack \/ s.ack = NoAck,
           s.pc = "store" => s.ack # NoAck,
           Serves(h) \/ frames' = frames,
           ClientSound', HandlerSound(h)'
    PROVE  QueueInv'
  <1>. handler \in [Handlers -> HandlerType]
    BY RecordTypes DEF TypeInv
  <1>1. RowsOrdered'
    BY DEF QueueInv, RowsOrdered, queueVars
  <1>2. CursorsReached'
    <2>1. \A g \in Handlers : handler'[g].ack # NoAck => Reached(handler'[g].ack)
      BY DEF QueueInv, SessionInv, CursorsReached
    <2>2. \A g \in Handlers : At(g, "store")' => handler'[g].ack # NoAck
      BY DEF QueueInv, SessionInv, CursorsReached, At
    <2>3. Reached(pulled') /\ Reached(client'.highest)
      BY DEF QueueInv, SessionInv, CursorsReached, nodeVars
    <2>. QED
      BY <2>1, <2>2, <2>3
      DEF CursorsReached, Reached, Settled, Covered, queueVars, nodeVars
  <1>3. LogInOrder'
    BY DEF QueueInv, SessionInv, LogInOrder, Prefix, queueVars, nodeVars
  <1>4. ASSUME NEW g \in Handlers, g # h PROVE HandlerSound(g)'
    <2>1. handler'[g] = handler[g]
      BY <1>4
    <2>2. Serves(g) => frames' = frames
      BY <1>4 DEF Serves
    <2>3. HandlerSound(g)
      BY DEF QueueInv, SessionInv
    <2>. QED
      BY <2>1, <2>2, <2>3
      DEF HandlerSound, At, Serves, OnTheWay, Settled, queueVars, nodeVars
  <1>. QED
    BY <1>1, <1>2, <1>3, <1>4 DEF QueueInv, SessionInv

\* Without a frame sent, the client sees nothing.
LEMMA ClientUnmoved ==
    ASSUME QueueInv, UNCHANGED <<queueVars, nodeVars, client, frames>> PROVE ClientSound'
  BY DEF QueueInv, SessionInv, ClientSound, BatchSound, OnTheWay, Settled,
         queueVars, nodeVars

\* A batch that goes on from the frames before it keeps them a complete stream.
LEMMA SendSound ==
    ASSUME TypeInv, QueueInv, HandlerFrame, NEW h, NEW batch \in Batch, Send(h, batch),
           batch.rows \subseteq rows, \A r \in batch.rows : r.ord <= batch.last,
           Settled(batch.last),
           Serves(h) => \A r \in rows : r.ord <= batch.last =>
               \/ r.env \in applied
               \/ r \in client.batch.rows
               \/ \E j \in 1..Len(frames) : r \in frames[j].rows
               \/ r \in batch.rows
    PROVE  /\ ClientSound'
           /\ Serves(h) => OnTheWay(batch.last, Len(frames))'
  <1>1. CASE ~ Serves(h)
    BY <1>1, ClientUnmoved DEF Send, HandlerFrame
  <1>2. CASE Serves(h)
    <2>0. frames \in Seq(Batch) /\ frames' = Append(frames, batch)
      BY <1>2 DEF Send, TypeInv, TypeOK
    <2>1. PICK n \in Nat : n = Len(frames)
      BY <2>0
    <2>2. Len(frames') = n + 1 /\ frames'[n + 1] = batch
          /\ \A j \in 1..n : frames'[j] = frames[j]
      BY <2>0, <2>1
    <2>3. UNCHANGED <<rows, applied, client>>
      BY DEF HandlerFrame, queueVars, nodeVars
    <2>4. ASSUME NEW i \in 1..n PROVE BatchSound(frames[i], i)'
      <3>1. BatchSound(frames[i], i) /\ frames'[i] = frames[i]
        BY <2>1, <2>2 DEF QueueInv, SessionInv, ClientSound
      <3>2. \A j \in 1..i : frames'[j] = frames[j]
        BY <2>1, <2>2
      <3>. QED
        BY <2>3, <3>1, <3>2 DEF BatchSound, OnTheWay, Settled
    <2>5. OnTheWay(batch.last, n + 1)'
      <3>1. /\ \A j \in 1..n : j \in 1..(n + 1)
            /\ n + 1 \in 1..(n + 1)
        OBVIOUS
      <3>. QED
        BY <1>2, <2>1, <2>2, <2>3, <3>1 DEF OnTheWay
    <2>6. BatchSound(batch, n + 1)'
      BY <2>3, <2>5 DEF BatchSound, Settled
    <2>7. (\A i \in 1..Len(frames) : BatchSound(frames[i], i))'
      <3>1. \A i \in 1..(n + 1) : i \in 1..n \/ i = n + 1
        OBVIOUS
      <3>2. BatchSound(frames[n + 1], n + 1)'
        BY <2>2, <2>6
      <3>. QED
        BY <2>2, <2>4, <3>1, <3>2
    <2>8. OnTheWay(batch.last, Len(frames))'
      BY <2>2, <2>5
    <2>9. client.pc \in {"ingest", "apply"} => BatchSound(client.batch, 0)'
      BY <2>3 DEF QueueInv, SessionInv, ClientSound, BatchSound, OnTheWay, Settled
    <2>. QED
      BY <2>3, <2>7, <2>8, <2>9
      DEF QueueInv, SessionInv, ClientSound, HandlerFrame, nodeVars
  <1>. QED
    BY <1>1, <1>2

LEMMA ReadPagePreserves ==
    ASSUME TypeInv, QueueInv, NEW h \in Handlers, ReadPage(h) PROVE QueueInv'
  <1>. DEFINE s == handler[h]
              page == FirstOf(Above(s.cursor), MaxPage)
              batch == [rows |-> {}, last |-> s.cursor, more |-> FALSE]
  <1>1. s \in HandlerType /\ handler \in [Handlers -> HandlerType] /\ Reached(delivered)
        /\ HandlerSound(h) /\ s.pc = "page"
    BY RecordTypes DEF TypeInv, QueueInv, SessionInv, CursorsReached, ReadPage, At
  <1>2. Settled(s.cursor) /\ (Serves(h) => OnTheWay(s.cursor, Len(frames)))
    BY <1>1 DEF HandlerSound, At
  <1>3. CASE Send(h, batch) /\ handler' = [handler EXCEPT ![h].pc = "ack"]
    <2>1. batch \in Batch
      BY <1>1 DEF Batch, HandlerType
    <2>2. ClientSound'
      BY <1>1, <1>2, <1>3, <2>1, SendSound DEF ReadPage, OnTheWay
    <2>3. handler' = [handler EXCEPT ![h] = [s EXCEPT !.pc = "ack"]]
      BY <1>1, <1>3
    <2>4. HandlerSound(h)'
      BY <1>1, <2>3 DEF HandlerSound, At, HandlerType
    <2>5. [s EXCEPT !.pc = "ack"].ack = s.ack /\ [s EXCEPT !.pc = "ack"].pc # "store"
      BY <1>1 DEF HandlerType
    <2>. QED
      BY <1>1, <1>3, <2>2, <2>3, <2>4, <2>5, HandlerKeeps DEF ReadPage, Send, HandlerFrame
  <1>4. CASE /\ page # {} /\ UNCHANGED frames
             /\ handler' = [handler EXCEPT ![h].pc = "send", ![h].page = page]
    <2>1. /\ page \subseteq Above(s.cursor)
          /\ \A q \in page, r \in Above(s.cursor) : r.ord <= q.ord => r \in page
      BY AboveFacts, FirstOfFacts, OutboundAssumption
    <2>2. PICK t : t = [s EXCEPT !.pc = "send", !.page = page]
      OBVIOUS
    <2>3. handler' = [handler EXCEPT ![h] = t] /\ handler'[h] = t
      BY <1>1, <1>4, <2>2
    <2>4. t.pc = "send" /\ t.page = page /\ t.cursor = s.cursor /\ t.ack = s.ack
      BY <1>1, <2>2 DEF HandlerType
    <2>5. UNCHANGED <<rows, applied, client, frames>>
      BY <1>4 DEF ReadPage, HandlerFrame, queueVars, nodeVars
    <2>6. Settled(t.cursor)' /\ (Serves(h)' => OnTheWay(t.cursor, Len(frames))')
      BY <1>2, <2>4, <2>5 DEF Settled, OnTheWay, Serves
    <2>7. t.page # {} /\ t.page \subseteq rows /\ (\A q \in t.page : q.ord > t.cursor)
          /\ \A q \in t.page, r \in rows :
                t.cursor < r.ord /\ r.ord <= q.ord => r \in t.page
      <3>. HIDE DEF page
      <3>. QED
        BY <1>1, <1>4, <2>1, <2>4 DEF Above, HandlerType, TypeInv, TypeOK, Row
    <2>8. HandlerSound(h)'
      BY <2>3, <2>5, <2>6, <2>7 DEF HandlerSound, At
    <2>9. ClientSound'
      BY <1>4, ClientUnmoved DEF ReadPage, HandlerFrame
    <2>. QED
      BY <1>1, <1>4, <2>3, <2>4, <2>8, <2>9, HandlerKeeps DEF ReadPage, HandlerFrame
  <1>. QED
    BY <1>3, <1>4 DEF ReadPage

LEMMA SendChunkPreserves ==
    ASSUME TypeInv, QueueInv, NEW h \in Handlers, SendChunk(h) PROVE QueueInv'
  <1>. DEFINE s == handler[h]
  <1>1. s \in HandlerType /\ handler \in [Handlers -> HandlerType] /\ Reached(delivered)
        /\ HandlerSound(h) /\ s.pc = "send" /\ rows \subseteq Row
    BY RecordTypes DEF TypeInv, TypeOK, QueueInv, SessionInv, CursorsReached, SendChunk, At
  <1>2. PICK page : page = s.page
    OBVIOUS
  <1>3. /\ Settled(s.cursor) /\ (Serves(h) => OnTheWay(s.cursor, Len(frames)))
        /\ page # {} /\ page \subseteq rows
        /\ \A q \in page : q.ord > s.cursor
        /\ \A q \in page, r \in rows : s.cursor < r.ord /\ r.ord <= q.ord => r \in page
    BY <1>1, <1>2 DEF HandlerSound, At
  <1>4. PICK k \in 1..Cardinality(page) :
          LET chunk == FirstOf(page, k)
              rest == page \ chunk
              last == LastOrd(chunk)
              more == rest # {} \/ Above(last) # {}
          IN /\ Send(h, [rows |-> chunk, last |-> last, more |-> more])
             /\ handler' = [handler EXCEPT ![h] =
                   [@ EXCEPT !.page = rest, !.cursor = last,
                             !.pc = IF rest # {} THEN "send"
                                    ELSE IF more THEN "page" ELSE "ack"]]
    BY <1>2 DEF SendChunk
  <1>5. PICK chunk : chunk = FirstOf(page, k)
    OBVIOUS
  <1>6. PICK last : last = LastOrd(chunk)
    OBVIOUS
  <1>7. PICK more \in BOOLEAN : more = (page \ chunk # {} \/ Above(last) # {})
    OBVIOUS
  <1>8. PICK batch : batch = [rows |-> chunk, last |-> last, more |-> more]
    OBVIOUS
  <1>9. PICK t : t = [s EXCEPT !.page = page \ chunk, !.cursor = last,
                        !.pc = IF page \ chunk # {} THEN "send"
                               ELSE IF more THEN "page" ELSE "ack"]
    OBVIOUS
  <1>10. Send(h, batch) /\ handler' = [handler EXCEPT ![h] = t] /\ HandlerFrame
    BY <1>4, <1>5, <1>6, <1>7, <1>8, <1>9 DEF SendChunk
  <1>11. /\ chunk \subseteq page /\ chunk # {}
         /\ \A r \in chunk, q \in page : q.ord <= r.ord => q \in chunk
    <2>1. k \in Nat /\ k > 0
      BY <1>4
    <2>. QED
      BY <1>2, <1>3, <1>5, <2>1, PageFacts, FirstOfFacts
  <1>12. /\ last \in Nat
         /\ \E r \in chunk : r.ord = last
         /\ \A r \in chunk : r.ord <= last
    <2>1. \A r \in chunk : r \in Row /\ r.ord <= nextOrd
      BY <1>2, <1>11, PageFacts
    <2>. QED
      BY <1>6, <1>11, <2>1, LastOrdFacts DEF TypeInv, TypeOK
  <1>13. PICK c \in chunk : c.ord = last
    BY <1>12
  \* What lies up to the end of the chunk lies up to the cursor or in the chunk.
  <1>14. ASSUME NEW r \in rows, r.ord <= last, ~ (r.ord <= s.cursor) PROVE r \in chunk
    <2>1. s.cursor < r.ord
      BY <1>1, <1>14 DEF HandlerType, Row
    <2>2. r \in page
      BY <1>3, <1>11, <1>13, <1>14, <2>1
    <2>. QED
      BY <1>11, <1>13, <1>14, <2>2
  <1>15. batch \in Batch /\ batch.rows = chunk /\ batch.last = last
    BY <1>1, <1>3, <1>7, <1>8, <1>11, <1>12 DEF Batch
  <1>16. Settled(last) /\ chunk \subseteq rows
    BY <1>3, <1>11, <1>12 DEF Settled
  <1>17. ClientSound' /\ (Serves(h) => OnTheWay(last, Len(frames))')
    <2>1. Serves(h) => \A r \in rows : r.ord <= last =>
               \/ r.env \in applied
               \/ r \in client.batch.rows
               \/ \E j \in 1..Len(frames) : r \in frames[j].rows
               \/ r \in chunk
      BY <1>3, <1>14 DEF OnTheWay
    <2>2. /\ batch.rows \subseteq rows /\ Settled(batch.last)
          /\ \A r \in batch.rows : r.ord <= batch.last
      BY <1>12, <1>15, <1>16
    <2>3. Serves(h) => \A r \in rows : r.ord <= batch.last =>
               \/ r.env \in applied
               \/ r \in client.batch.rows
               \/ \E j \in 1..Len(frames) : r \in frames[j].rows
               \/ r \in batch.rows
      BY <1>15, <2>1
    <2>4. ClientSound' /\ (Serves(h) => OnTheWay(batch.last, Len(frames))')
      BY <1>10, <1>15, <2>2, <2>3, SendSound
    <2>. QED
      BY <1>15, <2>4
  <1>18. /\ t.page = page \ chunk /\ t.cursor = last /\ t.ack = s.ack
         /\ t.pc \in {"send", "page", "ack"}
         /\ t.pc = "send" => page \ chunk # {}
    BY <1>1, <1>9 DEF HandlerType
  <1>19. handler'[h] = t /\ UNCHANGED <<rows, client>>
    BY <1>1, <1>10 DEF HandlerFrame, queueVars
  <1>20. HandlerSound(h)'
    <2>1. Settled(last)'
      BY <1>16, <1>19 DEF Settled
    <2>2. ASSUME NEW q \in t.page PROVE q \in rows /\ q.ord > last
      <3>1. q \in rows /\ q \notin chunk /\ q.ord \in Nat /\ q.ord > s.cursor
        BY <1>1, <1>3, <1>18, <2>2 DEF Row
      <3>. QED
        BY <1>1, <1>12, <1>14, <3>1 DEF HandlerType
    <2>3. ASSUME NEW q \in t.page, NEW r \in rows, last < r.ord, r.ord <= q.ord
          PROVE  r \in t.page
      <3>1. r \notin chunk /\ r.ord \in Nat
        BY <1>1, <1>12, <2>3 DEF Row
      <3>2. s.cursor < r.ord
        BY <1>1, <1>3, <1>11, <1>12, <1>13, <2>3, <3>1 DEF HandlerType
      <3>. QED
        BY <1>3, <1>18, <2>3, <3>1, <3>2
    <2>4. Serves(h)' => OnTheWay(last, Len(frames))'
      BY <1>17, <1>19 DEF Serves
    <2>. QED
      BY <1>18, <1>19, <2>1, <2>2, <2>3, <2>4 DEF HandlerSound, At
  <1>. QED
    BY <1>1, <1>10, <1>17, <1>18, <1>20, HandlerKeeps DEF SendChunk, Send, HandlerFrame

LEMMA PushPreserves ==
    ASSUME TypeInv, QueueInv, NEW h \in Handlers, Push(h) PROVE QueueInv'
  <1>. DEFINE s == handler[h]
  <1>. s \in HandlerType /\ handler \in [Handlers -> HandlerType] /\ Reached(delivered)
    BY RecordTypes DEF TypeInv, QueueInv, SessionInv, CursorsReached
  <1>1. CASE ReadCursor(h)
    <2>0. PICK t : t = [s EXCEPT !.pc = "page", !.cursor = delivered]
      OBVIOUS
    <2>1. handler' = [handler EXCEPT ![h] = t] /\ handler'[h] = t
      BY <1>1, <2>0 DEF ReadCursor
    <2>2. t.pc = "page" /\ t.cursor = delivered /\ t.ack = s.ack
      BY <2>0 DEF HandlerType
    <2>3. UNCHANGED <<rows, applied, delivered, frames>>
      BY <1>1 DEF ReadCursor, HandlerFrame, queueVars, nodeVars
    <2>4. Settled(t.cursor)' /\ OnTheWay(t.cursor, Len(frames))'
      BY <2>2, <2>3 DEF Reached, Settled, Covered, OnTheWay
    <2>5. HandlerSound(h)'
      BY <2>1, <2>2, <2>4 DEF HandlerSound, At
    <2>6. ClientSound'
      BY <1>1, ClientUnmoved DEF ReadCursor, HandlerFrame
    <2>. QED
      BY <1>1, <2>1, <2>2, <2>3, <2>5, <2>6, HandlerKeeps DEF ReadCursor, HandlerFrame
  <1>2. CASE ReceiveAck(h) \/ StoreDelivered(h) \/ Notice(h)
    <2>0. PICK t : t = IF ReceiveAck(h) /\ s.ack > 0 THEN [s EXCEPT !.pc = "store"]
                       ELSE IdleHandler
      OBVIOUS
    <2>1. /\ t.ack = s.ack \/ t.ack = NoAck
          /\ t.pc \in {"idle", "store"}
          /\ t.pc = "store" => t.ack = s.ack /\ s.ack # NoAck
      BY <2>0 DEF HandlerType, IdleHandler, ReceiveAck
    <2>2. handler' = [handler EXCEPT ![h] = t]
      BY <1>2, <2>0 DEF ReceiveAck, StoreDelivered, Notice, At
    <2>3. Reached(delivered') /\ HandlerFrame /\ UNCHANGED frames
      BY <1>2 DEF ReceiveAck, StoreDelivered, Notice, QueueInv, SessionInv, CursorsReached
    <2>4. HandlerSound(h)'
      BY <2>1, <2>2 DEF HandlerSound, At
    <2>. QED
      BY <2>1, <2>2, <2>3, <2>4, ClientUnmoved, HandlerKeeps DEF HandlerFrame
  <1>. QED
    BY <1>1, <1>2, ReadPagePreserves, SendChunkPreserves DEF Push

LEMMA FailPreserves ==
    ASSUME TypeInv, QueueInv, NEW h \in Handlers, Fail(h) PROVE QueueInv'
  <1>. handler \in [Handlers -> HandlerType] /\ Reached(delivered)
    BY RecordTypes DEF TypeInv, QueueInv, SessionInv, CursorsReached
  <1>1. handler' = [handler EXCEPT ![h] = IdleHandler]
        /\ UNCHANGED <<queueVars, nodeVars, client, delivered, frames>>
    BY DEF Fail
  <1>2. IdleHandler.ack = NoAck /\ IdleHandler.pc = "idle"
    BY DEF IdleHandler
  <1>3. HandlerSound(h)'
    BY <1>1, <1>2 DEF HandlerSound, At
  <1>. QED
    BY <1>1, <1>2, <1>3, ClientUnmoved, HandlerKeeps

-----------------------------------------------------------------------------
(* The client *)

\* A session that ends takes the frames on the way with it; the positions and the
\* log stay what they are, and a crash brings the projections up to the log.
LEMMA HangupPreserves ==
    ASSUME TypeInv, QueueInv, UNCHANGED <<queueVars, delivered, ingested, pulled>>,
           client' = Disconnected, frames' = <<>>,
           applied' = applied \/ applied' = ingested,
           DOMAIN handler' = Handlers,
           \A h \in Handlers :
               /\ handler'[h].pc = handler[h].pc
               /\ handler'[h].cursor = handler[h].cursor
               /\ handler'[h].page = handler[h].page
               /\ handler'[h].ack \in {handler[h].ack, client.highest}
    PROVE  QueueInv'
  <1>. applied \subseteq applied' /\ rows' = rows
    BY DEF QueueInv, SessionInv, LogInOrder, queueVars
  <1>. client.highest \in Nat
    BY DEF TypeInv, TypeOK
  <1>1. RowsOrdered'
    BY DEF QueueInv, RowsOrdered, queueVars
  <1>2. CursorsReached'
    <2>1. ASSUME NEW x, Reached(x) PROVE Reached(x)'
      BY <2>1 DEF Reached, Settled, Covered
    <2>2. ASSUME NEW x, x = 0 PROVE Reached(x)'
      BY <2>2 DEF Reached, Settled, Covered, TypeInv, TypeOK, Row
    <2>3. Reached(delivered)' /\ Reached(pulled)' /\ Reached(client.highest)'
      <3>1. client'.highest = 0
        BY DEF Disconnected
      <3>2. PICK d, u, c : d = delivered /\ u = pulled /\ c = client'.highest
        OBVIOUS
      <3>3. Reached(d)' /\ Reached(u)' /\ Reached(c)'
        BY <2>1, <2>2, <3>1, <3>2 DEF QueueInv, SessionInv, CursorsReached
      <3>. QED
        BY <3>2, <3>3
    <2>4. ASSUME NEW h \in Handlers, handler'[h].ack # NoAck PROVE Reached(handler[h].ack)'
      <3>1. PICK c : c = handler'[h].ack
        OBVIOUS
      <3>2. Reached(c)
        BY <2>4, <3>1 DEF QueueInv, SessionInv, CursorsReached
      <3>. QED
        BY <2>1, <3>1, <3>2
    <2>5. \A h \in Handlers : At(h, "store")' => handler'[h].ack # NoAck
      BY DEF QueueInv, SessionInv, CursorsReached, At, NoAck
    <2>. QED
      BY <2>3, <2>4, <2>5 DEF CursorsReached
  <1>3. LogInOrder'
    BY DEF QueueInv, SessionInv, LogInOrder, Prefix
  <1>4. ClientSound'
    BY DEF ClientSound, Disconnected
  <1>5. \A h \in Handlers : HandlerSound(h)'
    <2>1. \A h \in Handlers : ~ Serves(h)'
      BY DEF Serves, Disconnected
    <2>. QED
      BY <2>1 DEF QueueInv, SessionInv, HandlerSound, At, Settled
  <1>. QED
    BY <1>1, <1>2, <1>3, <1>4, <1>5 DEF QueueInv, SessionInv

LEMMA EndsPreserve ==
    ASSUME TypeInv, QueueInv, SendAck \/ StreamEnds \/ Drop \/ Restart PROVE QueueInv'
  <1>. handler \in [Handlers -> HandlerType]
    BY RecordTypes DEF TypeInv
  <1>1. CASE SendAck
    <2>1. \A h \in Handlers : handler'[h] = handler[h]
                             \/ handler'[h] = [handler[h] EXCEPT !.ack = client.highest]
      BY <1>1 DEF SendAck
    <2>2. \A h \in Handlers :
               /\ handler'[h].pc = handler[h].pc
               /\ handler'[h].cursor = handler[h].cursor
               /\ handler'[h].page = handler[h].page
               /\ handler'[h].ack \in {handler[h].ack, client.highest}
      BY <2>1 DEF HandlerType
    <2>3. UNCHANGED <<queueVars, delivered, ingested, pulled, applied>>
          /\ client' = Disconnected /\ frames' = <<>>
          /\ DOMAIN handler' = Handlers
      BY <1>1 DEF SendAck, ClientFrame, nodeVars
    <2>. QED
      BY <2>2, <2>3, HangupPreserves
  <1>2. CASE StreamEnds \/ Drop \/ Restart
    <2>1. /\ UNCHANGED <<queueVars, delivered, ingested, pulled, handler>>
          /\ client' = Disconnected /\ frames' = <<>>
          /\ applied' = applied \/ applied' = ingested
      BY <1>2 DEF StreamEnds, Drop, Restart, ClientFrame, nodeVars
    <2>. QED
      BY <2>1, HangupPreserves
  <1>. QED
    BY <1>1, <1>2

LEMMA ConnectPreserves ==
    ASSUME TypeInv, QueueInv, NEW h \in Handlers, Connect(h) PROVE QueueInv'
  <1>. handler \in [Handlers -> HandlerType]
    BY RecordTypes DEF TypeInv
  <1>0. /\ UNCHANGED <<queueVars, delivered, ingested, applied, pulled>>
        /\ client' = [pc |-> "receive", at |-> {h}, batch |-> NoBatch, highest |-> 0]
        /\ handler' = [handler EXCEPT ![h] = [handler[h] EXCEPT !.pc = "cursor"]]
        /\ frames' = <<>>
    BY DEF Connect, ClientFrame, nodeVars, Disconnected
  <1>1. RowsOrdered' /\ LogInOrder'
    BY <1>0 DEF QueueInv, SessionInv, RowsOrdered, LogInOrder, Prefix, queueVars
  <1>2. CursorsReached'
    <2>1. \A g \in Handlers : handler'[g].ack = handler[g].ack
                             /\ (handler'[g].pc = "store" => handler[g].pc = "store")
      BY <1>0 DEF HandlerType
    <2>2. \A r \in rows : r.ord > 0
      BY DEF TypeInv, TypeOK, Row
    <2>. QED
      BY <1>0, <2>1, <2>2
      DEF QueueInv, SessionInv, CursorsReached, Reached, Settled, Covered, queueVars, At,
          TypeInv, TypeOK, Row
  <1>3. ClientSound'
    BY <1>0 DEF ClientSound
  <1>4. ASSUME NEW g \in Handlers PROVE HandlerSound(g)'
    <2>1. CASE g = h
      BY <1>0, <2>1 DEF HandlerSound, At, HandlerType
    <2>2. CASE g # h
      BY <1>0, <2>2 DEF QueueInv, SessionInv, HandlerSound, At, Serves, Settled, queueVars
    <2>. QED
      BY <2>1, <2>2
  <1>. QED
    BY <1>1, <1>2, <1>3, <1>4 DEF QueueInv, SessionInv

LEMMA ReceiveFramePreserves ==
    ASSUME TypeInv, QueueInv, ReceiveFrame PROVE QueueInv'
  <1>. client \in ClientType /\ frames \in Seq(Batch)
    BY RecordTypes DEF TypeInv, TypeOK
  <1>1. PICK n \in Nat : Len(frames) = n + 1
    <2>1. Len(frames) \in Nat /\ Len(frames) # 0
      BY DEF ReceiveFrame
    <2>2. Len(frames) - 1 \in Nat /\ Len(frames) = (Len(frames) - 1) + 1
      BY <2>1
    <2>. QED
      BY <2>2
  <1>2. Len(frames') = n /\ \A i \in 1..n : frames'[i] = frames[i + 1]
    BY <1>1 DEF ReceiveFrame
  <1>3. PICK b : b = frames[1]
    OBVIOUS
  <1>4. client' = [client EXCEPT !.pc = "ingest", !.batch = b]
    BY <1>3 DEF ReceiveFrame
  <1>5. /\ client'.pc = "ingest" /\ client'.batch = b
        /\ client'.at = client.at /\ client'.highest = client.highest
    BY <1>4 DEF ClientType
  <1>6. UNCHANGED <<rows, nextOrd, writing, applied, ingested, pulled, delivered, handler>>
    BY DEF ReceiveFrame, ClientFrame, queueVars, nodeVars
  <1>7. client.batch.rows = {}
    BY DEF ReceiveFrame, ClientAt, QueueInv, SessionInv, ClientSound, NoBatch
  \* What was in the first i + 1 frames is in the client's hands or in the first i.
  <1>8. ASSUME NEW i \in 0..n, NEW x, OnTheWay(x, i + 1) PROVE OnTheWay(x, i)'
    <2>1. ASSUME NEW r, NEW j \in 1..(i + 1), r \in frames[j].rows
          PROVE  r \in b.rows \/ \E g \in 1..i : r \in frames'[g].rows
      <3>1. CASE j = 1
        BY <1>3, <2>1, <3>1
      <3>2. CASE j # 1
        <4>1. j - 1 \in 1..i /\ frames'[j - 1] = frames[j]
          BY <1>2, <3>2
        <4>. QED
          BY <2>1, <4>1
      <3>. QED
        BY <3>1, <3>2
    <2>2. ASSUME NEW r \in rows', r.ord <= x
          PROVE  r.env \in applied' \/ r \in client'.batch.rows
                 \/ \E j \in 1..i : r \in frames'[j].rows
      BY <1>5, <1>6, <1>7, <1>8, <2>1, <2>2 DEF OnTheWay
    <2>. QED
      BY <2>2 DEF OnTheWay
  <1>9. ASSUME NEW i \in 0..n, NEW batch, BatchSound(batch, i + 1) PROVE BatchSound(batch, i)'
    BY <1>6, <1>8, <1>9 DEF BatchSound, Settled
  <1>10. ClientSound'
    <2>1. BatchSound(b, 0)'
      <3>1. 0 \in 0..n /\ 1 \in 1..(n + 1)
        OBVIOUS
      <3>2. BatchSound(b, 0 + 1)
        BY <1>1, <1>3, <3>1 DEF QueueInv, SessionInv, ClientSound
      <3>. QED
        BY <1>9, <3>1, <3>2
    <2>2. ASSUME NEW i \in 1..n PROVE BatchSound(frames[i], i)'
      <3>1. i + 1 \in 1..(n + 1) /\ i \in 0..n
        OBVIOUS
      <3>2. PICK batch : batch = frames[i + 1]
        OBVIOUS
      <3>3. BatchSound(batch, i + 1)
        BY <1>1, <3>1, <3>2 DEF QueueInv, SessionInv, ClientSound
      <3>4. BatchSound(batch, i)' /\ frames'[i] = batch
        BY <1>2, <1>9, <3>1, <3>2, <3>3
      <3>. QED
        BY <3>4
    <2>3. (\A i \in 1..Len(frames) : BatchSound(frames[i], i))'
      BY <1>2, <2>2
    <2>. QED
      BY <1>5, <2>1, <2>3 DEF ClientSound
  <1>11. ASSUME NEW h \in Handlers PROVE HandlerSound(h)'
    <2>1. HandlerSound(h)
      BY DEF QueueInv, SessionInv
    <2>2. PICK c : c = handler[h].cursor
      OBVIOUS
    <2>3. OnTheWay(c, n + 1) => OnTheWay(c, n)'
      BY <1>8
    <2>4. Serves(h)' /\ (At(h, "page") \/ At(h, "send")) => OnTheWay(c, n)'
      BY <1>1, <1>5, <2>1, <2>2, <2>3 DEF HandlerSound, Serves
    <2>. QED
      BY <1>2, <1>6, <2>1, <2>2, <2>4 DEF HandlerSound, At, Settled
  <1>12. CursorsReached'
    BY <1>5, <1>6 DEF QueueInv, SessionInv, CursorsReached, Reached, Settled, Covered, At
  <1>13. RowsOrdered' /\ LogInOrder'
    BY <1>6 DEF QueueInv, SessionInv, RowsOrdered, LogInOrder, Prefix
  <1>. QED
    BY <1>10, <1>11, <1>12, <1>13 DEF QueueInv, SessionInv

\* What is in effect only grows, and a row leaves the client's hands by taking effect.
LEMMA StillOnTheWay ==
    ASSUME UNCHANGED <<rows, frames>>, applied \subseteq applied',
           \A r \in client.batch.rows : r \in client'.batch.rows \/ r.env \in applied',
           NEW x, NEW k, OnTheWay(x, k)
    PROVE  OnTheWay(x, k)'
  BY DEF OnTheWay

LEMMA ClientKeeps ==
    ASSUME TypeInv, QueueInv, ClientFrame, UNCHANGED <<handler, frames>>,
           applied \subseteq applied', client'.at = client.at, client'.pc # "off",
           \A r \in client.batch.rows : r \in client'.batch.rows \/ r.env \in applied',
           client'.pc \in {"ingest", "apply"} => BatchSound(client.batch, 0)',
           client'.pc = "apply" => EnvsOf(client'.batch.rows) \subseteq ingested',
           client'.pc \notin {"ingest", "apply"} => client'.batch = NoBatch,
           LogInOrder', Reached(pulled)', Reached(client.highest)'
    PROVE  QueueInv'
  <1>. UNCHANGED <<rows, nextOrd, writing, delivered>>
    BY DEF ClientFrame, queueVars
  <1>1. RowsOrdered'
    BY DEF QueueInv, RowsOrdered
  <1>2. CursorsReached'
    <2>1. \A x : Reached(x) => Reached(x)'
      BY DEF Reached, Settled, Covered
    <2>2. Reached(delivered)'
      <3>1. PICK d : d = delivered
        OBVIOUS
      <3>. QED
        BY <2>1, <3>1 DEF QueueInv, SessionInv, CursorsReached
    <2>3. ASSUME NEW h \in Handlers, handler'[h].ack # NoAck PROVE Reached(handler[h].ack)'
      <3>1. PICK d : d = handler[h].ack
        OBVIOUS
      <3>2. Reached(d)'
        BY <2>1, <2>3, <3>1 DEF QueueInv, SessionInv, CursorsReached
      <3>. QED
        BY <3>1, <3>2
    <2>. QED
      BY <2>2, <2>3 DEF QueueInv, SessionInv, CursorsReached, At
  <1>3. ClientSound'
    <2>1. ASSUME NEW i \in 1..Len(frames) PROVE BatchSound(frames[i], i)'
      <3>1. PICK batch : batch = frames[i]
        OBVIOUS
      <3>2. BatchSound(batch, i)
        BY <2>1, <3>1 DEF QueueInv, SessionInv, ClientSound
      <3>3. BatchSound(batch, i)'
        BY <3>2, StillOnTheWay DEF BatchSound, Settled
      <3>. QED
        BY <3>1, <3>3
    <2>. QED
      BY <2>1 DEF ClientSound
  <1>4. ASSUME NEW h \in Handlers PROVE HandlerSound(h)'
    <2>1. HandlerSound(h)
      BY DEF QueueInv, SessionInv
    <2>2. PICK c, n : c = handler[h].cursor /\ n = Len(frames)
      OBVIOUS
    <2>3. OnTheWay(c, n) => OnTheWay(c, n)'
      BY StillOnTheWay
    <2>. QED
      BY <2>1, <2>2, <2>3 DEF HandlerSound, At, Serves, Settled
  <1>. QED
    BY <1>1, <1>2, <1>3, <1>4 DEF QueueInv, SessionInv

LEMMA IngestPreserves ==
    ASSUME TypeInv, QueueInv, Ingest PROVE QueueInv'
  <1>. client \in ClientType /\ client.batch \in Batch
    BY RecordTypes DEF TypeInv, ClientType
  <1>. DEFINE batch == client.batch
  <1>1. /\ BatchSound(batch, 0) /\ LogInOrder /\ CursorsReached
        /\ \A r, q \in rows : r.env = q.env => r = q
    BY DEF Ingest, ClientAt, QueueInv, SessionInv, ClientSound, RowsOrdered
  <1>2. /\ client'.pc = "apply" /\ client'.batch = batch
        /\ client'.at = client.at /\ client'.highest = client.highest
    <2>1. client' = [client EXCEPT !.pc = "apply", !.batch = batch]
      BY DEF Ingest, ToApply, Batch
    <2>. QED
      BY <2>1 DEF ClientType
  <1>3. UNCHANGED <<rows, handler, frames, applied, pulled>>
        /\ ingested' = ingested \cup EnvsOf(batch.rows)
    BY DEF Ingest, ClientFrame, queueVars
  <1>4. LogInOrder'
    <2>1. EnvsOf(batch.rows) \subseteq EnvsOf(rows)
      BY <1>1 DEF BatchSound, EnvsOf
    <2>2. ASSUME NEW r \in rows, NEW q \in rows, q.env \in ingested', r.ord <= q.ord
          PROVE  r.env \in ingested'
      <3>1. CASE q.env \in ingested
        BY <1>1, <1>3, <2>2, <3>1 DEF LogInOrder, Prefix
      <3>2. CASE q.env \notin ingested
        <4>1. q \in batch.rows /\ q.ord <= batch.last
          BY <1>1, <1>3, <2>2, <3>2 DEF EnvsOf, BatchSound
        <4>2. r.ord <= batch.last
          BY <2>2, <4>1 DEF TypeInv, TypeOK, Row, Batch
        <4>3. r.env \in applied \/ r \in batch.rows
          BY <1>1, <4>2 DEF BatchSound, OnTheWay
        <4>. QED
          BY <1>1, <1>3, <4>3 DEF EnvsOf, LogInOrder
      <3>. QED
        BY <3>1, <3>2
    <2>. QED
      BY <1>1, <1>3, <2>1, <2>2 DEF LogInOrder, Prefix, EnvsOf
  <1>5. BatchSound(client.batch, 0)'
    BY <1>1, <1>2, <1>3 DEF BatchSound, OnTheWay, Settled
  <1>6. Reached(pulled)' /\ Reached(client.highest)'
    BY <1>1, <1>2, <1>3 DEF CursorsReached, Reached, Settled, Covered
  <1>. QED
    BY <1>2, <1>3, <1>4, <1>5, <1>6, ClientKeeps DEF Ingest

LEMMA ApplyOnePreserves ==
    ASSUME TypeInv, QueueInv, Apply, client.batch.rows # {} PROVE QueueInv'
  <1>. client \in ClientType /\ client.batch \in Batch
    BY RecordTypes DEF TypeInv, ClientType
  <1>. DEFINE batch == client.batch
  <1>1. /\ BatchSound(batch, 0) /\ LogInOrder /\ CursorsReached /\ RowsOrdered
        /\ EnvsOf(batch.rows) \subseteq ingested
        /\ client.pc = "apply"
    BY DEF Apply, ClientAt, QueueInv, SessionInv, ClientSound
  <1>2. batch.rows \in SUBSET Row /\ IsFiniteSet(batch.rows) /\ Apart(batch.rows)
    BY <1>1, FS_Subset DEF BatchSound, RowsOrdered, Apart, Batch
  <1>3. PICK m \in batch.rows : FirstOf(batch.rows, 1) = {m} /\ \A r \in batch.rows : m.ord <= r.ord
    BY <1>2, FirstRow
  <1>4. /\ client'.pc = "apply" /\ client'.batch.rows = batch.rows \ {m}
        /\ client'.batch.last = batch.last
        /\ client'.at = client.at /\ client'.highest = client.highest
    <2>1. client' = [client EXCEPT !.batch = [batch EXCEPT !.rows = batch.rows \ {m}]]
      BY <1>3 DEF Apply, ClientType
    <2>. QED
      BY <1>1, <2>1 DEF ClientType, Batch
  <1>5. UNCHANGED <<rows, handler, frames, ingested, pulled>> /\ applied' = applied \cup {m.env}
    BY <1>3 DEF Apply, ClientFrame, queueVars, EnvsOf
  <1>6. m \in rows /\ m.env \in ingested /\ m.ord <= batch.last
    BY <1>1 DEF EnvsOf, BatchSound
  <1>7. LogInOrder'
    <2>1. ASSUME NEW r \in rows, NEW q \in rows, q.env \in applied', r.ord <= q.ord
          PROVE  r.env \in applied'
      <3>1. CASE q.env \in applied
        BY <1>1, <1>5, <2>1, <3>1 DEF LogInOrder, Prefix
      <3>2. CASE q.env \notin applied
        <4>1. q = m
          BY <1>1, <1>5, <1>6, <3>2, <2>1 DEF RowsOrdered
        <4>2. r.env \in applied \/ r \in batch.rows
          <5>1. r.ord <= batch.last
            BY <1>6, <2>1, <4>1 DEF TypeInv, TypeOK, Row, Batch
          <5>. QED
            BY <1>1, <5>1 DEF BatchSound, OnTheWay
        <4>3. r \in batch.rows => r = m
          BY <1>1, <1>2, <1>3, <2>1, <4>1 DEF RowsOrdered, Row
        <4>. QED
          BY <1>5, <4>2, <4>3
      <3>. QED
        BY <3>1, <3>2
    <2>2. m.env \in EnvsOf(rows)
      BY <1>6 DEF EnvsOf
    <2>3. applied' \subseteq ingested'
      BY <1>1, <1>5, <1>6 DEF LogInOrder
    <2>4. Prefix(applied)'
      BY <1>1, <1>5, <2>1, <2>2 DEF LogInOrder, Prefix, EnvsOf
    <2>5. Prefix(ingested)'
      BY <1>1, <1>5 DEF LogInOrder, Prefix, EnvsOf
    <2>. QED
      BY <2>3, <2>4, <2>5 DEF LogInOrder
  <1>8. BatchSound(client.batch, 0)'
    BY <1>1, <1>4, <1>5 DEF BatchSound, OnTheWay, Settled
  <1>9. Reached(pulled)' /\ Reached(client.highest)'
    BY <1>1, <1>4, <1>5 DEF CursorsReached, Reached, Settled, Covered
  <1>10. EnvsOf(client'.batch.rows) \subseteq ingested'
    BY <1>1, <1>4, <1>5 DEF EnvsOf
  <1>. QED
    BY <1>4, <1>5, <1>7, <1>8, <1>9, <1>10, ClientKeeps DEF Apply

LEMMA BatchDonePreserves ==
    ASSUME TypeInv, QueueInv, Apply, client.batch.rows = {} PROVE QueueInv'
  <1>. client \in ClientType /\ client.batch \in Batch
    BY RecordTypes DEF TypeInv, ClientType
  <1>1. /\ BatchSound(client.batch, 0) /\ LogInOrder /\ CursorsReached
    BY DEF Apply, ClientAt, QueueInv, SessionInv, ClientSound
  <1>2. /\ client'.pc \in {"receive", "pulled"} /\ client'.batch = NoBatch
        /\ client'.at = client.at
        /\ client'.highest \in {client.highest, client.batch.last}
    <2>1. client' = [client EXCEPT !.highest = Max2(client.highest, client.batch.last),
                       !.batch = NoBatch,
                       !.pc = IF client.batch.more THEN "receive" ELSE "pulled"]
      BY DEF Apply, ClientType
    <2>. QED
      BY <2>1 DEF ClientType, Max2
  <1>3. UNCHANGED <<rows, handler, frames, ingested, applied, pulled>>
    BY DEF Apply, ClientFrame, queueVars
  <1>4. LogInOrder'
    BY <1>1, <1>3 DEF LogInOrder, Prefix
  <1>5. Reached(client.batch.last) /\ Reached(client.highest)
    BY <1>1 DEF BatchSound, OnTheWay, Reached, Covered, CursorsReached
  <1>6. Reached(pulled)' /\ Reached(client.highest)'
    <2>1. Reached(client'.highest)
      BY <1>2, <1>5
    <2>. QED
      BY <1>1, <1>3, <2>1 DEF CursorsReached, Reached, Settled, Covered
  <1>. QED
    BY <1>2, <1>3, <1>4, <1>6, ClientKeeps DEF Apply

LEMMA StorePulledPreserves ==
    ASSUME TypeInv, QueueInv, StorePulled PROVE QueueInv'
  <1>. client \in ClientType
    BY RecordTypes DEF TypeInv
  <1>1. /\ client.batch = NoBatch /\ LogInOrder /\ CursorsReached
    BY DEF StorePulled, ClientAt, QueueInv, SessionInv, ClientSound
  <1>2. /\ client'.pc = "ack" /\ client'.batch = client.batch
        /\ client'.at = client.at /\ client'.highest = client.highest
    BY DEF StorePulled, ClientType
  <1>3. UNCHANGED <<rows, handler, frames, ingested, applied>>
        /\ pulled' \in {pulled, client.highest}
    BY DEF StorePulled, ClientFrame, queueVars
  <1>4. LogInOrder'
    BY <1>1, <1>3 DEF LogInOrder, Prefix
  <1>5. Reached(pulled)' /\ Reached(client.highest)'
    BY <1>1, <1>2, <1>3 DEF CursorsReached, Reached, Settled, Covered
  <1>. QED
    BY <1>1, <1>2, <1>3, <1>4, <1>5, ClientKeeps DEF StorePulled

LEMMA QueueInvNext ==
    ASSUME OneWriter, TypeInv, QueueInv, [Next]_vars PROVE QueueInv'
  <1>1. CASE UNCHANGED vars
    <2>1. RowsOrdered'
      BY <1>1 DEF vars, queueVars, QueueInv, RowsOrdered
    <2>. QED
      BY <1>1, <2>1, SameQueue DEF vars, queueVars, nodeVars, QueueInv
  <1>2. ASSUME NEW h \in Handlers, Connect(h) \/ Push(h) \/ Fail(h) PROVE QueueInv'
    BY <1>2, ConnectPreserves, PushPreserves, FailPreserves
  <1>3. CASE ApplyDownstream \/ Drop \/ Restart
    BY <1>3, ReceiveFramePreserves, IngestPreserves, ApplyOnePreserves, BatchDonePreserves,
       StorePulledPreserves, EndsPreserve DEF ApplyDownstream
  <1>. QED
    BY <1>1, <1>2, <1>3, EnqueuePreserves DEF Next

\* With one call of Enqueue under way at a time, as central's in-memory store makes
\* sure, no position acknowledged or kept by the node passes a row that has not taken
\* effect, however sessions are lost, handlers overlap and the node crashes.
THEOREM NeverSkippedCorrect ==
    ASSUME OneWriter PROVE Spec => []NeverSkipped
  <1>1. Init => TypeInv /\ QueueInv
    BY TypeInvInit, QueueInvInit
  <1>2. TypeInv /\ QueueInv /\ [Next]_vars => TypeInv' /\ QueueInv'
    BY TypeInvNext, QueueInvNext
  <1>3. QueueInv => NeverSkipped
    BY DEF QueueInv, SessionInv, CursorsReached, Reached, Covered, NeverSkipped
  <1>. QED
    BY <1>1, <1>2, <1>3, PTL DEF Spec

-----------------------------------------------------------------------------
(* The refinement of Delivery *)

\* Each place of the queue has its row.
Ranked == \A i \in 1..Cardinality(rows) : \E r \in rows : Place(r) = i

LEMMA PlaceFacts ==
    ASSUME TypeInv, RowsOrdered
    PROVE  /\ Cardinality(rows) \in Nat
           /\ \A r \in rows : Place(r) \in 1..Cardinality(rows)
           /\ \A r, q \in rows : r.ord <= q.ord => Place(r) <= Place(q)
           /\ \A r, q \in rows : r.ord < q.ord => Place(r) < Place(q)
  <1>. DEFINE Upto(r) == {q \in rows : q.ord <= r.ord}
  <1>0. IsFiniteSet(rows) /\ rows \subseteq Row
    BY DEF RowsOrdered, TypeInv, TypeOK
  <1>1. \A r : IsFiniteSet(Upto(r)) /\ Place(r) = Cardinality(Upto(r)) /\ Place(r) \in Nat
               /\ Place(r) <= Cardinality(rows)
    BY <1>0, FS_Subset, FS_CardinalityType DEF Place
  <1>2. Cardinality(rows) \in Nat
    BY <1>0, FS_CardinalityType
  <1>3. ASSUME NEW r \in rows PROVE Place(r) >= 1
    <2>1. {r} \subseteq Upto(r) /\ Cardinality({r}) = 1
      BY <1>0, FS_Singleton DEF Row
    <2>. HIDE DEF Upto
    <2>2. Cardinality({r}) <= Cardinality(Upto(r))
      BY <1>1, <2>1, FS_Subset
    <2>. QED
      BY <1>1, <2>1, <2>2
  <1>4. ASSUME NEW r \in rows, NEW q \in rows, r.ord <= q.ord PROVE Place(r) <= Place(q)
    <2>1. Upto(r) \subseteq Upto(q)
      BY <1>0, <1>4 DEF Row
    <2>. HIDE DEF Upto
    <2>2. Cardinality(Upto(r)) <= Cardinality(Upto(q))
      BY <1>1, <2>1, FS_Subset
    <2>. QED
      BY <1>1, <2>2
  <1>5. ASSUME NEW r \in rows, NEW q \in rows, r.ord < q.ord PROVE Place(r) < Place(q)
    <2>1. Upto(r) \subseteq Upto(q) /\ q \in Upto(q) /\ q \notin Upto(r)
      BY <1>0, <1>5 DEF Row
    <2>. HIDE DEF Upto
    <2>2. Cardinality(Upto(r)) # Cardinality(Upto(q))
      BY <1>1, <2>1, FS_Subset
    <2>3. Place(r) <= Place(q)
      BY <1>0, <1>4, <1>5 DEF Row
    <2>. QED
      BY <1>1, <2>2, <2>3
  <1>6. ASSUME NEW r \in rows PROVE Place(r) \in 1..Cardinality(rows)
    <2>1. Place(r) \in Nat /\ Place(r) <= Cardinality(rows)
      BY <1>1
    <2>. QED
      BY <1>2, <1>3, <2>1
  <1>. QED
    BY <1>2, <1>4, <1>5, <1>6

LEMMA QueueFacts ==
    ASSUME TypeInv, RowsOrdered, Ranked
    PROVE  /\ QueueOf \in Seq(Envs) /\ Len(QueueOf) = Cardinality(rows)
           /\ \A r \in rows : QueueOf[Place(r)] = r.env
           /\ \A i \in 1..Cardinality(rows) : \E r \in rows : Place(r) = i /\ QueueOf[i] = r.env
  <1>. DEFINE n == Cardinality(rows)
              RowAt(i) == CHOOSE r \in rows : Place(r) = i
  <1>1. n \in Nat /\ \A r \in rows : Place(r) \in 1..n
    BY PlaceFacts
  <1>2. \A i \in 1..n : RowAt(i) \in rows /\ Place(RowAt(i)) = i
    BY DEF Ranked
  <1>3. \A r, q \in rows : Place(r) = Place(q) => r = q
    <2>1. ASSUME NEW r \in rows, NEW q \in rows, Place(r) = Place(q) PROVE r = q
      <3>1. ~ (r.ord < q.ord) /\ ~ (q.ord < r.ord)
        BY <1>1, <2>1, PlaceFacts
      <3>2. r.ord = q.ord
        BY <3>1 DEF TypeInv, TypeOK, Row
      <3>. QED
        BY <3>2 DEF RowsOrdered
    <2>. QED
      BY <2>1
  <1>4. QueueOf = [i \in 1..n |-> RowAt(i).env]
    BY DEF QueueOf
  <1>5. \A i \in 1..n : RowAt(i).env \in Envs
    BY <1>2 DEF TypeInv, TypeOK, Row
  <1>. HIDE DEF n, RowAt
  <1>6. QueueOf \in Seq(Envs) /\ Len(QueueOf) = n
    BY <1>1, <1>4, <1>5
  <1>7. ASSUME NEW r \in rows PROVE QueueOf[Place(r)] = r.env
    <2>1. RowAt(Place(r)) = r
      BY <1>1, <1>2, <1>3
    <2>. QED
      BY <1>1, <1>4, <2>1
  <1>8. \A i \in 1..n : QueueOf[i] = RowAt(i).env
    BY <1>4
  <1>. QED
    BY <1>2, <1>6, <1>7, <1>8 DEF n

\* The row a step commits, if it commits one, comes last.
Commits(p) ==
    /\ p \in Row /\ rows' = rows \cup {p}
    /\ p.env \notin EnvsOf(rows) /\ \A r \in rows : r.ord < p.ord
    /\ UNCHANGED applied

LEMMA StepsOfQueue ==
    ASSUME OneWriter, TypeInv, QueueInv, [Next]_vars
    PROVE  \/ rows' = rows /\ applied \subseteq applied'
           \/ \E p : Commits(p)
  <1>1. ASSUME NEW w \in Writers, Enqueue(w)
        PROVE  (rows' = rows /\ applied' = applied) \/ \E p : Commits(p)
    <2>1. CASE Draw(w) \/ Abort(w)
      BY <2>1 DEF Draw, Abort, nodeVars
    <2>2. CASE Commit(w)
      <3>1. PICK p \in writing[w] : writing[w] = {p}
        BY <2>2 DEF Commit, QueueInv, RowsOrdered
      <3>2. p \in Row /\ \A r \in rows : r.ord < p.ord
        BY <3>1 DEF QueueInv, RowsOrdered, TypeInv, TypeOK
      <3>3. CASE p.env \in EnvsOf(rows)
        BY <2>2, <3>1, <3>3 DEF Commit, nodeVars
      <3>4. CASE p.env \notin EnvsOf(rows)
        BY <2>2, <3>1, <3>2, <3>4 DEF Commit, Commits, nodeVars
      <3>. QED
        BY <3>3, <3>4
    <2>. QED
      BY <1>1, <2>1, <2>2 DEF Enqueue
  <1>2. ASSUME NEW h \in Handlers, Connect(h) \/ Push(h) \/ Fail(h)
        PROVE  rows' = rows /\ applied' = applied
    BY <1>2
    DEF Connect, Push, Fail, ReadCursor, ReadPage, SendChunk, ReceiveAck, StoreDelivered, Notice,
        HandlerFrame, ClientFrame, queueVars, nodeVars
  <1>3. ASSUME ApplyDownstream \/ Drop \/ Restart
        PROVE  rows' = rows /\ applied \subseteq applied'
    <2>1. applied \subseteq ingested
      BY DEF QueueInv, SessionInv, LogInOrder
    <2>. QED
      BY <1>3, <2>1
      DEF ApplyDownstream, Drop, Restart, ReceiveFrame, Ingest, Apply, StorePulled, SendAck,
          StreamEnds, ClientFrame, queueVars, nodeVars
  <1>4. CASE UNCHANGED vars
    BY <1>4 DEF vars, queueVars, nodeVars
  <1>. QED
    BY <1>1, <1>2, <1>3, <1>4 DEF Next

LEMMA CommitPlaces ==
    ASSUME TypeInv, RowsOrdered, NEW p, Commits(p)
    PROVE  /\ Cardinality(rows') = Cardinality(rows) + 1
           /\ \A r \in rows : Place(r)' = Place(r)
           /\ Place(p)' = Cardinality(rows) + 1
  <1>. IsFiniteSet(rows) /\ rows \subseteq Row /\ p \in Row /\ rows' = rows \cup {p}
       /\ \A r \in rows : r.ord < p.ord
    BY DEF RowsOrdered, TypeInv, TypeOK, Commits
  <1>1. p \notin rows
    BY DEF Row
  <1>2. Cardinality(rows') = Cardinality(rows) + 1
    BY <1>1, FS_AddElement
  <1>3. ASSUME NEW r \in rows PROVE Place(r)' = Place(r)
    <2>1. {q \in rows' : q.ord <= r.ord} = {q \in rows : q.ord <= r.ord}
      BY DEF Row
    <2>. QED
      BY <2>1 DEF Place
  <1>4. {q \in rows' : q.ord <= p.ord} = rows'
    BY DEF Row
  <1>. QED
    BY <1>2, <1>3, <1>4 DEF Place

LEMMA RankedNext ==
    ASSUME OneWriter, TypeInv, QueueInv, Ranked, [Next]_vars PROVE Ranked'
  <1>1. CASE rows' = rows
    BY <1>1 DEF Ranked, Place
  <1>2. ASSUME NEW p, Commits(p) PROVE Ranked'
    <2>. DEFINE n == Cardinality(rows)
    <2>1. n \in Nat
      BY PlaceFacts DEF QueueInv
    <2>2. /\ Cardinality(rows') = n + 1
          /\ \A r \in rows : Place(r)' = Place(r)
          /\ Place(p)' = n + 1
      BY <1>2, CommitPlaces DEF QueueInv
    <2>3. rows' = rows \cup {p}
      BY <1>2 DEF Commits
    <2>4. ASSUME NEW i \in 1..(n + 1) PROVE \E r \in rows' : Place(r)' = i
      <3>1. CASE i = n + 1
        BY <2>2, <2>3, <3>1
      <3>2. CASE i # n + 1
        <4>1. i \in 1..n
          BY <2>1, <3>2
        <4>. QED
          BY <2>2, <2>3, <4>1 DEF Ranked
      <3>. QED
        BY <3>1, <3>2
    <2>. QED
      BY <2>2, <2>4 DEF Ranked
  <1>. QED
    BY <1>1, <1>2, StepsOfQueue

\* Whatever more takes effect is again a prefix of the queue.
LEMMA TakeRefined ==
    ASSUME TypeInv, RowsOrdered, Ranked, rows' = rows, applied \subseteq applied',
           applied' # applied, Prefix(applied')
    PROVE  AbstractQueue!Take
  <1>0. PICK T : T = {r \in rows : r.env \in applied'}
    OBVIOUS
  <1>1. T \in SUBSET Row /\ T # {} /\ (\A r \in T : r.ord <= nextOrd) /\ nextOrd \in Nat
    <2>1. PICK e \in applied' : e \notin applied
      OBVIOUS
    <2>2. \E r \in rows : r.env = e
      BY <2>1 DEF Prefix, EnvsOf
    <2>. QED
      BY <1>0, <2>1, <2>2 DEF RowsOrdered, TypeInv, TypeOK
  <1>2. PICK m \in T : \A r \in T : r.ord <= m.ord
    <2>1. (\E r \in T : r.ord = LastOrd(T)) /\ \A r \in T : r.ord <= LastOrd(T)
      BY <1>1, LastOrdFacts
    <2>. QED
      BY <2>1
  <1>3. PICK k : k = Place(m)
    OBVIOUS
  <1>4. k \in 1..Cardinality(rows) /\ Cardinality(rows) \in Nat
    BY <1>0, <1>2, <1>3, PlaceFacts
  <1>5. ASSUME NEW e \in applied' PROVE \E i \in 1..k : e = QueueOf[i]
    <2>1. PICK r \in T : r.env = e
      BY <1>0, <1>5 DEF Prefix, EnvsOf
    <2>2. Place(r) \in 1..k
      BY <1>0, <1>2, <1>3, <1>4, <2>1, PlaceFacts
    <2>. QED
      BY <1>0, <2>1, <2>2, QueueFacts
  <1>6. ASSUME NEW i \in 1..k PROVE QueueOf[i] \in applied'
    <2>1. PICK r \in rows : Place(r) = i /\ QueueOf[i] = r.env
      BY <1>4, QueueFacts
    <2>2. ~ (m.ord < r.ord)
      BY <1>0, <1>2, <1>3, <1>4, <2>1, PlaceFacts
    <2>3. r.ord <= m.ord
      BY <1>0, <1>2, <2>1, <2>2 DEF TypeInv, TypeOK, Row
    <2>. QED
      BY <1>0, <1>2, <2>1, <2>3 DEF Prefix
  <1>7. applied' = {QueueOf[i] : i \in 1..k}
    BY <1>5, <1>6
  <1>8. k \in DOMAIN QueueOf /\ QueueOf' = QueueOf
    BY <1>4 DEF QueueOf, Place
  <1>. QED
    BY <1>7, <1>8 DEF AbstractQueue!Take, AbstractQueue!FirstOf

LEMMA PutRefined ==
    ASSUME TypeInv, RowsOrdered, Ranked, NEW p, Commits(p), TypeInv', RowsOrdered', Ranked'
    PROVE  \E e \in Envs : AbstractQueue!Put(e)
  <1>1. PICK n \in Nat : n = Cardinality(rows)
    BY PlaceFacts
  <1>2. /\ Cardinality(rows)' = n + 1
        /\ \A r \in rows : Place(r)' = Place(r)
        /\ Place(p)' = n + 1
        /\ p \in Row /\ rows' = rows \cup {p} /\ UNCHANGED applied
        /\ p.env \notin EnvsOf(rows)
    BY <1>1, CommitPlaces DEF Commits
  <1>3. PICK q : q = QueueOf
    OBVIOUS
  <1>4. q \in Seq(Envs) /\ Len(q) = n
        /\ \A i \in 1..n : \E r \in rows : Place(r) = i /\ q[i] = r.env
    BY <1>1, <1>3, QueueFacts
  <1>5. /\ QueueOf' \in Seq(Envs) /\ Len(QueueOf') = n + 1
        /\ \A r \in rows' : QueueOf'[Place(r)'] = r.env
    <2>1. (QueueOf \in Seq(Envs) /\ Len(QueueOf) = Cardinality(rows)
           /\ \A r \in rows : QueueOf[Place(r)] = r.env)'
      BY QueueFacts, PTL
    <2>. QED
      BY <1>2, <2>1
  <1>6. \A i \in DOMAIN q : q[i] # p.env
    BY <1>2, <1>4 DEF EnvsOf
  <1>7. ASSUME NEW i \in 1..n PROVE QueueOf'[i] = q[i]
    <2>1. PICK r \in rows : Place(r) = i /\ q[i] = r.env
      BY <1>4
    <2>. QED
      BY <1>2, <1>5, <2>1
  <1>8. QueueOf'[n + 1] = p.env
    BY <1>2, <1>5
  <1>9. QueueOf' = Append(q, p.env)
    <2>1. p.env \in Envs
      BY <1>2 DEF Row
    <2>2. \A i \in 1..(n + 1) : i \in 1..n \/ i = n + 1
      OBVIOUS
    <2>3. Append(q, p.env) \in Seq(Envs) /\ Len(Append(q, p.env)) = n + 1
          /\ \A i \in 1..(n + 1) : Append(q, p.env)[i] = IF i = n + 1 THEN p.env ELSE q[i]
      BY <1>4, <2>1
    <2>4. \A i \in 1..(n + 1) : QueueOf'[i] = Append(q, p.env)[i]
      BY <1>7, <1>8, <2>2, <2>3
    <2>. QED
      BY <1>5, <2>3, <2>4
  <1>. QED
    BY <1>2, <1>3, <1>6, <1>9 DEF AbstractQueue!Put, Row

\* The downstream queue, its cursors and the node together are a reliable FIFO queue,
\* with one call of Enqueue under way at a time: every step of a session is a Take of
\* a longer prefix, a Put, or invisible.
THEOREM DeliveryCorrect ==
    ASSUME OneWriter PROVE Spec => DeliveryRefined
  <1>1. Init => TypeInv /\ QueueInv /\ Ranked
    <2>1. Init => Cardinality(rows) = 0
      BY FS_EmptySet DEF Init
    <2>. QED
      BY <2>1, TypeInvInit, QueueInvInit DEF Ranked
  <1>2. TypeInv /\ QueueInv /\ Ranked /\ [Next]_vars => TypeInv' /\ QueueInv' /\ Ranked'
    BY TypeInvNext, QueueInvNext, RankedNext
  <1>3. Init => AbstractQueue!Init
    <2>. SUFFICES ASSUME Init PROVE AbstractQueue!Init
      OBVIOUS
    <2>1. Cardinality(rows) = 0
      BY FS_EmptySet DEF Init
    <2>2. QueueOf = <<>>
      BY <2>1 DEF QueueOf
    <2>. QED
      BY <2>2 DEF Init, AbstractQueue!Init
  <1>4. TypeInv /\ QueueInv /\ Ranked /\ TypeInv' /\ QueueInv' /\ Ranked' /\ [Next]_vars
          => [AbstractQueue!Next]_(AbstractQueue!vars)
    <2>. SUFFICES ASSUME TypeInv, QueueInv, Ranked, TypeInv', QueueInv', Ranked', [Next]_vars
                  PROVE  [AbstractQueue!Next]_(AbstractQueue!vars)
      OBVIOUS
    <2>1. CASE rows' = rows /\ applied' = applied
      BY <2>1 DEF AbstractQueue!vars, QueueOf, Place
    <2>2. CASE rows' = rows /\ applied \subseteq applied' /\ applied' # applied
      <3>1. Prefix(applied')
        BY <2>2 DEF QueueInv, SessionInv, LogInOrder, Prefix, EnvsOf
      <3>. QED
        BY <2>2, <3>1, TakeRefined DEF QueueInv, AbstractQueue!Next
    <2>3. ASSUME NEW p, Commits(p) PROVE AbstractQueue!Next
      BY <2>3, PutRefined DEF QueueInv, AbstractQueue!Next
    <2>. QED
      BY <2>1, <2>2, <2>3, StepsOfQueue
  <1>. QED
    BY <1>1, <1>2, <1>3, <1>4, PTL DEF Spec, DeliveryRefined, AbstractQueue!Spec
=============================================================================
