------------------------------ MODULE LabProofs ------------------------------
(***************************************************************************)
(* Proofs about eventlog-lab's sessions, for any number of nodes and slots, *)
(* every set of faults, any operations, and sessions that are cut off while *)
(* their servers go on: every state is well typed, and a session that       *)
(* SyncOnce reports as done has brought each end what the other announced.  *)
(***************************************************************************)
EXTENDS LabProperties, TLAPS, FiniteSetTheorems, WellFoundedInduction

-----------------------------------------------------------------------------
(* Types *)

\* What a frame carries: one event or none.
Frames == {f \in Frame : IsFiniteSet(f.event) /\ (f.kind # "events" => f.event = {})}
EventFrames == {f \in Frames : f.kind = "events"}
FramesOf(side) == {f \in Frames : f.side = side}

Clients == [pc : {"idle", "welcome", "down", "stream", "close", "wait"},
            slot : Sessions \cup {0}, to : Nodes \cup {0}, mine : Vector, vv : Vector,
            rest : Seq(Event), out : Seq(Frames)]
Servers == [pc : {"hello", "since", "stream", "up", "ended"}, err : BOOLEAN,
            at : Nodes \cup {0}, peer : Nodes \cup {0}, vv : Vector,
            rest : Seq(Event), out : Seq(Frames)]
Pipes == [toServer : Seq(FramesOf("client")), toClient : Seq(FramesOf("server")),
          closed : BOOLEAN, cancelled : BOOLEAN]

LogsFit == log \in [Nodes -> SUBSET Event] /\ \A n \in Nodes : IsFiniteSet(log[n])
HarnessFits ==
    /\ stage \in {"ops", "quiesce", "done", "up"}
    /\ turns \in Seq(Links) /\ rounds \in 0..MaxRounds
    /\ armed \subseteq Nodes /\ fired \in 0..MaxFired
InjectorFits ==
    /\ blocked \subseteq Links
    /\ prior \in [Links -> Seq(EventFrames)] /\ held \in [Links -> Seq(EventFrames)]
    /\ injected \in 0..MaxInjected
ClientsFit ==
    /\ client \in [Nodes -> Clients]
    /\ \A c \in Nodes : client[c].pc # "idle" =>
          client[c].slot \in Sessions /\ <<c, client[c].to>> \in Links
ServersFit ==
    /\ server \in [Sessions -> Servers]
    /\ \A s \in Sessions : server[s].pc # "ended" =>
          Link(s) \in Links /\ ~ server[s].err

TypeInv ==
    /\ setup \in Setups /\ ops \in [Nodes -> Nat] /\ slow \in 0..setup.slow
    /\ LogsFit /\ HarnessFits /\ InjectorFits /\ ClientsFit /\ ServersFit
    /\ pipe \in [Sessions -> Pipes]

-----------------------------------------------------------------------------
(* How far a session has come *)

\* A set of events has all that a vector counts.
Covers(S, vv) == \A a \in Nodes : \A i \in 1..vv[a] : [node |-> a, seq |-> i] \in S

\* Frames under way: events only, or events and the Ack that ends them.
Carried(q) == UNION {q[i].event : i \in DOMAIN q}
Streaming(q) == \A i \in DOMAIN q : q[i].kind = "events"
Closing(q) ==
    /\ q # <<>> /\ q[Len(q)].kind = "ack"
    /\ \A i \in 1..(Len(q) - 1) : q[i].kind = "events"

\* A client's session: both ends, the pipe, both logs, and the links that drop frames.
Views == [me : Nodes, client : Clients, server : Servers, pipe : Pipes,
          here : SUBSET Event, there : SUBSET Event, blocked : SUBSET Links]
Session(c) == [me |-> c, client |-> client[c], server |-> server[client[c].slot],
               pipe |-> pipe[client[c].slot], here |-> log[c], there |-> log[client[c].to],
               blocked |-> blocked]

\* All that the server of a session z has still to read, and all that its client has.
Up(z) == z.pipe.toServer \o z.client.out
Down(z) == z.pipe.toClient \o z.server.out
OpenUp(z) == <<z.me, z.client.to>> \notin z.blocked
OpenDown(z) == <<z.client.to, z.me>> \notin z.blocked

\* The server at work, the frames q still to come from it after a Welcome that announced w.
Serving(z, q, w) ==
    /\ z.server.vv = z.client.mine /\ Up(z) = <<>> /\ OpenUp(z) /\ OpenDown(z)
    /\ Covers(z.there, w)
    /\ \/ z.server.pc = "since" /\ q = <<>>
       \/ /\ z.server.pc = "stream" /\ Streaming(q)
          /\ Covers(z.here \cup Carried(q) \cup ToSet(z.server.rest), w)
       \/ z.server.pc = "up" /\ Closing(q) /\ Covers(z.here \cup Carried(q), w)

\* Before the Hello is read, after it, and if the Welcome is dropped.
Unread(z) ==
    /\ z.server.pc = "hello" /\ Down(z) = <<>>
    /\ Up(z) # <<>> =>
          /\ Len(Up(z)) = 1 /\ Head(Up(z)).kind = "hello" /\ Head(Up(z)).vv = z.client.mine
          /\ OpenUp(z)
Greeted(z) ==
    /\ Down(z) # <<>> /\ Head(Down(z)).kind = "welcome"
    /\ Serving(z, Tail(Down(z)), Head(Down(z)).vv)
Unheard(z) ==
    /\ z.server.pc \in {"since", "stream", "up"} /\ Down(z) = <<>> /\ Up(z) = <<>>
    /\ ~ OpenDown(z)

\* The client streams, and the server merges, until it has returned.
Answering(z) ==
    \/ /\ z.server.pc = "up" /\ z.server.out = <<>> /\ OpenUp(z)
       /\ \/ /\ z.client.pc = "stream" /\ Streaming(Up(z))
             /\ Covers(z.there \cup Carried(Up(z)) \cup ToSet(z.client.rest), z.client.mine)
          \/ /\ z.client.pc \in {"close", "wait"} /\ Closing(Up(z))
             /\ Covers(z.there \cup Carried(Up(z)), z.client.mine)
    \/ /\ z.server.pc = "ended" /\ z.client.pc \in {"close", "wait"}
       /\ Covers(z.there, z.client.mine)

Progress(z) ==
    /\ Covers(z.here, z.client.mine)
    /\ z.pipe.closed => z.client.pc = "wait" /\ z.client.out = <<>>
    /\ \/ z.client.pc = "welcome" /\ (Unread(z) \/ Greeted(z) \/ Unheard(z))
       \/ z.client.pc = "down" /\ Serving(z, Down(z), z.client.vv)
       \/ /\ z.client.pc \in {"stream", "close", "wait"}
          /\ Covers(z.here, z.client.vv) /\ Answering(z)

Plain == "reorder" \notin setup.faults

\* Neither end has found the session broken.
Live(c) ==
    /\ client[c].pc # "idle"
    /\ ~ pipe[client[c].slot].cancelled /\ ~ server[client[c].slot].err

\* No two clients use one slot, and a server at work in it is the client's.
Owned(c) ==
    client[c].pc # "idle" =>
       /\ \A d \in Nodes \ {c} : client[d].pc # "idle" => client[d].slot # client[c].slot
       /\ server[client[c].slot].pc # "ended" => Link(client[c].slot) = <<client[c].to, c>>

SessionInv ==
    /\ setup.transport = "grpc" => blocked = {}
    /\ Plain => \A l \in Links : held[l] = <<>>
    /\ \A c \in Nodes : Owned(c)
    /\ Plain => \A c \in Nodes : Live(c) => Progress(Session(c))

-----------------------------------------------------------------------------
(* Sequences of frames *)

LEMMA HandedOver ==
    ASSUME NEW S, NEW q \in Seq(S), NEW o \in Seq(S), o # <<>>
    PROVE  /\ Append(q, Head(o)) \o Tail(o) = q \o o
           /\ Head(o) \in S /\ Tail(o) \in Seq(S) /\ Append(q, Head(o)) \in Seq(S)
  OBVIOUS

LEMMA TakenFromFront ==
    ASSUME NEW S, NEW q \in Seq(S), NEW o \in Seq(S), q # <<>>
    PROVE  /\ Head(q \o o) = Head(q) /\ Tail(q \o o) = Tail(q) \o o /\ q \o o # <<>>
           /\ Head(q) \in S /\ Tail(q) \in Seq(S)
  OBVIOUS

LEMMA NothingLeft ==
    ASSUME NEW S, NEW q \in Seq(S), NEW o \in Seq(S)
    PROVE  /\ q \o o \in Seq(S) /\ q \o <<>> = q /\ <<>> \o o = o
           /\ q \o o = <<>> <=> q = <<>> /\ o = <<>>
  OBVIOUS

LEMMA NoFrames ==
    ASSUME NEW S, NEW q \in Seq(S)
    PROVE  Len(q) \in Nat /\ (q = <<>> <=> Len(q) = 0)
  OBVIOUS

LEMMA OneFrame ==
    ASSUME NEW S, NEW q \in Seq(S), Len(q) = 1
    PROVE  Tail(q) = <<>>
  <1>1. Tail(q) \in Seq(S) /\ Len(Tail(q)) = Len(q) - 1
    OBVIOUS
  <1>2. PICK rest \in Seq(S) : rest = Tail(q) /\ Len(rest) = Len(q) - 1
    BY <1>1
  <1>3. Len(rest) = 0
    BY <1>2
  <1>. QED
    BY <1>2, <1>3, NoFrames

LEMMA CarriedFirst ==
    ASSUME NEW q \in Seq(Frames), q # <<>>
    PROVE  /\ Carried(q) = Head(q).event \cup Carried(Tail(q))
           /\ Streaming(q) => Streaming(Tail(q)) /\ Head(q).kind = "events"
           /\ Closing(q) /\ Head(q).kind = "events" => Closing(Tail(q))
           /\ Closing(q) /\ Head(q).kind # "events" =>
                 Tail(q) = <<>> /\ Carried(q) = {} /\ Head(q).kind = "ack"
  <1>1. /\ Tail(q) \in Seq(Frames) /\ Len(Tail(q)) = Len(q) - 1 /\ Len(q) \in Nat \ {0}
        /\ \A i \in 1..(Len(q) - 1) : Tail(q)[i] = q[i + 1]
        /\ Head(q) = q[1] /\ q[1] \in Frames
    OBVIOUS
  <1>2. Carried(q) = Head(q).event \cup Carried(Tail(q))
    <2>1. ASSUME NEW i \in DOMAIN q PROVE q[i].event \subseteq Head(q).event \cup Carried(Tail(q))
      <3>1. CASE i = 1
        BY <1>1, <3>1
      <3>2. CASE i # 1
        <4>1. i - 1 \in DOMAIN Tail(q) /\ Tail(q)[i - 1] = q[i]
          BY <1>1, <3>2
        <4>. QED
          BY <4>1 DEF Carried
      <3>. QED
        BY <3>1, <3>2
    <2>2. ASSUME NEW i \in DOMAIN Tail(q) PROVE Tail(q)[i].event \subseteq Carried(q)
      <3>1. i + 1 \in DOMAIN q /\ Tail(q)[i] = q[i + 1]
        BY <1>1
      <3>. QED
        BY <3>1 DEF Carried
    <2>3. Head(q).event \subseteq Carried(q)
      <3>1. 1 \in DOMAIN q
        BY <1>1
      <3>. QED
        BY <1>1, <3>1 DEF Carried
    <2>4. Carried(q) \subseteq Head(q).event \cup Carried(Tail(q))
      BY <2>1 DEF Carried
    <2>5. Carried(Tail(q)) \subseteq Carried(q)
      BY <2>2 DEF Carried
    <2>. QED
      BY <2>3, <2>4, <2>5
  <1>3. Streaming(q) => Streaming(Tail(q)) /\ Head(q).kind = "events"
    BY <1>1 DEF Streaming
  <1>4. ASSUME Closing(q), Head(q).kind = "events" PROVE Closing(Tail(q))
    <2>1. Len(q) # 1
      BY <1>1, <1>4 DEF Closing
    <2>2. Len(Tail(q)) \in 1..(Len(q) - 1) /\ Tail(q) # <<>>
      <3>1. PICK rest \in Seq(Frames) : rest = Tail(q) /\ Len(rest) = Len(q) - 1
        BY <1>1
      <3>2. Len(rest) = 0 <=> rest = <<>>
        BY NoFrames
      <3>3. Len(q) - 1 \in 1..(Len(q) - 1)
        BY <1>1, <2>1
      <3>4. Len(rest) \in 1..(Len(q) - 1) /\ rest # <<>>
        BY <3>1, <3>2, <3>3
      <3>. QED
        BY <3>1, <3>4
    <2>3. Tail(q)[Len(Tail(q))] = q[Len(q)]
      BY <1>1, <2>2
    <2>4. ASSUME NEW i \in 1..(Len(Tail(q)) - 1) PROVE Tail(q)[i].kind = "events"
      <3>1. i + 1 \in 1..(Len(q) - 1) /\ Tail(q)[i] = q[i + 1]
        BY <1>1
      <3>. QED
        BY <1>4, <3>1 DEF Closing
    <2>. QED
      BY <1>4, <2>2, <2>3, <2>4 DEF Closing
  <1>5. ASSUME Closing(q), Head(q).kind # "events"
        PROVE  Tail(q) = <<>> /\ Carried(q) = {} /\ Head(q).kind = "ack"
    <2>1. Len(q) = 1 /\ Head(q).kind = "ack"
      BY <1>1, <1>5 DEF Closing
    <2>2. Tail(q) = <<>>
      <3>1. PICK rest \in Seq(Frames) : rest = Tail(q) /\ Len(rest) = Len(q) - 1
        BY <1>1
      <3>. QED
        BY <2>1, <3>1, NoFrames
    <2>4. Head(q).event = {}
      <3>1. Head(q) \in Frames
        BY <1>1
      <3>. QED
        BY <2>1, <3>1 DEF Frames
    <2>3. Carried(<<>>) = {}
      BY DEF Carried
    <2>. QED
      BY <1>2, <2>1, <2>2, <2>3, <2>4
  <1>. QED
    BY <1>2, <1>3, <1>4, <1>5

LEMMA CarriedBoth ==
    ASSUME NEW q \in Seq(Frames), NEW o \in Seq(Frames)
    PROVE  /\ Carried(q \o o) = Carried(q) \cup Carried(o)
           /\ Streaming(q) /\ Streaming(o) => Streaming(q \o o)
  <1>1. /\ Len(q \o o) = Len(q) + Len(o) /\ Len(q) \in Nat /\ Len(o) \in Nat
        /\ \A i \in 1..Len(q) : (q \o o)[i] = q[i]
        /\ \A i \in (Len(q) + 1)..(Len(q) + Len(o)) : (q \o o)[i] = o[i - Len(q)]
        /\ DOMAIN q = 1..Len(q) /\ DOMAIN o = 1..Len(o) /\ DOMAIN (q \o o) = 1..(Len(q) + Len(o))
    OBVIOUS
  <1>. DEFINE both == q \o o
  <1>. HIDE DEF both
  <1>2. ASSUME NEW i \in DOMAIN q PROVE i \in DOMAIN both /\ both[i] = q[i]
    BY <1>1 DEF both
  <1>3. ASSUME NEW i \in DOMAIN o PROVE i + Len(q) \in DOMAIN both /\ both[i + Len(q)] = o[i]
    BY <1>1 DEF both
  <1>4. ASSUME NEW i \in DOMAIN both
        PROVE  \/ i \in DOMAIN q /\ both[i] = q[i]
               \/ i - Len(q) \in DOMAIN o /\ both[i] = o[i - Len(q)]
    BY <1>1 DEF both
  <1>5. Carried(both) \subseteq Carried(q) \cup Carried(o)
    BY <1>4 DEF Carried
  <1>6. Carried(q) \subseteq Carried(both)
    BY <1>2 DEF Carried
  <1>7. Carried(o) \subseteq Carried(both)
    BY <1>3 DEF Carried
  <1>8. Streaming(q) /\ Streaming(o) => Streaming(both)
    BY <1>4 DEF Streaming
  <1>. QED
    BY <1>5, <1>6, <1>7, <1>8 DEF both

LEMMA AckEnds ==
    ASSUME NEW q \in Seq(Frames), Streaming(q), NEW f \in Frames, f.kind = "ack"
    PROVE  Closing(q \o <<f>>) /\ Carried(q \o <<f>>) = Carried(q)
  <1>1. /\ Len(q \o <<f>>) = Len(q) + 1 /\ Len(q) \in Nat /\ (q \o <<f>>)[Len(q) + 1] = f
        /\ \A i \in 1..Len(q) : (q \o <<f>>)[i] = q[i]
        /\ q \o <<f>> # <<>>
    OBVIOUS
  <1>2. Closing(q \o <<f>>)
    BY <1>1 DEF Closing, Streaming
  <1>3. Carried(<<f>>) = {}
    <2>1. f.event = {}
      BY DEF Frames
    <2>. QED
      BY <2>1 DEF Carried
  <1>4. <<f>> \in Seq(Frames)
    OBVIOUS
  <1>5. Carried(q \o <<f>>) = Carried(q) \cup Carried(<<f>>)
    BY <1>4, CarriedBoth
  <1>. QED
    BY <1>2, <1>3, <1>5

-----------------------------------------------------------------------------
(* Version vectors *)

\* A non-empty set of naturals has a least element.
LEMMA LeastNumber ==
    ASSUME NEW T \in SUBSET Nat, T # {}
    PROVE  \E m \in T : \A n \in T : m <= n
  <1>1. PICK m \in T : \A n \in T : <<n, m>> \notin OpToRel(<, Nat)
    BY NatLessThanWellFounded, WFMin
  <1>2. \A n \in T : ~ (n < m)
    BY <1>1 DEF OpToRel
  <1>. QED
    BY <1>2

\* The numbers of a finite log without a gap are no more than its events.
LEMMA RunFits ==
    ASSUME NEW S, IsFiniteSet(S), NEW a, NEW k \in Nat,
           \A i \in 1..k : [node |-> a, seq |-> i] \in S
    PROVE  k <= Cardinality(S)
  <1>. DEFINE f == [i \in 1..k |-> [node |-> a, seq |-> i]]
  <1>1. f \in Injection(1..k, S)
    <2>1. f \in [1..k -> S]
      OBVIOUS
    <2>2. ASSUME NEW i \in 1..k, NEW j \in 1..k, f[i] = f[j] PROVE i = j
      <3>1. [node |-> a, seq |-> i].seq = [node |-> a, seq |-> j].seq
        BY <2>2
      <3>. QED
        BY <3>1
    <2>. QED
      BY <2>1, <2>2 DEF Injection, IsInjective
  <1>2. Cardinality(1..k) <= Cardinality(S)
    <2>. HIDE DEF f
    <2>. QED
      BY <1>1, FS_Injection
  <1>3. Cardinality(1..k) = k
    BY FS_Interval
  <1>. QED
    BY <1>2, <1>3

LEMMA RunIsFinite ==
    ASSUME NEW a, NEW k \in Nat
    PROVE  IsFiniteSet({[node |-> a, seq |-> i] : i \in 1..k})
  <1>. DEFINE R == {[node |-> a, seq |-> i] : i \in 1..k}
              f == [i \in 1..k |-> [node |-> a, seq |-> i]]
  <1>1. f \in Surjection(1..k, R)
    BY DEF Surjection
  <1>2. IsFiniteSet(1..k)
    BY FS_Interval
  <1>. HIDE DEF R, f
  <1>3. IsFiniteSet(R)
    BY <1>1, <1>2, FS_Surjection
  <1>. QED
    BY <1>3 DEF R

LEMMA VectorIs ==
    ASSUME LogsFit, NEW n \in Nodes, NEW a \in Nodes
    PROVE  LET k == VersionVector(n)[a]
           IN /\ k \in Nat
              /\ \A i \in 1..k : [node |-> a, seq |-> i] \in log[n]
              /\ [node |-> a, seq |-> k + 1] \notin log[n]
  <1>. DEFINE S == log[n]
              Ends(k) == /\ \A i \in 1..k : [node |-> a, seq |-> i] \in S
                         /\ [node |-> a, seq |-> k + 1] \notin S
              T == {k \in Nat : [node |-> a, seq |-> k + 1] \notin S}
              C == Cardinality(S)
  <1>1. IsFiniteSet(S) /\ C \in Nat
    BY FS_CardinalityType DEF LogsFit
  <1>2. T # {}
    <2>. SUFFICES ASSUME T = {} PROVE FALSE
      OBVIOUS
    <2>1. ASSUME NEW i \in 1..(C + 1) PROVE [node |-> a, seq |-> i] \in S
      <3>1. i - 1 \in Nat /\ (i - 1) + 1 = i
        BY <1>1
      <3>2. [node |-> a, seq |-> (i - 1) + 1] \in S
        BY <3>1
      <3>. QED
        BY <3>1, <3>2
    <2>2. PICK k \in Nat : k = C + 1
      BY <1>1
    <2>3. \A i \in 1..k : [node |-> a, seq |-> i] \in S
      BY <2>1, <2>2
    <2>4. k <= C
      BY <1>1, <2>3, RunFits
    <2>. QED
      BY <1>1, <2>2, <2>4
  <1>3. PICK k \in T : \A j \in T : k <= j
    <2>1. T \in SUBSET Nat
      OBVIOUS
    <2>. HIDE DEF T
    <2>. QED
      BY <1>2, <2>1, LeastNumber
  <1>4. \A i \in 1..k : [node |-> a, seq |-> i] \in S
    <2>. SUFFICES ASSUME NEW i \in 1..k, [node |-> a, seq |-> i] \notin S PROVE FALSE
      OBVIOUS
    <2>1. i - 1 \in Nat /\ (i - 1) + 1 = i
      OBVIOUS
    <2>2. i - 1 \in T
      BY <2>1
    <2>. QED
      BY <1>3, <2>2
  <1>5. k <= C
    BY <1>1, <1>4, RunFits
  <1>6. k \in 0..C /\ Ends(k)
    BY <1>1, <1>4, <1>5
  <1>7. VersionVector(n)[a] = CHOOSE j \in 0..C : Ends(j)
    BY DEF VersionVector
  <1>8. PICK j : j = CHOOSE i \in 0..C : Ends(i)
    OBVIOUS
  <1>9. j \in 0..C /\ Ends(j)
    <2>. HIDE DEF Ends
    <2>. QED
      BY <1>6, <1>8
  <1>. QED
    BY <1>1, <1>7, <1>8, <1>9

LEMMA VectorFacts ==
    ASSUME LogsFit, NEW n \in Nodes
    PROVE  /\ VersionVector(n) \in Vector /\ Covers(log[n], VersionVector(n))
           /\ \A vv \in Vector : Covers(log[n], vv) => Dominates(n, vv)
  <1>1. VersionVector(n) \in Vector
    <2>1. \A a \in Nodes : VersionVector(n)[a] \in Nat
      BY VectorIs
    <2>. QED
      BY <2>1 DEF VersionVector, Vector
  <1>2. Covers(log[n], VersionVector(n))
    BY VectorIs DEF Covers
  <1>3. ASSUME NEW vv \in Vector, Covers(log[n], vv), NEW a \in Nodes
        PROVE  VersionVector(n)[a] >= vv[a]
    <2>1. PICK k \in Nat : k = VersionVector(n)[a] /\ [node |-> a, seq |-> k + 1] \notin log[n]
      BY VectorIs
    <2>2. k + 1 \notin 1..vv[a]
      BY <1>3, <2>1 DEF Covers
    <2>3. vv[a] \in Nat
      BY <1>3 DEF Vector
    <2>. QED
      BY <2>1, <2>2, <2>3
  <1>. QED
    BY <1>1, <1>2, <1>3 DEF Dominates

LEMMA CoversMore ==
    ASSUME NEW S, NEW T, S \subseteq T, NEW vv, Covers(S, vv)
    PROVE  Covers(T, vv)
  BY DEF Covers

-----------------------------------------------------------------------------
(* What is sent, queried and planned *)

\* A frame sent along a link that drops nothing comes out, with another one of events
\* at most, and one of events only if it carries events itself.
LEMMA FilterFacts ==
    ASSUME InjectorFits, NEW l \in Links, NEW f \in Frames, NEW o \in Filter(l, f)
    PROVE  /\ o.outs \in Seq(Frames) /\ o.injected \in 0..MaxInjected
           /\ o.prior \in [Links -> Seq(EventFrames)] /\ o.held \in [Links -> Seq(EventFrames)]
           /\ l \in blocked => o.outs = <<>>
           /\ Plain /\ (\A k \in Links : held[k] = <<>>) =>
                 /\ \A k \in Links : o.held[k] = <<>>
                 /\ l \notin blocked =>
                       /\ f.kind # "events" => o.outs = <<f>>
                       /\ f.kind = "events" => Streaming(o.outs) /\ f.event \subseteq Carried(o.outs)
  <1>. DEFINE sent(q) == [outs |-> q \o held[l],
                          prior |-> [prior EXCEPT ![l] = IF isEvents(f) THEN <<f>> ELSE @],
                          held |-> [held EXCEPT ![l] = <<>>],
                          injected |-> injected + IF q = <<f>> THEN 0 ELSE 1]
              silent == [outs |-> <<>>, prior |-> prior, held |-> held, injected |-> injected]
              kept == [sent(<<>>) EXCEPT !.held = [@ EXCEPT ![l] = <<f>>]]
  <1>1. /\ prior[l] \in Seq(EventFrames) /\ held[l] \in Seq(EventFrames)
        /\ injected \in Nat /\ injected <= MaxInjected /\ MaxInjected \in Nat
    BY LabAssumption DEF InjectorFits
  <1>2. \A q \in Seq(EventFrames) : q \in Seq(Frames) /\ Streaming(q)
    BY DEF EventFrames, Streaming
  <1>3. /\ [prior EXCEPT ![l] = IF isEvents(f) THEN <<f>> ELSE @] \in [Links -> Seq(EventFrames)]
        /\ [held EXCEPT ![l] = <<>>] \in [Links -> Seq(EventFrames)]
    <2>1. (IF isEvents(f) THEN <<f>> ELSE prior[l]) \in Seq(EventFrames)
      <3>1. isEvents(f) => f \in EventFrames
        BY DEF EventFrames, isEvents
      <3>2. isEvents(f) => <<f>> \in Seq(EventFrames)
        BY <3>1
      <3>. QED
        BY <1>1, <3>2
    <2>2. <<>> \in Seq(EventFrames)
      OBVIOUS
    <2>. QED
      BY <2>1, <2>2 DEF InjectorFits
  <1>4. <<f>> \in Seq(Frames) /\ <<f>> # <<>>
    OBVIOUS
  <1>5. CASE l \in blocked
    <2>1. o = silent
      BY <1>5 DEF Filter
    <2>. QED
      BY <1>1, <1>5, <2>1 DEF InjectorFits
  <1>6. CASE l \notin blocked /\ \E q \in Copies(l, f) : o = sent(q)
    <2>1. PICK q \in Copies(l, f) : o = sent(q)
      BY <1>6
    <2>2. \/ q = <<f>>
          \/ q = <<f>> \o prior[l] /\ f.kind = "events" /\ injected < MaxInjected
      BY DEF Copies, isEvents
    <2>9. prior[l] \in Seq(Frames) /\ held[l] \in Seq(Frames)
      BY <1>1, <1>2
    <2>3. q \in Seq(Frames) /\ prior[l] \in Seq(Frames)
      <3>1. <<f>> \o prior[l] \in Seq(Frames)
        BY <1>4, <2>9, NothingLeft
      <3>. QED
        BY <1>4, <2>2, <2>9, <3>1
    <2>4. o.outs \in Seq(Frames)
      BY <2>1, <2>3, <2>9
    <2>5. o.injected \in 0..MaxInjected
      BY <1>1, <2>1, <2>2
    <2>6. /\ o.prior \in [Links -> Seq(EventFrames)]
          /\ o.held = [held EXCEPT ![l] = <<>>] /\ o.held \in [Links -> Seq(EventFrames)]
      BY <1>3, <2>1
    <2>7. ASSUME \A k \in Links : held[k] = <<>>
          PROVE  o.outs = q /\ \A k \in Links : o.held[k] = <<>>
      BY <2>1, <2>3, <2>6, <2>7 DEF InjectorFits
    <2>8. ASSUME f.kind = "events"
          PROVE  Streaming(q) /\ f.event \subseteq Carried(q)
      <3>1. Carried(<<f>>) = f.event /\ Streaming(<<f>>)
        BY <2>8 DEF Carried, Streaming
      <3>2. Streaming(prior[l])
        BY <1>1, <1>2
      <3>3. Carried(<<f>> \o prior[l]) = Carried(<<f>>) \cup Carried(prior[l])
        BY <1>4, <2>3, CarriedBoth
      <3>4. Streaming(<<f>> \o prior[l])
        BY <1>4, <2>3, <3>1, <3>2, CarriedBoth
      <3>. QED
        BY <2>2, <3>1, <3>3, <3>4
    <2>. QED
      BY <1>6, <2>2, <2>4, <2>5, <2>6, <2>7, <2>8
  <1>7. CASE /\ l \notin blocked /\ "reorder" \in setup.faults /\ isEvents(f)
             /\ held[l] = <<>> /\ injected < MaxInjected /\ o = kept
    <2>1. o.outs = <<>> \o held[l] /\ o.injected = injected + 1
      BY <1>4, <1>7
    <2>2. o.prior = [prior EXCEPT ![l] = IF isEvents(f) THEN <<f>> ELSE @]
      BY <1>7
    <2>3. o.held = [[held EXCEPT ![l] = <<>>] EXCEPT ![l] = <<f>>]
      BY <1>7
    <2>4. o.held \in [Links -> Seq(EventFrames)]
      BY <1>3, <1>7, <2>3 DEF EventFrames, isEvents
    <2>. QED
      BY <1>1, <1>2, <1>3, <1>7, <2>1, <2>2, <2>4 DEF Plain
  <1>. QED
    BY <1>5, <1>6, <1>7 DEF Filter

\* The rows of a query are those asked for.
LEMMA OrderedFacts ==
    ASSUME NEW S \in SUBSET Event, IsFiniteSet(S), NEW q \in Ordered(S)
    PROVE  q \in Seq(Event) /\ ToSet(q) = S
  <1>. DEFINE C == Cardinality(S)
  <1>1. C \in Nat /\ Cardinality(1..C) = C /\ IsFiniteSet(1..C)
    BY FS_CardinalityType, FS_Interval
  <1>2. q \in [1..C -> S] /\ \A i, j \in 1..C : i # j => q[i] # q[j]
    BY DEF Ordered, SetToSeqs
  <1>3. q \in Injection(1..C, S)
    BY <1>2 DEF Injection, IsInjective
  <1>4. q \in Surjection(1..C, S)
    BY <1>1, <1>3, FS_Injection
  <1>5. q \in Seq(Event)
    <2>. HIDE DEF C
    <2>. QED
      BY <1>1, <1>2
  <1>6. ToSet(q) = S
    BY <1>2, <1>4 DEF ToSet, Surjection
  <1>. QED
    BY <1>5, <1>6

LEMMA FlattenFits ==
    ASSUME NEW S, NEW seqs \in Seq(Seq(S))
    PROVE  FlattenSeq(seqs) \in Seq(S)
  <1>. DEFINE K == Len(seqs)
              G(f, i) == IF i = 1 THEN seqs[i] ELSE f[i - 1] \o seqs[i]
              Chain(j) == \E f \in [1..j -> Seq(S)] : f = [i \in 1..j |-> G(f, i)]
              Bad == {j \in Nat : j <= K /\ ~ Chain(j)}
  <1>1. K \in Nat /\ \A i \in 1..K : seqs[i] \in Seq(S)
    OBVIOUS
  <1>2. ASSUME Bad # {} PROVE FALSE
    <2>1. PICK j \in Nat : j <= K /\ ~ Chain(j) /\ \A i \in 0..(j - 1) : Chain(i)
      <3>. HIDE DEF Chain
      <3>1. Bad \in SUBSET Nat
        OBVIOUS
      <3>2. PICK j \in Bad : \A i \in Bad : j <= i
        BY <1>2, <3>1, LeastNumber
      <3>3. ASSUME NEW i \in 0..(j - 1) PROVE Chain(i)
        <4>1. i \in Nat /\ i <= K /\ ~ (j <= i)
          BY <1>1
        <4>. QED
          BY <3>2, <4>1
      <3>. QED
        BY <3>2, <3>3
    <2>2. CASE j = 0
      <3>. DEFINE g == [i \in 1..0 |-> seqs[i]]
      <3>1. g \in [1..0 -> Seq(S)] /\ g = [i \in 1..0 |-> G(g, i)]
        OBVIOUS
      <3>2. Chain(0)
        BY <3>1
      <3>. QED
        BY <2>1, <2>2, <3>2
    <2>3. CASE j # 0
      <3>1. Chain(j - 1)
        <4>. HIDE DEF Chain
        <4>. QED
          BY <2>1, <2>3
      <3>2. PICK f \in [1..(j - 1) -> Seq(S)] : f = [i \in 1..(j - 1) |-> G(f, i)]
        BY <3>1
      <3>. DEFINE g == [i \in 1..j |-> G(f, i)]
      <3>3. ASSUME NEW i \in 1..j, i # 1 PROVE f[i - 1] \in Seq(S) /\ g[i - 1] = f[i - 1]
        <4>1. i - 1 \in 1..(j - 1) /\ i - 1 \in 1..j
          BY <2>1, <3>3
        <4>2. f[i - 1] = G(f, i - 1)
          BY <3>2, <4>1
        <4>. HIDE DEF G
        <4>. QED
          BY <4>1, <4>2
      <3>4. ASSUME NEW i \in 1..j PROVE G(g, i) = G(f, i)
        <4>. HIDE DEF g
        <4>1. i # 1 => g[i - 1] = f[i - 1]
          BY <3>3
        <4>. QED
          BY <4>1
      <3>5. g = [i \in 1..j |-> G(g, i)]
        <4>. HIDE DEF G
        <4>. QED
          BY <3>4
      <3>6. g \in [1..j -> Seq(S)]
        <4>1. ASSUME NEW i \in 1..j PROVE G(f, i) \in Seq(S)
          <5>1. seqs[i] \in Seq(S) /\ (i # 1 => f[i - 1] \in Seq(S))
            BY <1>1, <2>1, <3>3
          <5>. QED
            BY <5>1
        <4>. HIDE DEF G
        <4>. QED
          BY <4>1
      <3>7. Chain(j)
        BY <3>5, <3>6
      <3>. QED
        BY <2>1, <3>7
    <2>. QED
      BY <2>2, <2>3
  <1>3. CASE K = 0
    <2>1. seqs = <<>>
      BY <1>3, NoFrames
    <2>2. FlattenSeq(seqs) = seqs
      <3>1. Len(seqs) = 0
        BY <1>3
      <3>. HIDE DEF K
      <3>. QED
        BY <3>1 DEF FlattenSeq
    <2>3. <<>> \in Seq(S)
      OBVIOUS
    <2>. QED
      BY <2>1, <2>2, <2>3
  <1>4. CASE K # 0
    <2>1. Chain(K)
      <3>. HIDE DEF Chain
      <3>. QED
        BY <1>1, <1>2
    <2>2. PICK f : f = CHOOSE g : g = [i \in 1..K |-> G(g, i)]
      OBVIOUS
    <2>3. PICK h \in [1..K -> Seq(S)] : h = [i \in 1..K |-> G(h, i)]
      BY <2>1
    <2>4. f = [i \in 1..K |-> G(f, i)]
      BY <2>2, <2>3
    <2>5. FlattenSeq(seqs) = f[K]
      BY <1>4, <2>2 DEF FlattenSeq
    <2>. DEFINE Odd == {i \in Nat : i \in 1..K /\ f[i] \notin Seq(S)}
    <2>6. Odd = {}
      <3>. SUFFICES ASSUME Odd # {} PROVE FALSE
        OBVIOUS
      <3>1. PICK i \in Odd : \A k \in Odd : i <= k
        BY LeastNumber
      <3>2. i = 1 \/ f[i - 1] \in Seq(S)
        <4>1. i # 1 => i - 1 \in 1..K /\ i - 1 \in Nat /\ ~ (i <= i - 1)
          BY <1>1
        <4>. QED
          BY <3>1, <4>1
      <3>3. f[i] = G(f, i)
        BY <2>4
      <3>4. seqs[i] \in Seq(S)
        BY <1>1
      <3>5. f[i] \in Seq(S)
        BY <3>2, <3>3, <3>4
      <3>. QED
        BY <3>5
    <2>7. K \in Nat /\ K \in 1..K
      BY <1>1, <1>4
    <2>8. f[K] \in Seq(S)
      <3>. HIDE DEF K
      <3>. QED
        BY <2>6, <2>7
    <2>. QED
      BY <2>5, <2>8
  <1>. QED
    BY <1>3, <1>4

\* A round is made of links.
LEMMA MeshFits ==
    ASSUME setup \in Setups
    PROVE  Mesh \in Seq(Links)
  <1>. DEFINE N == Cardinality(Nodes)
              to(c) == [i \in 1..(N - 1) |-> <<c, IF i < c THEN i ELSE i + 1>>]
              seqs == [i \in DOMAIN setup.order |-> to(setup.order[i])]
  <1>1. N \in Nat /\ Nodes = 1..N
    BY LabAssumption, FS_CardinalityType
  <1>2. setup.order \in [1..N -> Nodes]
    BY LabAssumption
  <1>3. ASSUME NEW c \in Nodes PROVE to(c) \in Seq(Links)
    <2>1. ASSUME NEW i \in 1..(N - 1)
          PROVE  <<c, IF i < c THEN i ELSE i + 1>> \in Links
      BY <1>1 DEF Links
    <2>. QED
      BY <1>1, <2>1
  <1>4. seqs \in Seq(Seq(Links))
    <2>. HIDE DEF to
    <2>1. seqs \in [1..N -> Seq(Links)]
      BY <1>2, <1>3
    <2>. HIDE DEF N, seqs
    <2>. QED
      BY <1>1, <2>1
  <1>5. Mesh = FlattenSeq(seqs)
    BY DEF Mesh
  <1>. HIDE DEF seqs
  <1>. QED
    BY <1>4, <1>5, FlattenFits

LEMMA SlotChosen ==
    ASSUME Unused # {}
    PROVE  Min(Unused) \in Unused
  <1>1. Unused \in SUBSET Nat
    BY LabAssumption DEF Unused
  <1>2. PICK m \in Unused : \A n \in Unused : m <= n
    BY <1>1, LeastNumber
  <1>. QED
    BY <1>2 DEF Min

LEMMA FramesMade ==
    /\ Zero \in Vector
    /\ \A side \in {"client", "server"} :
         /\ \A kind \in {"hello", "welcome", "ack"}, vv \in Vector :
              /\ Say(side, kind, vv) \in Frames /\ Say(side, kind, vv).kind = kind
              /\ Say(side, kind, vv).vv = vv
         /\ \A e \in Event :
              /\ Carry(side, e) \in Frames /\ Carry(side, e).kind = "events"
              /\ Carry(side, e).event = {e}
  <1>1. Zero \in Vector
    BY DEF Zero, Vector
  <1>2. ASSUME NEW side \in {"client", "server"}, NEW kind \in {"hello", "welcome", "ack"},
               NEW vv \in Vector
        PROVE  /\ Say(side, kind, vv) \in Frames /\ Say(side, kind, vv).kind = kind
               /\ Say(side, kind, vv).vv = vv
    <2>1. IsFiniteSet({})
      BY FS_EmptySet
    <2>. QED
      BY <2>1 DEF Say, Frames, Frame
  <1>3. ASSUME NEW side \in {"client", "server"}, NEW e \in Event
        PROVE  /\ Carry(side, e) \in Frames /\ Carry(side, e).kind = "events"
               /\ Carry(side, e).event = {e}
    <2>1. IsFiniteSet({e})
      BY FS_Singleton
    <2>. QED
      BY <1>1, <2>1 DEF Carry, Frames, Frame
  <1>. QED
    BY <1>1, <1>2, <1>3

\* Nobody is at work yet.
LEMMA Fresh ==
    /\ NoClient \in Clients /\ NoClient.pc = "idle" /\ NoClient.out = <<>>
    /\ NoServer \in Servers /\ NoServer.pc = "ended" /\ NoServer.out = <<>> /\ ~ NoServer.err
    /\ NoPipe \in Pipes /\ NoPipe.toServer = <<>> /\ NoPipe.toClient = <<>>
    /\ ~ NoPipe.closed /\ ~ NoPipe.cancelled
  BY FramesMade DEF NoClient, Clients, NoServer, Servers, NoPipe, Pipes

-----------------------------------------------------------------------------
(* The initial states, and one party's step at a time *)

LEMMA TypeInit == Init => TypeInv
  <1>. SUFFICES ASSUME Init PROVE TypeInv
    OBVIOUS
  <1>. USE LabAssumption DEF Init
  <1>1. setup \in Setups /\ ops \in [Nodes -> Nat] /\ slow \in 0..setup.slow
    OBVIOUS
  <1>2. LogsFit
    <2>1. ASSUME NEW n \in Nodes
          PROVE  log[n] \in SUBSET Event /\ IsFiniteSet(log[n])
      <3>. DEFINE k == setup.offline[n]
      <3>1. k \in Nat
        BY <1>1
      <3>2. log[n] = {[node |-> n, seq |-> i] : i \in 1..k}
        OBVIOUS
      <3>4. IsFiniteSet({[node |-> n, seq |-> i] : i \in 1..k})
        <4>. HIDE DEF k
        <4>. QED
          BY <3>1, RunIsFinite
      <3>5. log[n] \subseteq Event
        BY <3>1, <3>2 DEF Event
      <3>. QED
        BY <3>2, <3>4, <3>5
    <2>. QED
      BY <2>1 DEF LogsFit
  <1>3. HarnessFits
    BY DEF HarnessFits
  <1>4. InjectorFits
    BY DEF InjectorFits
  <1>5. ClientsFit
    BY Fresh DEF ClientsFit
  <1>6. ServersFit
    BY Fresh DEF ServersFit
  <1>7. pipe \in [Sessions -> Pipes]
    BY Fresh
  <1>. QED
    BY <1>1, <1>2, <1>3, <1>4, <1>5, <1>6, <1>7 DEF TypeInv

\* A client in a state of its own, and the same of a server and of a pipe.
LEMMA ClientsStep ==
    ASSUME ClientsFit, NEW c \in Nodes, NEW x \in Clients,
           client' = [client EXCEPT ![c] = x],
           x.pc # "idle" => x.slot \in Sessions /\ <<c, x.to>> \in Links
    PROVE  ClientsFit'
  BY DEF ClientsFit

LEMMA ServersStep ==
    ASSUME ServersFit, NEW s \in Sessions, NEW v \in Servers,
           server' = [server EXCEPT ![s] = v],
           v.pc # "ended" => <<v.at, v.peer>> \in Links /\ ~ v.err
    PROVE  ServersFit'
  BY DEF ServersFit, Link

LEMMA PipesStep ==
    ASSUME pipe \in [Sessions -> Pipes], NEW s \in Sessions, NEW p \in Pipes,
           pipe' = [pipe EXCEPT ![s] = p]
    PROVE  pipe' \in [Sessions -> Pipes]
  OBVIOUS

\* Where a client and its server stand.
LEMMA ClientIs ==
    ASSUME TypeInv, NEW c \in Nodes
    PROVE  /\ client[c] \in Clients
           /\ client[c].pc # "idle" =>
                /\ client[c].slot \in Sessions /\ <<c, client[c].to>> \in Links
                /\ client[c].to \in Nodes /\ pipe[client[c].slot] \in Pipes
                /\ server[client[c].slot] \in Servers
  BY DEF TypeInv, ClientsFit, ServersFit, Links

LEMMA ServerIs ==
    ASSUME TypeInv, NEW s \in Sessions
    PROVE  /\ server[s] \in Servers /\ pipe[s] \in Pipes
           /\ server[s].pc # "ended" => Link(s) \in Links /\ server[s].at \in Nodes /\ ~ server[s].err
  BY DEF TypeInv, ServersFit, Links, Link

LEMMA Kept ==
    /\ LogsFit /\ UNCHANGED log => LogsFit'
    /\ HarnessFits /\ UNCHANGED harness => HarnessFits'
    /\ InjectorFits /\ UNCHANGED injector => InjectorFits'
    /\ ClientsFit /\ UNCHANGED client => ClientsFit'
    /\ ServersFit /\ UNCHANGED server => ServersFit'
  BY DEF LogsFit, HarnessFits, InjectorFits, ClientsFit, ServersFit, Link, harness, injector

LEMMA FilteredFits ==
    ASSUME InjectorFits, NEW l \in Links, NEW f \in Frames, NEW o \in Filter(l, f), Filtered(o),
           UNCHANGED blocked
    PROVE  InjectorFits' /\ o.outs \in Seq(Frames)
  BY FilterFacts DEF InjectorFits, Filtered

LEMMA LogGrows ==
    ASSUME LogsFit, NEW n \in Nodes, NEW E \in SUBSET Event, IsFiniteSet(E),
           log' = [log EXCEPT ![n] = @ \cup E]
    PROVE  LogsFit' /\ \A m \in Nodes : log[m] \subseteq log'[m]
  <1>1. IsFiniteSet(log[n] \cup E)
    BY FS_Union DEF LogsFit
  <1>. QED
    BY <1>1 DEF LogsFit

LEMMA FrameIs ==
    ASSUME NEW side, NEW q \in Seq(FramesOf(side)), q # <<>>
    PROVE  /\ Head(q) \in Frames /\ Head(q).vv \in Vector /\ Tail(q) \in Seq(FramesOf(side))
           /\ Head(q).event \in SUBSET Event /\ IsFiniteSet(Head(q).event)
  <1>1. Head(q) \in FramesOf(side) /\ Tail(q) \in Seq(FramesOf(side))
    OBVIOUS
  <1>. QED
    BY <1>1 DEF FramesOf, Frames, Frame

-----------------------------------------------------------------------------
(* Types: a client's steps *)

LEMMA TypeClientSends ==
    ASSUME TypeInv, NEW c \in Nodes, ClientSends(c)
    PROVE  TypeInv'
  <1>. DEFINE x == client[c]
              s == x.slot
              x1 == [x EXCEPT !.out = Tail(@)]
              p1 == [pipe[s] EXCEPT !.toServer = Append(@, Head(x.out))]
  <1>1. /\ x \in Clients /\ s \in Sessions /\ <<c, x.to>> \in Links /\ pipe[s] \in Pipes
        /\ x.out # <<>> /\ Head(x.out).side = "client"
    BY ClientIs DEF ClientSends, HandOver
  <1>2. x.out \in Seq(Frames) /\ pipe[s].toServer \in Seq(FramesOf("client"))
    BY <1>1 DEF Clients, Pipes
  <1>3. Head(x.out) \in FramesOf("client") /\ Tail(x.out) \in Seq(Frames)
    BY <1>1, <1>2 DEF FramesOf
  <1>4. Append(pipe[s].toServer, Head(x.out)) \in Seq(FramesOf("client"))
    BY <1>2, <1>3
  <1>5. x1 \in Clients /\ x1.slot = s /\ x1.to = x.to
    BY <1>1, <1>3 DEF Clients
  <1>6. p1 \in Pipes
    BY <1>1, <1>4 DEF Pipes
  <1>7. client' = [client EXCEPT ![c] = x1] /\ pipe' = [pipe EXCEPT ![s] = p1]
    BY DEF ClientSends
  <1>. HIDE DEF x1, p1
  <1>8. ClientsFit'
    BY <1>1, <1>5, <1>7, ClientsStep DEF TypeInv
  <1>9. pipe' \in [Sessions -> Pipes]
    BY <1>1, <1>6, <1>7 DEF TypeInv
  <1>. QED
    BY <1>8, <1>9, Kept DEF TypeInv, ClientSends

\* The first frame is taken from the pipe to a client, and the client goes on as x1.
LEMMA TypeReads ==
    ASSUME TypeInv, NEW c \in Nodes, client[c].pc # "idle", FromServer(c) # <<>>, pipe' = Taken(c)
    PROVE  /\ pipe' \in [Sessions -> Pipes]
           /\ Head(FromServer(c)) \in Frames /\ Head(FromServer(c)).vv \in Vector
           /\ Head(FromServer(c)).event \in SUBSET Event /\ IsFiniteSet(Head(FromServer(c)).event)
  <1>. DEFINE s == client[c].slot
              p1 == [pipe[s] EXCEPT !.toClient = Tail(@)]
  <1>1. s \in Sessions /\ pipe[s] \in Pipes
    BY ClientIs
  <1>2. pipe[s].toClient \in Seq(FramesOf("server"))
    BY <1>1 DEF Pipes
  <1>3. /\ Tail(pipe[s].toClient) \in Seq(FramesOf("server"))
        /\ Head(FromServer(c)) \in Frames /\ Head(FromServer(c)).vv \in Vector
        /\ Head(FromServer(c)).event \in SUBSET Event /\ IsFiniteSet(Head(FromServer(c)).event)
    BY <1>2, FrameIs DEF FromServer
  <1>4. p1 \in Pipes
    BY <1>1, <1>3 DEF Pipes
  <1>5. pipe' = [pipe EXCEPT ![s] = p1]
    BY DEF Taken
  <1>. HIDE DEF p1
  <1>. QED
    BY <1>1, <1>3, <1>4, <1>5 DEF TypeInv

LEMMA TypeWelcomed ==
    ASSUME TypeInv, NEW c \in Nodes, Welcomed(c)
    PROVE  TypeInv'
  <1>. DEFINE x == client[c]
              x1 == [x EXCEPT !.pc = "down", !.vv = Head(FromServer(c)).vv]
  <1>1. /\ x \in Clients /\ x.pc = "welcome" /\ FromServer(c) # <<>> /\ pipe' = Taken(c)
        /\ x.slot \in Sessions /\ <<c, x.to>> \in Links
    BY ClientIs DEF Welcomed, Reads
  <1>2. pipe' \in [Sessions -> Pipes] /\ Head(FromServer(c)).vv \in Vector
    BY <1>1, TypeReads
  <1>3. x1 \in Clients /\ x1.slot = x.slot /\ x1.to = x.to
    BY <1>1, <1>2 DEF Clients
  <1>4. client' = [client EXCEPT ![c] = x1]
    BY DEF Welcomed
  <1>. HIDE DEF x1
  <1>5. ClientsFit'
    BY <1>1, <1>3, <1>4, ClientsStep DEF TypeInv
  <1>. QED
    BY <1>2, <1>5, Kept DEF TypeInv, Welcomed

LEMMA TypeClientMerges ==
    ASSUME TypeInv, NEW c \in Nodes, ClientMerges(c)
    PROVE  TypeInv'
  <1>1. /\ client[c].pc # "idle" /\ FromServer(c) # <<>> /\ pipe' = Taken(c)
        /\ log' = [log EXCEPT ![c] = @ \cup Head(FromServer(c)).event]
    BY DEF ClientMerges, Reads
  <1>2. /\ pipe' \in [Sessions -> Pipes]
        /\ Head(FromServer(c)).event \in SUBSET Event /\ IsFiniteSet(Head(FromServer(c)).event)
    BY <1>1, TypeReads
  <1>3. LogsFit'
    BY <1>1, <1>2, LogGrows DEF TypeInv
  <1>. QED
    BY <1>2, <1>3, Kept DEF TypeInv, ClientMerges

LEMMA SinceFacts ==
    ASSUME LogsFit, NEW n \in Nodes, NEW vv \in Vector, NEW q \in Ordered(Since(n, vv))
    PROVE  q \in Seq(Event) /\ ToSet(q) = Since(n, vv)
  <1>1. Since(n, vv) \in SUBSET Event /\ IsFiniteSet(Since(n, vv))
    <2>1. Since(n, vv) \subseteq log[n] /\ log[n] \subseteq Event /\ IsFiniteSet(log[n])
      BY DEF Since, LogsFit
    <2>. QED
      BY <2>1, FS_Subset
  <1>. QED
    BY <1>1, OrderedFacts

LEMMA TypeAcked ==
    ASSUME TypeInv, NEW c \in Nodes, Acked(c)
    PROVE  TypeInv'
  <1>. DEFINE x == client[c]
  <1>1. /\ x \in Clients /\ x.pc = "down" /\ FromServer(c) # <<>> /\ pipe' = Taken(c)
        /\ x.slot \in Sessions /\ <<c, x.to>> \in Links
    BY ClientIs DEF Acked, Reads
  <1>2. pipe' \in [Sessions -> Pipes]
    BY <1>1, TypeReads
  <1>3. PICK q \in Ordered(Since(c, x.vv)) :
          client' = [client EXCEPT ![c] = [x EXCEPT !.pc = "stream", !.rest = q]]
    BY DEF Acked
  <1>4. q \in Seq(Event)
    <2>1. x.vv \in Vector
      BY <1>1 DEF Clients
    <2>. QED
      BY <2>1, SinceFacts DEF TypeInv
  <1>. DEFINE x1 == [x EXCEPT !.pc = "stream", !.rest = q]
  <1>5. x1 \in Clients /\ x1.slot = x.slot /\ x1.to = x.to
    BY <1>1, <1>4 DEF Clients
  <1>. HIDE DEF x1
  <1>6. ClientsFit'
    BY <1>1, <1>3, <1>5, ClientsStep DEF TypeInv, x1
  <1>. QED
    BY <1>2, <1>6, Kept DEF TypeInv, Acked

LEMMA TypeClientStreams ==
    ASSUME TypeInv, NEW c \in Nodes, ClientStreams(c)
    PROVE  TypeInv'
  <1>. DEFINE x == client[c]
              f == Carry("client", Head(x.rest))
  <1>1. /\ x \in Clients /\ x.pc = "stream" /\ x.slot \in Sessions /\ <<c, x.to>> \in Links
        /\ x.rest # <<>>
    BY ClientIs DEF ClientStreams, Reads
  <1>2. x.rest \in Seq(Event)
    BY <1>1 DEF Clients
  <1>3. Head(x.rest) \in Event /\ Tail(x.rest) \in Seq(Event)
    BY <1>1, <1>2
  <1>4. f \in Frames
    BY <1>3, FramesMade
  <1>5. PICK o \in Filter(<<c, x.to>>, f) :
          Filtered(o) /\ client' = [client EXCEPT ![c] = [x EXCEPT !.rest = Tail(@), !.out = o.outs]]
    BY DEF ClientStreams
  <1>. DEFINE x1 == [x EXCEPT !.rest = Tail(@), !.out = o.outs]
  <1>6. InjectorFits' /\ o.outs \in Seq(Frames)
    BY <1>1, <1>4, <1>5, FilteredFits DEF TypeInv, ClientStreams
  <1>7. x1 \in Clients /\ x1.slot = x.slot /\ x1.to = x.to
    BY <1>1, <1>3, <1>6 DEF Clients
  <1>. HIDE DEF x1
  <1>8. ClientsFit'
    BY <1>1, <1>5, <1>7, ClientsStep DEF TypeInv, x1
  <1>. QED
    BY <1>6, <1>8, Kept DEF TypeInv, ClientStreams

LEMMA TypeClientAcks ==
    ASSUME TypeInv, NEW c \in Nodes, ClientAcks(c)
    PROVE  TypeInv'
  <1>. DEFINE x == client[c]
              f == Say("client", "ack", VersionVector(c))
  <1>1. x \in Clients /\ x.pc = "stream" /\ x.slot \in Sessions /\ <<c, x.to>> \in Links
    BY ClientIs DEF ClientAcks, Reads
  <1>2. f \in Frames
    BY FramesMade, VectorFacts DEF TypeInv
  <1>3. PICK o \in Filter(<<c, x.to>>, f) :
          Filtered(o) /\ client' = [client EXCEPT ![c] = [x EXCEPT !.pc = "close", !.out = o.outs]]
    BY DEF ClientAcks
  <1>. DEFINE x1 == [x EXCEPT !.pc = "close", !.out = o.outs]
  <1>4. InjectorFits' /\ o.outs \in Seq(Frames)
    BY <1>1, <1>2, <1>3, FilteredFits DEF TypeInv, ClientAcks
  <1>5. x1 \in Clients /\ x1.slot = x.slot /\ x1.to = x.to
    BY <1>1, <1>4 DEF Clients
  <1>. HIDE DEF x1
  <1>6. ClientsFit'
    BY <1>1, <1>3, <1>5, ClientsStep DEF TypeInv, x1
  <1>. QED
    BY <1>4, <1>6, Kept DEF TypeInv, ClientAcks

LEMMA TypeCloseSend ==
    ASSUME TypeInv, NEW c \in Nodes, CloseSend(c)
    PROVE  TypeInv'
  <1>. DEFINE x == client[c]
              s == x.slot
              x1 == [x EXCEPT !.pc = "wait"]
              p1 == [pipe[s] EXCEPT !.closed = TRUE]
  <1>1. /\ x \in Clients /\ x.pc = "close" /\ s \in Sessions /\ <<c, x.to>> \in Links
        /\ pipe[s] \in Pipes
    BY ClientIs DEF CloseSend, Reads
  <1>2. x1 \in Clients /\ x1.slot = s /\ x1.to = x.to /\ p1 \in Pipes
    BY <1>1 DEF Clients, Pipes
  <1>3. client' = [client EXCEPT ![c] = x1] /\ pipe' = [pipe EXCEPT ![s] = p1]
    BY DEF CloseSend
  <1>. HIDE DEF x1, p1
  <1>4. ClientsFit' /\ pipe' \in [Sessions -> Pipes]
    BY <1>1, <1>2, <1>3, ClientsStep DEF TypeInv
  <1>. QED
    BY <1>4, Kept DEF TypeInv, CloseSend

\* A pipe is cancelled, by its client or by the clock.
LEMMA TypeCancels ==
    ASSUME TypeInv, NEW c \in Nodes, ~ Idle(c), Cancel(c) \/ Expires(c)
    PROVE  pipe' \in [Sessions -> Pipes]
  <1>. DEFINE s == client[c].slot
              p1 == [pipe[s] EXCEPT !.cancelled = TRUE]
  <1>1. s \in Sessions /\ pipe[s] \in Pipes
    BY ClientIs DEF Idle
  <1>2. p1 \in Pipes
    BY <1>1 DEF Pipes
  <1>3. pipe' = [pipe EXCEPT ![s] = p1]
    BY DEF Cancel, Expires
  <1>. HIDE DEF p1
  <1>. QED
    BY <1>1, <1>2, <1>3 DEF TypeInv

LEMMA TypeLeaves ==
    ASSUME TypeInv, NEW c \in Nodes, Finish(c) \/ GiveUp(c)
    PROVE  TypeInv'
  <1>1. ~ Idle(c) /\ Cancel(c) /\ client' = [client EXCEPT ![c] = NoClient]
    BY DEF Finish, GiveUp, Succeeds, Idle
  <1>2. pipe' \in [Sessions -> Pipes]
    BY <1>1, TypeCancels
  <1>3. ClientsFit'
    BY <1>1, Fresh, ClientsStep DEF TypeInv
  <1>. QED
    BY <1>2, <1>3, Kept DEF TypeInv, Finish, GiveUp

LEMMA TypeExpires ==
    ASSUME TypeInv, NEW c \in Nodes, Timeout(c) \/ Break(c)
    PROVE  TypeInv'
  <1>1. pipe' \in [Sessions -> Pipes]
    BY TypeCancels DEF Timeout, Break
  <1>2. setup.slow \in Nat
    BY LabAssumption DEF TypeInv
  <1>3. slow' \in 0..setup'.slow
    BY <1>2 DEF TypeInv, Timeout, Break
  <1>. QED
    BY <1>1, <1>3, Kept DEF TypeInv, Timeout, Break

LEMMA TypeDial ==
    ASSUME TypeInv, NEW c \in Nodes, NEW t \in Nodes, Dial(c, t)
    PROVE  TypeInv'
  <1>. DEFINE s == Min(Unused)
              mine == VersionVector(c)
              f == Say("client", "hello", mine)
  <1>1. s \in Sessions /\ <<c, t>> \in Links
    BY SlotChosen DEF Dial, Unused
  <1>2. mine \in Vector /\ f \in Frames
    BY FramesMade, VectorFacts DEF TypeInv
  <1>3. PICK o \in Filter(<<c, t>>, f) :
          /\ Filtered(o) /\ Connect(c, t, s)
          /\ client' = [client EXCEPT ![c] = [NoClient EXCEPT
                !.pc = "welcome", !.slot = s, !.to = t, !.mine = mine, !.out = o.outs]]
    BY DEF Dial
  <1>. DEFINE x1 == [NoClient EXCEPT !.pc = "welcome", !.slot = s, !.to = t, !.mine = mine,
                                     !.out = o.outs]
              v1 == [NoServer EXCEPT !.pc = "hello", !.at = t, !.peer = c]
  <1>4. InjectorFits' /\ o.outs \in Seq(Frames)
    BY <1>1, <1>2, <1>3, FilteredFits DEF TypeInv, Dial
  <1>. HIDE DEF s, mine
  <1>5. x1 \in Clients /\ x1.slot = s /\ x1.to = t
    BY <1>1, <1>2, <1>4, Fresh DEF Clients
  <1>6. v1 \in Servers /\ v1.at = t /\ v1.peer = c /\ ~ v1.err
    BY Fresh DEF Servers
  <1>7. server' = [server EXCEPT ![s] = v1] /\ pipe' = [pipe EXCEPT ![s] = NoPipe]
    BY <1>3 DEF Connect
  <1>8. NoPipe \in Pipes
    BY Fresh
  <1>. HIDE DEF x1, v1
  <1>9. ClientsFit'
    BY <1>1, <1>3, <1>5, ClientsStep DEF TypeInv, x1
  <1>10. ServersFit'
    <2>1. <<t, c>> \in Links
      BY <1>1 DEF Links
    <2>. QED
      BY <1>1, <1>6, <1>7, <2>1, ServersStep DEF TypeInv
  <1>11. pipe' \in [Sessions -> Pipes]
    BY <1>1, <1>7, <1>8 DEF TypeInv
  <1>12. HarnessFits'
    <2>1. turns' = turns \/ (turns # <<>> /\ turns' = Tail(turns))
      BY DEF Dial, Turn
    <2>2. turns' \in Seq(Links)
      <3>1. turns \in Seq(Links)
        BY DEF TypeInv, HarnessFits
      <3>2. turns # <<>> => Tail(turns) \in Seq(Links)
        BY <3>1, TakenFromFront
      <3>. QED
        BY <2>1, <3>1, <3>2
    <2>. QED
      BY <2>2 DEF TypeInv, HarnessFits, Dial
  <1>. QED
    BY <1>4, <1>9, <1>10, <1>11, <1>12, Kept DEF TypeInv, Dial

-----------------------------------------------------------------------------
(* Types: a server's steps *)

LEMMA TypeServerSends ==
    ASSUME TypeInv, NEW s \in Sessions, ServerSends(s)
    PROVE  TypeInv'
  <1>. DEFINE v == server[s]
              v1 == [v EXCEPT !.out = Tail(@)]
              p1 == [pipe[s] EXCEPT !.toClient = Append(@, Head(v.out))]
  <1>1. /\ v \in Servers /\ pipe[s] \in Pipes /\ v.pc # "ended"
        /\ <<v.at, v.peer>> \in Links /\ ~ v.err
        /\ v.out # <<>> /\ Head(v.out).side = "server"
    BY ServerIs DEF ServerSends, HandOver, Ended, Link
  <1>2. v.out \in Seq(Frames) /\ pipe[s].toClient \in Seq(FramesOf("server"))
    BY <1>1 DEF Servers, Pipes
  <1>3. Head(v.out) \in FramesOf("server") /\ Tail(v.out) \in Seq(Frames)
    BY <1>1, <1>2 DEF FramesOf
  <1>4. Append(pipe[s].toClient, Head(v.out)) \in Seq(FramesOf("server"))
    BY <1>2, <1>3
  <1>5. v1 \in Servers /\ v1.at = v.at /\ v1.peer = v.peer /\ v1.err = v.err
    BY <1>1, <1>3 DEF Servers
  <1>6. p1 \in Pipes
    BY <1>1, <1>4 DEF Pipes
  <1>7. server' = [server EXCEPT ![s] = v1] /\ pipe' = [pipe EXCEPT ![s] = p1]
    BY DEF ServerSends
  <1>. HIDE DEF v1, p1
  <1>8. ServersFit'
    BY <1>1, <1>5, <1>7, ServersStep DEF TypeInv
  <1>9. pipe' \in [Sessions -> Pipes]
    BY <1>1, <1>6, <1>7 DEF TypeInv
  <1>. QED
    BY <1>8, <1>9, Kept DEF TypeInv, ServerSends

\* The first frame is taken from the pipe to a server.
LEMMA TypeReceived ==
    ASSUME TypeInv, NEW s \in Sessions, FromClient(s) # <<>>, Received(s)
    PROVE  /\ pipe' \in [Sessions -> Pipes]
           /\ Head(FromClient(s)) \in Frames /\ Head(FromClient(s)).vv \in Vector
           /\ Head(FromClient(s)).event \in SUBSET Event /\ IsFiniteSet(Head(FromClient(s)).event)
  <1>. DEFINE p1 == [pipe[s] EXCEPT !.toServer = Tail(@)]
  <1>1. pipe[s] \in Pipes
    BY ServerIs
  <1>2. pipe[s].toServer \in Seq(FramesOf("client"))
    BY <1>1 DEF Pipes
  <1>3. /\ Tail(pipe[s].toServer) \in Seq(FramesOf("client"))
        /\ Head(FromClient(s)) \in Frames /\ Head(FromClient(s)).vv \in Vector
        /\ Head(FromClient(s)).event \in SUBSET Event /\ IsFiniteSet(Head(FromClient(s)).event)
    BY <1>2, FrameIs DEF FromClient
  <1>4. p1 \in Pipes
    BY <1>1, <1>3 DEF Pipes
  <1>5. pipe' = [pipe EXCEPT ![s] = p1]
    BY DEF Received
  <1>. HIDE DEF p1
  <1>. QED
    BY <1>1, <1>3, <1>4, <1>5 DEF TypeInv

LEMMA TypeGreet ==
    ASSUME TypeInv, NEW s \in Sessions, Greet(s)
    PROVE  TypeInv'
  <1>. DEFINE v == server[s]
              f == Say("server", "welcome", VersionVector(v.at))
              vv == Head(FromClient(s)).vv
  <1>1. /\ v \in Servers /\ v.pc = "hello" /\ Link(s) \in Links /\ v.at \in Nodes /\ ~ v.err
        /\ FromClient(s) # <<>> /\ Received(s)
    BY ServerIs DEF Greet, Listens
  <1>2. pipe' \in [Sessions -> Pipes] /\ vv \in Vector
    BY <1>1, TypeReceived
  <1>3. f \in Frames
    BY <1>1, FramesMade, VectorFacts DEF TypeInv
  <1>4. PICK o \in Filter(Link(s), f) :
          /\ Filtered(o)
          /\ server' = [server EXCEPT ![s] = [v EXCEPT !.pc = "since", !.vv = vv, !.out = o.outs]]
    BY DEF Greet
  <1>. DEFINE v1 == [v EXCEPT !.pc = "since", !.vv = vv, !.out = o.outs]
  <1>5. InjectorFits' /\ o.outs \in Seq(Frames)
    BY <1>1, <1>3, <1>4, FilteredFits DEF TypeInv, Greet
  <1>. HIDE DEF vv
  <1>6. v1 \in Servers /\ v1.at = v.at /\ v1.peer = v.peer /\ v1.err = v.err
    BY <1>1, <1>2, <1>5 DEF Servers
  <1>. HIDE DEF v1
  <1>7. ServersFit'
    BY <1>1, <1>4, <1>6, ServersStep DEF TypeInv, Link, v1
  <1>. QED
    BY <1>2, <1>5, <1>7, Kept DEF TypeInv, Greet

LEMMA TypeCollect ==
    ASSUME TypeInv, NEW s \in Sessions, Collect(s)
    PROVE  TypeInv'
  <1>. DEFINE v == server[s]
  <1>1. v \in Servers /\ v.pc = "since" /\ Link(s) \in Links /\ v.at \in Nodes /\ ~ v.err
    BY ServerIs DEF Collect, Listens
  <1>2. PICK q \in Ordered(Since(v.at, v.vv)) :
          server' = [server EXCEPT ![s] = [v EXCEPT !.pc = "stream", !.rest = q]]
    BY DEF Collect
  <1>3. q \in Seq(Event)
    <2>1. v.vv \in Vector
      BY <1>1 DEF Servers
    <2>. QED
      BY <1>1, <2>1, SinceFacts DEF TypeInv
  <1>. DEFINE v1 == [v EXCEPT !.pc = "stream", !.rest = q]
  <1>4. v1 \in Servers /\ v1.at = v.at /\ v1.peer = v.peer /\ v1.err = v.err
    BY <1>1, <1>3 DEF Servers
  <1>. HIDE DEF v1
  <1>5. ServersFit'
    BY <1>1, <1>2, <1>4, ServersStep DEF TypeInv, Link, v1
  <1>. QED
    BY <1>5, Kept DEF TypeInv, Collect

LEMMA TypeServerStreams ==
    ASSUME TypeInv, NEW s \in Sessions, ServerStreams(s)
    PROVE  TypeInv'
  <1>. DEFINE v == server[s]
              f == Carry("server", Head(v.rest))
  <1>1. /\ v \in Servers /\ v.pc = "stream" /\ Link(s) \in Links /\ ~ v.err /\ v.rest # <<>>
    BY ServerIs DEF ServerStreams, Listens
  <1>2. v.rest \in Seq(Event)
    BY <1>1 DEF Servers
  <1>3. Head(v.rest) \in Event /\ Tail(v.rest) \in Seq(Event)
    BY <1>1, <1>2
  <1>4. f \in Frames
    BY <1>3, FramesMade
  <1>5. PICK o \in Filter(Link(s), f) :
          Filtered(o) /\ server' = [server EXCEPT ![s] = [v EXCEPT !.rest = Tail(@), !.out = o.outs]]
    BY DEF ServerStreams
  <1>. DEFINE v1 == [v EXCEPT !.rest = Tail(@), !.out = o.outs]
  <1>6. InjectorFits' /\ o.outs \in Seq(Frames)
    BY <1>1, <1>4, <1>5, FilteredFits DEF TypeInv, ServerStreams
  <1>7. v1 \in Servers /\ v1.at = v.at /\ v1.peer = v.peer /\ v1.err = v.err
    BY <1>1, <1>3, <1>6 DEF Servers
  <1>. HIDE DEF v1
  <1>8. ServersFit'
    BY <1>1, <1>5, <1>7, ServersStep DEF TypeInv, Link, v1
  <1>. QED
    BY <1>6, <1>8, Kept DEF TypeInv, ServerStreams

LEMMA TypeServerAcks ==
    ASSUME TypeInv, NEW s \in Sessions, ServerAcks(s)
    PROVE  TypeInv'
  <1>. DEFINE v == server[s]
              f == Say("server", "ack", Zero)
  <1>1. v \in Servers /\ v.pc = "stream" /\ Link(s) \in Links /\ ~ v.err
    BY ServerIs DEF ServerAcks, Listens
  <1>2. f \in Frames
    BY FramesMade
  <1>3. PICK o \in Filter(Link(s), f) :
          Filtered(o) /\ server' = [server EXCEPT ![s] = [v EXCEPT !.pc = "up", !.out = o.outs]]
    BY DEF ServerAcks
  <1>. DEFINE v1 == [v EXCEPT !.pc = "up", !.out = o.outs]
  <1>4. InjectorFits' /\ o.outs \in Seq(Frames)
    BY <1>1, <1>2, <1>3, FilteredFits DEF TypeInv, ServerAcks
  <1>5. v1 \in Servers /\ v1.at = v.at /\ v1.peer = v.peer /\ v1.err = v.err
    BY <1>1, <1>4 DEF Servers
  <1>. HIDE DEF v1
  <1>6. ServersFit'
    BY <1>1, <1>3, <1>5, ServersStep DEF TypeInv, Link, v1
  <1>. QED
    BY <1>4, <1>6, Kept DEF TypeInv, ServerAcks

LEMMA TypeServerMerges ==
    ASSUME TypeInv, NEW s \in Sessions, ServerMerges(s)
    PROVE  TypeInv'
  <1>1. /\ server[s].pc = "up" /\ FromClient(s) # <<>> /\ Received(s) /\ server[s].at \in Nodes
        /\ log' = [log EXCEPT ![server[s].at] = @ \cup Head(FromClient(s)).event]
    BY ServerIs DEF ServerMerges, Listens
  <1>2. /\ pipe' \in [Sessions -> Pipes]
        /\ Head(FromClient(s)).event \in SUBSET Event /\ IsFiniteSet(Head(FromClient(s)).event)
    BY <1>1, TypeReceived
  <1>3. LogsFit'
    BY <1>1, <1>2, LogGrows DEF TypeInv
  <1>. QED
    BY <1>2, <1>3, Kept DEF TypeInv, ServerMerges

LEMMA TypeServerEnds ==
    ASSUME TypeInv, NEW s \in Sessions, ServerReturns(s) \/ ServerFails(s)
    PROVE  TypeInv'
  <1>1. PICK v \in Servers : v.pc = "ended" /\ server' = [server EXCEPT ![s] = v]
    <2>1. [NoServer EXCEPT !.err = TRUE] \in Servers /\ [NoServer EXCEPT !.err = TRUE].pc = "ended"
      BY Fresh DEF Servers
    <2>. QED
      BY <2>1, Fresh DEF ServerReturns, ServerFails
  <1>2. ServersFit'
    BY <1>1, ServersStep DEF TypeInv
  <1>. QED
    BY <1>2, Kept DEF TypeInv, ServerReturns, ServerFails

-----------------------------------------------------------------------------
(* Types: the harness, and every step *)

LEMMA TypeOperate ==
    ASSUME TypeInv, NEW n \in Nodes, Operate(n)
    PROVE  TypeInv'
  <1>1. ops' \in [Nodes -> Nat]
    BY DEF TypeInv, Operate
  <1>2. LogsFit'
    <2>1. CASE UNCHANGED log
      BY <2>1, Kept DEF TypeInv
    <2>2. CASE log' = [log EXCEPT ![n] = @ \cup {[node |-> n, seq |-> 1 + VersionVector(n)[n]]}]
      <3>1. VersionVector(n)[n] \in Nat
        BY VectorIs DEF TypeInv
      <3>2. [node |-> n, seq |-> 1 + VersionVector(n)[n]] \in Event
        BY <3>1 DEF Event
      <3>3. PICK e \in Event : e = [node |-> n, seq |-> 1 + VersionVector(n)[n]]
        BY <3>2
      <3>4. {e} \in SUBSET Event /\ IsFiniteSet({e})
        BY FS_Singleton
      <3>5. log' = [log EXCEPT ![n] = @ \cup {e}]
        BY <2>2, <3>3
      <3>. QED
        BY <3>4, <3>5, LogGrows DEF TypeInv
    <2>. QED
      BY <2>1, <2>2 DEF Operate, AppendLocal
  <1>3. HarnessFits'
    BY DEF TypeInv, HarnessFits, Operate, AppendLocal
  <1>. QED
    BY <1>1, <1>2, <1>3, Kept DEF TypeInv, Operate

LEMMA TypeHarness ==
    ASSUME TypeInv, HarnessStep \/ Fire \/ Heal
    PROVE  TypeInv'
  <1>1. Mesh \in Seq(Links)
    BY MeshFits DEF TypeInv
  <1>2. {MaxFired, MaxRounds} \subseteq Nat
    BY LabAssumption
  <1>. USE DEF TypeInv
  <1>3. CASE StartRound
    <2>1. HarnessFits'
      BY <1>1, <1>2, <1>3 DEF StartRound, HarnessFits
    <2>. QED
      BY <1>3, <2>1, Kept DEF StartRound
  <1>4. CASE Quiesce
    <2>1. HarnessFits' /\ InjectorFits'
      BY <1>1, <1>4 DEF Quiesce, HarnessFits, InjectorFits
    <2>. QED
      BY <1>4, <2>1, Kept DEF Quiesce
  <1>5. CASE EndRound
    <2>1. HarnessFits'
      BY <1>1, <1>5 DEF EndRound, HarnessFits
    <2>. QED
      BY <1>5, <2>1, Kept DEF EndRound
  <1>6. CASE Fire
    <2>1. HarnessFits'
      BY <1>2, <1>6 DEF Fire, HarnessFits, Arm
    <2>2. blocked' \subseteq Links
      <3>1. ASSUME NEW l \in Links PROVE Partition(l[1], l[2]) \subseteq Links
        BY DEF Partition, Links, InjectorFits
      <3>2. ASSUME NEW l \in Links PROVE PartitionOneWay(l[1], l[2]) \subseteq Links
        BY DEF PartitionOneWay, Links, InjectorFits
      <3>. QED
        BY <1>6, <3>1, <3>2 DEF Fire, InjectorFits
    <2>3. InjectorFits'
      BY <1>6, <2>2 DEF Fire, InjectorFits
    <2>. QED
      BY <1>6, <2>1, <2>3, Kept DEF Fire
  <1>7. CASE Heal
    <2>1. InjectorFits'
      BY <1>7 DEF Heal, InjectorFits
    <2>. QED
      BY <1>7, <2>1, Kept DEF Heal
  <1>. QED
    BY <1>3, <1>4, <1>5, <1>6, <1>7 DEF HarnessStep

LEMMA TypeNext == TypeInv /\ [Next]_vars => TypeInv'
  <1>. SUFFICES ASSUME TypeInv, [Next]_vars PROVE TypeInv'
    OBVIOUS
  <1>1. ASSUME NEW c \in Nodes, ClientStep(c) PROVE TypeInv'
    BY <1>1, TypeClientSends, TypeWelcomed, TypeClientMerges, TypeAcked, TypeClientStreams,
       TypeClientAcks, TypeCloseSend, TypeLeaves DEF ClientStep
  <1>2. ASSUME NEW s \in Sessions, ServerStep(s) PROVE TypeInv'
    BY <1>2, TypeServerSends, TypeGreet, TypeCollect, TypeServerStreams, TypeServerAcks,
       TypeServerMerges, TypeServerEnds DEF ServerStep
  <1>3. ASSUME NEW l \in Links, Dial(l[1], l[2]) PROVE TypeInv'
    BY <1>3, TypeDial DEF Links
  <1>4. ASSUME UNCHANGED vars PROVE TypeInv'
    BY <1>4, Kept DEF vars, TypeInv, injector, harness
  <1>. QED
    BY <1>1, <1>2, <1>3, <1>4, TypeExpires, TypeOperate, TypeHarness DEF Next

\* What TypeInv says is what the runs check, said of every frame, queue and set.
LEMMA TypesHold == TypeInv => TypeOK
  <1>. SUFFICES ASSUME TypeInv PROVE TypeOK
    OBVIOUS
  <1>1. ASSUME NEW S, NEW q \in Seq(S) PROVE \A e \in ToSet(q) : e \in S
    BY DEF ToSet
  <1>2. \A t \in ToSet(turns) : t \in Links
    BY <1>1 DEF TypeInv, HarnessFits
  <1>3. ASSUME NEW l \in Links, NEW f \in ToSet(prior[l]) \cup ToSet(held[l])
        PROVE  f \in Frame /\ f.kind = "events"
    <2>1. prior[l] \in Seq(EventFrames) /\ held[l] \in Seq(EventFrames)
      BY DEF TypeInv, InjectorFits
    <2>2. f \in EventFrames
      BY <1>1, <2>1
    <2>. QED
      BY <2>2 DEF EventFrames, Frames
  <1>4. ASSUME NEW n \in Nodes
        PROVE  /\ client[n].pc \in {"idle", "welcome", "down", "stream", "close", "wait"}
               /\ client[n].pc # "idle" => client[n].slot \in Sessions
    BY ClientIs DEF Clients
  <1>5. ASSUME NEW s \in Sessions
        PROVE  /\ server[s].pc \in {"hello", "since", "stream", "up", "ended"}
               /\ \A f \in ToSet(pipe[s].toServer) : f \in Frame /\ f.side = "client"
               /\ \A f \in ToSet(pipe[s].toClient) : f \in Frame /\ f.side = "server"
    <2>1. server[s] \in Servers /\ pipe[s] \in Pipes
      BY ServerIs
    <2>2. /\ pipe[s].toServer \in Seq(FramesOf("client"))
          /\ pipe[s].toClient \in Seq(FramesOf("server"))
      BY <2>1 DEF Pipes
    <2>3. /\ \A f \in ToSet(pipe[s].toServer) : f \in FramesOf("client")
          /\ \A f \in ToSet(pipe[s].toClient) : f \in FramesOf("server")
      BY <1>1, <2>2
    <2>4. server[s].pc \in {"hello", "since", "stream", "up", "ended"}
      BY <2>1 DEF Servers
    <2>. QED
      BY <2>3, <2>4 DEF FramesOf, Frames
  <1>. QED
    BY <1>2, <1>3, <1>4, <1>5 DEF TypeOK, TypeInv, LogsFit, HarnessFits, InjectorFits

\* Every log, queue, frame and local variable stays what TypeOK says (SyncOnce, Session,
\* Filter, Run), however sessions of any number of nodes are cut off or abandoned.
THEOREM TypeCorrect == Spec => []TypeOK
  <1>1. Spec => []TypeInv
    BY TypeInit, TypeNext, PTL DEF Spec
  <1>. QED
    BY <1>1, TypesHold, PTL

-----------------------------------------------------------------------------
(* Sessions: what one step of either end makes of how far it has come *)

LEMMA ViewIs ==
    ASSUME TypeInv, NEW c \in Nodes, client[c].pc # "idle"
    PROVE  Session(c) \in Views
  <1>1. /\ client[c] \in Clients /\ server[client[c].slot] \in Servers
        /\ pipe[client[c].slot] \in Pipes /\ client[c].to \in Nodes
    BY ClientIs
  <1>2. log[c] \in SUBSET Event /\ log[client[c].to] \in SUBSET Event /\ blocked \in SUBSET Links
    BY <1>1 DEF TypeInv, LogsFit, InjectorFits
  <1>. QED
    BY <1>1, <1>2 DEF Session, Views

LEMMA ViewFacts ==
    ASSUME NEW z \in Views
    PROVE  /\ z.pipe.toServer \in Seq(Frames) /\ z.pipe.toClient \in Seq(Frames)
           /\ z.client.out \in Seq(Frames) /\ z.server.out \in Seq(Frames)
           /\ z.client.rest \in Seq(Event) /\ z.server.rest \in Seq(Event)
           /\ z.client.vv \in Vector /\ z.client.mine \in Vector /\ z.server.vv \in Vector
           /\ Up(z) \in Seq(Frames) /\ Down(z) \in Seq(Frames)
           /\ z.client.out = <<>> => Up(z) = z.pipe.toServer
           /\ z.server.out = <<>> => Down(z) = z.pipe.toClient
  <1>1. z.client \in Clients /\ z.server \in Servers /\ z.pipe \in Pipes
    BY DEF Views
  <1>2. /\ z.client.out \in Seq(Frames) /\ z.server.out \in Seq(Frames)
        /\ z.client.rest \in Seq(Event) /\ z.server.rest \in Seq(Event)
        /\ z.client.vv \in Vector /\ z.client.mine \in Vector /\ z.server.vv \in Vector
    BY <1>1 DEF Clients, Servers
  <1>3. ASSUME NEW side, NEW q \in Seq(FramesOf(side)) PROVE q \in Seq(Frames)
    BY DEF FramesOf
  <1>4. z.pipe.toServer \in Seq(Frames) /\ z.pipe.toClient \in Seq(Frames)
    BY <1>1, <1>3 DEF Pipes
  <1>. QED
    BY <1>2, <1>4, NothingLeft DEF Up, Down

\* What is under way is the same, whichever queue it is in, and logs have only grown.
SameSession(z, y) ==
    /\ y.me = z.me /\ y.blocked = z.blocked
    /\ z.here \subseteq y.here /\ z.there \subseteq y.there
    /\ y.client.pc = z.client.pc /\ y.client.to = z.client.to
    /\ y.client.mine = z.client.mine /\ y.client.vv = z.client.vv
    /\ y.client.rest = z.client.rest
    /\ y.server.pc = z.server.pc /\ y.server.vv = z.server.vv /\ y.server.rest = z.server.rest
    /\ z.server.out = <<>> => y.server.out = <<>>
    /\ Up(y) = Up(z) /\ Down(y) = Down(z)
    /\ y.pipe.closed => z.pipe.closed
    /\ z.client.out = <<>> => y.client.out = <<>>

LEMMA ServingStays ==
    ASSUME NEW z, NEW y, SameSession(z, y), NEW q, NEW w, Serving(z, q, w)
    PROVE  Serving(y, q, w)
  <1>1. Covers(y.there, w)
    BY CoversMore DEF SameSession, Serving
  <1>2. ASSUME Covers(z.here \cup Carried(q) \cup ToSet(z.server.rest), w)
        PROVE  Covers(y.here \cup Carried(q) \cup ToSet(z.server.rest), w)
    <2>1. z.here \cup Carried(q) \cup ToSet(z.server.rest)
            \subseteq y.here \cup Carried(q) \cup ToSet(z.server.rest)
      BY DEF SameSession
    <2>. QED
      BY <1>2, <2>1, CoversMore
  <1>3. ASSUME Covers(z.here \cup Carried(q), w)
        PROVE  Covers(y.here \cup Carried(q), w)
    <2>1. z.here \cup Carried(q) \subseteq y.here \cup Carried(q)
      BY DEF SameSession
    <2>. QED
      BY <1>3, <2>1, CoversMore
  <1>. QED
    BY <1>1, <1>2, <1>3 DEF SameSession, Serving, OpenUp, OpenDown

LEMMA AnsweringStays ==
    ASSUME NEW z, NEW y, SameSession(z, y), Answering(z)
    PROVE  Answering(y)
  <1>1. ASSUME NEW S, Covers(z.there \cup S, z.client.mine)
        PROVE  Covers(y.there \cup S, z.client.mine)
    <2>1. z.there \cup S \subseteq y.there \cup S
      BY DEF SameSession
    <2>. QED
      BY <1>1, <2>1, CoversMore
  <1>2. /\ z.there \cup Carried(Up(z)) \cup ToSet(z.client.rest)
             = z.there \cup (Carried(Up(z)) \cup ToSet(z.client.rest))
        /\ y.there \cup Carried(Up(z)) \cup ToSet(z.client.rest)
             = y.there \cup (Carried(Up(z)) \cup ToSet(z.client.rest))
    OBVIOUS
  <1>3. Covers(z.there, z.client.mine) => Covers(y.there, z.client.mine)
    BY CoversMore DEF SameSession
  <1>. QED
    BY <1>1, <1>2, <1>3 DEF SameSession, Answering, OpenUp

LEMMA Stays ==
    ASSUME NEW z, NEW y, SameSession(z, y), Progress(z)
    PROVE  Progress(y)
  <1>1. Covers(y.here, y.client.mine) /\ (Covers(z.here, z.client.vv) => Covers(y.here, y.client.vv))
    BY CoversMore DEF SameSession, Progress
  <1>2. y.pipe.closed => y.client.pc = "wait" /\ y.client.out = <<>>
    BY DEF SameSession, Progress
  <1>3. Unread(z) => Unread(y)
    BY DEF SameSession, Unread, OpenUp
  <1>4. Unheard(z) => Unheard(y)
    BY DEF SameSession, Unheard, OpenDown
  <1>5. Greeted(z) => Greeted(y)
    BY ServingStays DEF SameSession, Greeted
  <1>6. Serving(z, Down(z), z.client.vv) => Serving(y, Down(y), y.client.vv)
    BY ServingStays DEF SameSession
  <1>7. y.client.pc = z.client.pc
    BY DEF SameSession
  <1>. QED
    BY <1>1, <1>2, <1>3, <1>4, <1>5, <1>6, <1>7, AnsweringStays DEF Progress

\* Nothing differs between two moments of a session but its ends and its pipe.
Beside(z, y) == y.me = z.me /\ y.blocked = z.blocked /\ y.client.to = z.client.to
             /\ y.client.mine = z.client.mine

\* A frame is taken from the front of what is under way to one end.
LEMMA DownTaken ==
    ASSUME NEW z \in Views, NEW y \in Views, z.pipe.toClient # <<>>,
           y.pipe.toClient = Tail(z.pipe.toClient), y.server.out = z.server.out
    PROVE  /\ Head(Down(z)) = Head(z.pipe.toClient) /\ Down(y) = Tail(Down(z)) /\ Down(z) # <<>>
           /\ Down(z) \in Seq(Frames)
  <1>1. z.pipe.toClient \in Seq(Frames) /\ z.server.out \in Seq(Frames)
    BY ViewFacts
  <1>. DEFINE q == z.pipe.toClient
              o == z.server.out
  <1>. HIDE DEF q, o
  <1>2. Head(q \o o) = Head(q) /\ Tail(q \o o) = Tail(q) \o o /\ q \o o # <<>>
    <2>1. q \in Seq(Frames) /\ o \in Seq(Frames) /\ q # <<>>
      BY <1>1 DEF q, o
    <2>. QED
      BY <2>1, TakenFromFront
  <1>. QED
    BY <1>2, ViewFacts DEF Down, q, o

LEMMA UpTaken ==
    ASSUME NEW z \in Views, NEW y \in Views, z.pipe.toServer # <<>>,
           y.pipe.toServer = Tail(z.pipe.toServer), y.client.out = z.client.out
    PROVE  /\ Head(Up(z)) = Head(z.pipe.toServer) /\ Up(y) = Tail(Up(z)) /\ Up(z) # <<>>
           /\ Up(z) \in Seq(Frames)
  <1>1. z.pipe.toServer \in Seq(Frames) /\ z.client.out \in Seq(Frames)
    BY ViewFacts
  <1>. DEFINE q == z.pipe.toServer
              o == z.client.out
  <1>. HIDE DEF q, o
  <1>2. Head(q \o o) = Head(q) /\ Tail(q \o o) = Tail(q) \o o /\ q \o o # <<>>
    <2>1. q \in Seq(Frames) /\ o \in Seq(Frames) /\ q # <<>>
      BY <1>1 DEF q, o
    <2>. QED
      BY <2>1, TakenFromFront
  <1>. QED
    BY <1>2, ViewFacts DEF Up, q, o

\* A frame goes from the hands of one end into the pipe.
LEMMA UpSent ==
    ASSUME NEW z \in Views, NEW y \in Views, z.client.out # <<>>,
           y.pipe.toServer = Append(z.pipe.toServer, Head(z.client.out)), y.client.out = Tail(z.client.out)
    PROVE  Up(y) = Up(z)
  <1>. DEFINE q == z.pipe.toServer
              o == z.client.out
  <1>1. q \in Seq(Frames) /\ o \in Seq(Frames)
    BY ViewFacts
  <1>. HIDE DEF q, o
  <1>2. Append(q, Head(o)) \o Tail(o) = q \o o
    <2>1. o # <<>>
      BY DEF o
    <2>. QED
      BY <1>1, <2>1
  <1>. QED
    BY <1>2 DEF Up, q, o

LEMMA DownSent ==
    ASSUME NEW z \in Views, NEW y \in Views, z.server.out # <<>>,
           y.pipe.toClient = Append(z.pipe.toClient, Head(z.server.out)), y.server.out = Tail(z.server.out)
    PROVE  Down(y) = Down(z)
  <1>. DEFINE q == z.pipe.toClient
              o == z.server.out
  <1>1. q \in Seq(Frames) /\ o \in Seq(Frames)
    BY ViewFacts
  <1>. HIDE DEF q, o
  <1>2. Append(q, Head(o)) \o Tail(o) = q \o o
    <2>1. o # <<>>
      BY DEF o
    <2>. QED
      BY <1>1, <2>1
  <1>. QED
    BY <1>2 DEF Down, q, o

LEMMA WelcomedOn ==
    ASSUME NEW z \in Views, NEW y \in Views, Progress(z), Beside(z, y),
           z.client.pc = "welcome", z.client.out = <<>>,
           z.pipe.toClient # <<>>, Head(z.pipe.toClient).kind = "welcome",
           y.client = [z.client EXCEPT !.pc = "down", !.vv = Head(z.pipe.toClient).vv],
           y.pipe = [z.pipe EXCEPT !.toClient = Tail(@)],
           y.server = z.server, y.here = z.here, y.there = z.there
    PROVE  Progress(y)
  <1>1. z.client \in Clients /\ z.pipe \in Pipes
    BY DEF Views
  <1>2. y.client.pc = "down" /\ y.client.vv = Head(z.pipe.toClient).vv /\ y.client.out = z.client.out
    BY <1>1 DEF Clients
  <1>3. /\ y.pipe.toClient = Tail(z.pipe.toClient) /\ y.pipe.toServer = z.pipe.toServer
        /\ y.pipe.closed = z.pipe.closed
    BY <1>1 DEF Pipes
  <1>4. /\ Head(Down(z)) = Head(z.pipe.toClient) /\ Down(y) = Tail(Down(z)) /\ Down(z) # <<>>
        /\ Up(y) = Up(z)
    BY <1>2, <1>3, DownTaken DEF Up
  <1>5. Greeted(z)
    BY <1>4 DEF Progress, Unread, Unheard
  <1>6. Serving(y, Down(y), y.client.vv)
    BY <1>2, <1>4, <1>5 DEF Greeted, Serving, OpenUp, OpenDown, Beside
  <1>7. Covers(y.here, y.client.mine) /\ ~ y.pipe.closed
    BY <1>3 DEF Progress, Beside
  <1>. QED
    BY <1>2, <1>6, <1>7 DEF Progress

LEMMA ClientMergesOn ==
    ASSUME NEW z \in Views, NEW y \in Views, Progress(z), Beside(z, y),
           z.client.pc = "down", z.pipe.toClient # <<>>, Head(z.pipe.toClient).kind = "events",
           y.client = z.client, y.server = z.server,
           y.pipe = [z.pipe EXCEPT !.toClient = Tail(@)],
           y.here = z.here \cup Head(z.pipe.toClient).event, z.there \subseteq y.there
    PROVE  Progress(y)
  <1>1. z.pipe \in Pipes
    BY DEF Views
  <1>2. /\ y.pipe.toClient = Tail(z.pipe.toClient) /\ y.pipe.toServer = z.pipe.toServer
        /\ y.pipe.closed = z.pipe.closed
    BY <1>1 DEF Pipes
  <1>3. /\ Head(Down(z)) = Head(z.pipe.toClient) /\ Down(y) = Tail(Down(z)) /\ Down(z) # <<>>
        /\ Up(y) = Up(z) /\ Down(z) \in Seq(Frames)
    BY <1>2, DownTaken DEF Up
  <1>4. Serving(z, Down(z), z.client.vv)
    BY DEF Progress
  <1>5. z.here \cup Carried(Down(z)) = y.here \cup Carried(Down(y))
    BY <1>3, CarriedFirst
  <1>6. /\ Streaming(Down(z)) => Streaming(Down(y))
        /\ Closing(Down(z)) => Closing(Down(y))
    BY <1>3, CarriedFirst
  <1>7. Covers(y.there, z.client.vv)
    BY <1>4, CoversMore DEF Serving
  <1>8. Serving(y, Down(y), y.client.vv)
    BY <1>3, <1>4, <1>5, <1>6, <1>7 DEF Serving, OpenUp, OpenDown, Beside
  <1>9. Covers(y.here, y.client.mine) /\ ~ y.pipe.closed
    BY <1>2, CoversMore DEF Progress
  <1>. QED
    BY <1>8, <1>9 DEF Progress

\* What one end holds and the other announced to lack, and what the other was known to have.
LEMMA Queried ==
    ASSUME NEW here, NEW there, NEW mine \in Vector, NEW vv \in Vector,
           Covers(here, mine), Covers(there, vv)
    PROVE  Covers(there \cup {e \in here : e.seq > vv[e.node]}, mine)
  <1>1. ASSUME NEW a \in Nodes, NEW i \in 1..mine[a]
        PROVE  [node |-> a, seq |-> i] \in there \cup {e \in here : e.seq > vv[e.node]}
    <2>1. mine[a] \in Nat /\ vv[a] \in Nat
      BY DEF Vector
    <2>2. [node |-> a, seq |-> i] \in here
      BY DEF Covers
    <2>3. i <= vv[a] => [node |-> a, seq |-> i] \in there
      BY <2>1 DEF Covers
    <2>. QED
      BY <2>1, <2>2, <2>3
  <1>. QED
    BY <1>1 DEF Covers

LEMMA AckedOn ==
    ASSUME NEW z \in Views, NEW y \in Views, Progress(z), Beside(z, y),
           z.client.pc = "down", z.client.out = <<>>,
           z.pipe.toClient # <<>>, Head(z.pipe.toClient).kind = "ack",
           NEW q, ToSet(q) = {e \in z.here : e.seq > z.client.vv[e.node]},
           y.client = [z.client EXCEPT !.pc = "stream", !.rest = q],
           y.pipe = [z.pipe EXCEPT !.toClient = Tail(@)],
           y.server = z.server, y.here = z.here, y.there = z.there
    PROVE  Progress(y)
  <1>1. z.client \in Clients /\ z.pipe \in Pipes
    BY DEF Views
  <1>2. /\ y.client.pc = "stream" /\ y.client.vv = z.client.vv /\ y.client.out = z.client.out
        /\ y.client.rest = q
    BY <1>1 DEF Clients
  <1>3. /\ y.pipe.toClient = Tail(z.pipe.toClient) /\ y.pipe.toServer = z.pipe.toServer
        /\ y.pipe.closed = z.pipe.closed
    BY <1>1 DEF Pipes
  <1>4. /\ Head(Down(z)) = Head(z.pipe.toClient) /\ Down(y) = Tail(Down(z)) /\ Down(z) # <<>>
        /\ Up(y) = Up(z) /\ Down(z) \in Seq(Frames)
    BY <1>2, <1>3, DownTaken DEF Up
  <1>5. Serving(z, Down(z), z.client.vv)
    BY DEF Progress
  <1>6. z.server.pc = "up" /\ Down(y) = <<>> /\ Covers(z.here, z.client.vv)
    <2>1. ~ Streaming(Down(z)) /\ (Closing(Down(z)) => Down(y) = <<>> /\ Carried(Down(z)) = {})
      BY <1>4, CarriedFirst
    <2>2. z.server.pc = "up" /\ Closing(Down(z)) /\ Covers(z.here \cup Carried(Down(z)), z.client.vv)
      BY <1>4, <1>5, <2>1 DEF Serving
    <2>3. z.here \cup Carried(Down(z)) = z.here
      BY <2>1, <2>2
    <2>. QED
      BY <2>1, <2>2, <2>3
  <1>7. y.server.out = <<>>
    <2>1. y.pipe.toClient \in Seq(Frames) /\ y.server.out \in Seq(Frames)
      BY ViewFacts
    <2>. QED
      BY <1>6, <2>1, NothingLeft DEF Down
  <1>8. Streaming(Up(y)) /\ Carried(Up(y)) = {}
    BY <1>4, <1>5 DEF Serving, Streaming, Carried
  <1>9. Covers(y.there \cup Carried(Up(y)) \cup ToSet(y.client.rest), y.client.mine)
    <2>1. Covers(z.there \cup ToSet(q), z.client.mine)
      <3>1. /\ z.client.mine \in Vector /\ z.client.vv \in Vector
            /\ Covers(z.here, z.client.mine) /\ Covers(z.there, z.client.vv)
        BY <1>5, ViewFacts DEF Progress, Serving
      <3>2. Covers(z.there \cup {e \in z.here : e.seq > z.client.vv[e.node]}, z.client.mine)
        BY <3>1, Queried
      <3>. QED
        BY <3>2
    <2>2. y.there \cup Carried(Up(y)) \cup ToSet(y.client.rest) = z.there \cup ToSet(q)
      BY <1>2, <1>8
    <2>. QED
      BY <2>1, <2>2 DEF Beside
  <1>10. Answering(y)
    BY <1>2, <1>5, <1>6, <1>7, <1>8, <1>9 DEF Answering, Serving, OpenUp, Beside
  <1>11. Covers(y.here, y.client.mine) /\ Covers(y.here, y.client.vv) /\ ~ y.pipe.closed
    BY <1>2, <1>3, <1>6 DEF Progress, Beside
  <1>. QED
    BY <1>2, <1>10, <1>11 DEF Progress

LEMMA RestFirst ==
    ASSUME NEW S, NEW q \in Seq(S), q # <<>>
    PROVE  ToSet(q) = {Head(q)} \cup ToSet(Tail(q))
  <1>1. /\ Len(q) \in Nat \ {0} /\ DOMAIN q = 1..Len(q) /\ DOMAIN Tail(q) = 1..(Len(q) - 1)
        /\ \A i \in 1..(Len(q) - 1) : Tail(q)[i] = q[i + 1]
        /\ Head(q) = q[1]
    OBVIOUS
  <1>2. PICK r : r = Tail(q)
    OBVIOUS
  <1>3. ASSUME NEW i \in DOMAIN q PROVE q[i] \in {Head(q)} \cup ToSet(r)
    <2>1. CASE i = 1
      BY <1>1, <2>1
    <2>2. CASE i # 1
      <3>1. i - 1 \in DOMAIN r /\ r[i - 1] = q[i]
        BY <1>1, <1>2, <2>2
      <3>. QED
        BY <3>1 DEF ToSet
    <2>. QED
      BY <2>1, <2>2
  <1>4. ASSUME NEW i \in DOMAIN r PROVE r[i] \in ToSet(q)
    <2>1. i + 1 \in DOMAIN q /\ r[i] = q[i + 1]
      BY <1>1, <1>2
    <2>. QED
      BY <2>1 DEF ToSet
  <1>5. Head(q) \in ToSet(q)
    <2>1. 1 \in DOMAIN q
      BY <1>1
    <2>. QED
      BY <1>1, <2>1 DEF ToSet
  <1>6. ToSet(q) \subseteq {Head(q)} \cup ToSet(r)
    BY <1>3 DEF ToSet
  <1>7. ToSet(r) \subseteq ToSet(q)
    BY <1>4 DEF ToSet
  <1>. QED
    BY <1>2, <1>5, <1>6, <1>7

LEMMA ClientStreamsOn ==
    ASSUME NEW z \in Views, NEW y \in Views, Progress(z), Beside(z, y),
           z.client.pc = "stream", z.client.out = <<>>, z.client.rest # <<>>,
           NEW outs \in Seq(Frames),
           OpenUp(z) => Streaming(outs) /\ Head(z.client.rest) \in Carried(outs),
           y.client = [z.client EXCEPT !.rest = Tail(@), !.out = outs],
           y.server = z.server, y.pipe = z.pipe, y.here = z.here, y.there = z.there
    PROVE  Progress(y)
  <1>1. z.client \in Clients
    BY DEF Views
  <1>2. /\ y.client.pc = "stream" /\ y.client.vv = z.client.vv /\ y.client.out = outs
        /\ y.client.rest = Tail(z.client.rest)
    BY <1>1 DEF Clients
  <1>3. /\ z.server.pc = "up" /\ z.server.out = <<>> /\ OpenUp(z) /\ Streaming(Up(z))
        /\ Covers(z.there \cup Carried(Up(z)) \cup ToSet(z.client.rest), z.client.mine)
    BY DEF Progress, Answering
  <1>4. Up(z) = z.pipe.toServer /\ z.pipe.toServer \in Seq(Frames) /\ z.client.rest \in Seq(Event)
    BY ViewFacts
  <1>5. Up(y) = Up(z) \o outs
    BY <1>2, <1>4 DEF Up
  <1>6. Streaming(Up(y)) /\ Carried(Up(y)) = Carried(Up(z)) \cup Carried(outs)
    BY <1>3, <1>4, <1>5, CarriedBoth
  <1>7. ToSet(z.client.rest) = {Head(z.client.rest)} \cup ToSet(y.client.rest)
    BY <1>2, <1>4, RestFirst
  <1>8. Covers(y.there \cup Carried(Up(y)) \cup ToSet(y.client.rest), y.client.mine)
    <2>1. z.there \cup Carried(Up(z)) \cup ToSet(z.client.rest)
            \subseteq y.there \cup Carried(Up(y)) \cup ToSet(y.client.rest)
      BY <1>3, <1>6, <1>7
    <2>. QED
      BY <1>3, <2>1, CoversMore DEF Beside
  <1>9. Answering(y)
    BY <1>2, <1>3, <1>6, <1>8 DEF Answering, OpenUp, Beside
  <1>10. Covers(y.here, y.client.mine) /\ Covers(y.here, y.client.vv) /\ ~ y.pipe.closed
    BY <1>2 DEF Progress, Beside
  <1>. QED
    BY <1>2, <1>9, <1>10 DEF Progress

LEMMA ClientAcksOn ==
    ASSUME NEW z \in Views, NEW y \in Views, Progress(z), Beside(z, y),
           z.client.pc = "stream", z.client.out = <<>>, z.client.rest = <<>>,
           NEW f \in Frames, f.kind = "ack", NEW outs \in Seq(Frames), OpenUp(z) => outs = <<f>>,
           y.client = [z.client EXCEPT !.pc = "close", !.out = outs],
           y.server = z.server, y.pipe = z.pipe, y.here = z.here, y.there = z.there
    PROVE  Progress(y)
  <1>1. z.client \in Clients
    BY DEF Views
  <1>2. y.client.pc = "close" /\ y.client.vv = z.client.vv /\ y.client.out = outs
    BY <1>1 DEF Clients
  <1>3. /\ z.server.pc = "up" /\ z.server.out = <<>> /\ OpenUp(z) /\ Streaming(Up(z))
        /\ Covers(z.there \cup Carried(Up(z)) \cup ToSet(z.client.rest), z.client.mine)
    BY DEF Progress, Answering
  <1>4. Up(z) = z.pipe.toServer /\ z.pipe.toServer \in Seq(Frames)
    BY ViewFacts
  <1>5. Up(y) = Up(z) \o <<f>>
    BY <1>2, <1>3, <1>4 DEF Up
  <1>6. Closing(Up(y)) /\ Carried(Up(y)) = Carried(Up(z))
    BY <1>3, <1>4, <1>5, AckEnds
  <1>7. Covers(y.there \cup Carried(Up(y)), y.client.mine)
    <2>1. ToSet(z.client.rest) = {}
      BY DEF ToSet
    <2>2. z.there \cup Carried(Up(z)) \cup ToSet(z.client.rest) = y.there \cup Carried(Up(y))
      BY <1>6, <2>1
    <2>. QED
      BY <1>3, <2>2 DEF Beside
  <1>8. Answering(y)
    BY <1>2, <1>3, <1>6, <1>7 DEF Answering, OpenUp, Beside
  <1>9. Covers(y.here, y.client.mine) /\ Covers(y.here, y.client.vv) /\ ~ y.pipe.closed
    BY <1>2 DEF Progress, Beside
  <1>. QED
    BY <1>2, <1>8, <1>9 DEF Progress

LEMMA ClosesOn ==
    ASSUME NEW z \in Views, NEW y \in Views, Progress(z), Beside(z, y),
           z.client.pc = "close", z.client.out = <<>>,
           y.client = [z.client EXCEPT !.pc = "wait"], y.pipe = [z.pipe EXCEPT !.closed = TRUE],
           y.server = z.server, y.here = z.here, y.there = z.there
    PROVE  Progress(y)
  <1>1. z.client \in Clients /\ z.pipe \in Pipes
    BY DEF Views
  <1>2. y.client.pc = "wait" /\ y.client.vv = z.client.vv /\ y.client.out = <<>>
    BY <1>1 DEF Clients
  <1>3. Up(y) = Up(z)
    BY <1>1, <1>2 DEF Up, Pipes
  <1>4. Answering(y)
    BY <1>2, <1>3 DEF Progress, Answering, OpenUp, Beside
  <1>. QED
    BY <1>2, <1>4 DEF Progress, Beside

LEMMA DialledOn ==
    ASSUME NEW y \in Views, Covers(y.here, y.client.mine),
           y.client.pc = "welcome", y.server.pc = "hello", y.server.out = <<>>, y.pipe = NoPipe,
           NEW f \in Frames, f.kind = "hello", f.vv = y.client.mine,
           y.client.out = IF OpenUp(y) THEN <<f>> ELSE <<>>
    PROVE  Progress(y)
  <1>1. Up(y) = y.client.out /\ Down(y) = <<>> /\ ~ y.pipe.closed
    <2>1. y.client.out \in Seq(Frames)
      BY ViewFacts
    <2>. QED
      BY <2>1, Fresh, NothingLeft DEF Up, Down
  <1>2. Unread(y)
    BY <1>1 DEF Unread
  <1>. QED
    BY <1>1, <1>2 DEF Progress

LEMMA GreetsOn ==
    ASSUME NEW z \in Views, NEW y \in Views, Progress(z), Beside(z, y),
           z.server.pc = "hello", z.server.out = <<>>, z.pipe.toServer # <<>>,
           NEW f \in Frames, f.kind = "welcome", Covers(z.there, f.vv),
           NEW outs \in Seq(Frames), outs = IF OpenDown(z) THEN <<f>> ELSE <<>>,
           y.server = [z.server EXCEPT !.pc = "since", !.vv = Head(z.pipe.toServer).vv,
                                       !.out = outs],
           y.pipe = [z.pipe EXCEPT !.toServer = Tail(@)],
           y.client = z.client, y.here = z.here, y.there = z.there
    PROVE  Progress(y)
  <1>1. z.server \in Servers /\ z.pipe \in Pipes
    BY DEF Views
  <1>2. y.server.pc = "since" /\ y.server.vv = Head(z.pipe.toServer).vv /\ y.server.out = outs
    BY <1>1 DEF Servers
  <1>3. /\ y.pipe.toServer = Tail(z.pipe.toServer) /\ y.pipe.toClient = z.pipe.toClient
        /\ y.pipe.closed = z.pipe.closed
    BY <1>1 DEF Pipes
  <1>4. /\ Head(Up(z)) = Head(z.pipe.toServer) /\ Up(y) = Tail(Up(z)) /\ Up(z) # <<>>
        /\ Up(z) \in Seq(Frames)
    BY <1>3, UpTaken
  <1>5. z.client.pc = "welcome" /\ Unread(z)
    BY DEF Progress, Greeted, Unheard, Serving, Answering
  <1>6. Up(y) = <<>> /\ OpenUp(z) /\ y.server.vv = y.client.mine
    <2>1. PICK q \in Seq(Frames) : q = Up(z) /\ q # <<>> /\ Len(q) = 1
      BY <1>4, <1>5 DEF Unread
    <2>2. Tail(q) = <<>>
      BY <2>1, OneFrame
    <2>. QED
      BY <1>2, <1>4, <1>5, <2>1, <2>2 DEF Unread
  <1>7. Down(y) = outs
    <2>1. z.pipe.toClient = <<>>
      BY <1>5, ViewFacts DEF Unread
    <2>2. y.server.out \in Seq(Frames)
      BY ViewFacts
    <2>3. <<>> \o outs = outs
      BY <1>2, <2>2, NothingLeft
    <2>. QED
      BY <1>2, <1>3, <2>1, <2>3 DEF Down
  <1>8. CASE OpenDown(z)
    <2>1. Down(y) # <<>> /\ Head(Down(y)) = f /\ Tail(Down(y)) = <<>>
      BY <1>7, <1>8
    <2>2. Serving(y, <<>>, f.vv)
      BY <1>2, <1>6, <1>8 DEF Serving, OpenUp, OpenDown, Beside
    <2>. QED
      BY <1>3, <1>5, <2>1, <2>2 DEF Greeted, Progress
  <1>9. CASE ~ OpenDown(z)
    <2>1. Unheard(y)
      BY <1>2, <1>6, <1>7, <1>9 DEF Unheard, OpenDown, Beside
    <2>. QED
      BY <1>3, <1>5, <2>1 DEF Progress
  <1>. QED
    BY <1>8, <1>9

\* The server goes on with q, the rest of what it sends, as r: the frames o more.
LEMMA ServesOn ==
    ASSUME NEW z \in Views, NEW y \in Views, Progress(z), Beside(z, y),
           z.server.pc \in {"since", "stream"},
           NEW o \in Seq(Frames), Down(y) = Down(z) \o o, ~ OpenDown(z) => o = <<>>,
           \A q \in Seq(Frames), w \in Vector : Serving(z, q, w) => Serving(y, q \o o, w),
           y.server.pc \in {"stream", "up"},
           y.pipe = z.pipe, y.client = z.client, y.here = z.here, y.there = z.there
    PROVE  Progress(y)
  <1>1. Down(z) \in Seq(Frames) /\ Up(y) = Up(z)
    BY ViewFacts DEF Up
  <1>2. \/ z.client.pc = "welcome" /\ (Greeted(z) \/ Unheard(z))
        \/ z.client.pc = "down" /\ Serving(z, Down(z), z.client.vv)
    BY DEF Progress, Unread, Answering
  <1>3. ASSUME Greeted(z) PROVE Greeted(y)
    <2>1. PICK d \in Seq(Frames) : d = Down(z) /\ d # <<>>
      BY <1>1, <1>3 DEF Greeted
    <2>2. /\ Head(d \o o) = Head(d) /\ Tail(d \o o) = Tail(d) \o o /\ d \o o # <<>>
          /\ Head(d) \in Frames /\ Tail(d) \in Seq(Frames)
      BY <2>1, TakenFromFront
    <2>3. Head(d).vv \in Vector
      BY <2>2 DEF Frames, Frame
    <2>4. Serving(y, Tail(d) \o o, Head(d).vv)
      BY <1>3, <2>1, <2>2, <2>3 DEF Greeted
    <2>. QED
      BY <1>3, <2>1, <2>2, <2>4 DEF Greeted
  <1>4. ASSUME Unheard(z) PROVE Unheard(y)
    BY <1>1, <1>4 DEF Unheard, OpenDown, Beside
  <1>5. z.client.vv \in Vector
    BY ViewFacts
  <1>. QED
    BY <1>1, <1>2, <1>3, <1>4, <1>5 DEF Progress

LEMMA CollectsOn ==
    ASSUME NEW z \in Views, NEW y \in Views, Progress(z), Beside(z, y),
           z.server.pc = "since",
           NEW rest, ToSet(rest) = {e \in z.there : e.seq > z.server.vv[e.node]},
           y.server = [z.server EXCEPT !.pc = "stream", !.rest = rest],
           y.pipe = z.pipe, y.client = z.client, y.here = z.here, y.there = z.there
    PROVE  Progress(y)
  <1>1. z.server \in Servers
    BY DEF Views
  <1>2. /\ y.server.pc = "stream" /\ y.server.vv = z.server.vv /\ y.server.rest = rest
        /\ y.server.out = z.server.out
    BY <1>1 DEF Servers
  <1>3. Up(y) = Up(z) /\ Down(y) = Down(z) /\ Down(z) \in Seq(Frames)
    BY <1>2, ViewFacts DEF Up, Down
  <1>4. <<>> \in Seq(Frames) /\ Down(y) = Down(z) \o <<>>
    BY <1>3, NothingLeft
  <1>5. ASSUME NEW q \in Seq(Frames), NEW w \in Vector, Serving(z, q, w)
        PROVE  Serving(y, q \o <<>>, w)
    <2>1. q = <<>> /\ q \o <<>> = q /\ z.server.vv = z.client.mine /\ Covers(z.there, w)
      BY <1>5 DEF Serving
    <2>2. Streaming(q) /\ Carried(q) = {}
      BY <2>1 DEF Streaming, Carried
    <2>3. Covers(z.here \cup {e \in z.there : e.seq > z.client.mine[e.node]}, w)
      <3>1. /\ z.client.mine \in Vector
            /\ Covers(z.here, z.client.mine) /\ Covers(z.there, w)
        BY <2>1, ViewFacts DEF Progress
      <3>. QED
        BY <3>1, Queried
    <2>4. Covers(y.here \cup Carried(q) \cup ToSet(y.server.rest), w)
      <3>1. z.here \cup {e \in z.there : e.seq > z.client.mine[e.node]}
              = y.here \cup Carried(q) \cup ToSet(y.server.rest)
        BY <1>2, <2>1, <2>2
      <3>. QED
        BY <2>3, <3>1
    <2>. QED
      BY <1>2, <1>3, <1>5, <2>1, <2>2, <2>4 DEF Serving, OpenUp, OpenDown, Beside
  <1>. QED
    BY <1>2, <1>4, <1>5, ServesOn

LEMMA ServerStreamsOn ==
    ASSUME NEW z \in Views, NEW y \in Views, Progress(z), Beside(z, y),
           z.server.pc = "stream", z.server.out = <<>>, z.server.rest # <<>>,
           NEW outs \in Seq(Frames), ~ OpenDown(z) => outs = <<>>,
           OpenDown(z) => Streaming(outs) /\ Head(z.server.rest) \in Carried(outs),
           y.server = [z.server EXCEPT !.rest = Tail(@), !.out = outs],
           y.pipe = z.pipe, y.client = z.client, y.here = z.here, y.there = z.there
    PROVE  Progress(y)
  <1>1. z.server \in Servers
    BY DEF Views
  <1>2. /\ y.server.pc = "stream" /\ y.server.vv = z.server.vv /\ y.server.out = outs
        /\ y.server.rest = Tail(z.server.rest)
    BY <1>1 DEF Servers
  <1>3. /\ Up(y) = Up(z) /\ Down(z) = z.pipe.toClient /\ Down(y) = Down(z) \o outs
        /\ z.server.rest \in Seq(Event)
    BY <1>2, ViewFacts DEF Up, Down
  <1>4. ToSet(z.server.rest) = {Head(z.server.rest)} \cup ToSet(y.server.rest)
    BY <1>2, <1>3, RestFirst
  <1>5. ASSUME NEW q \in Seq(Frames), NEW w \in Vector, Serving(z, q, w)
        PROVE  Serving(y, q \o outs, w)
    <2>1. /\ Streaming(q) /\ OpenDown(z)
          /\ Covers(z.here \cup Carried(q) \cup ToSet(z.server.rest), w)
      BY <1>5 DEF Serving
    <2>2. Streaming(q \o outs) /\ Carried(q \o outs) = Carried(q) \cup Carried(outs)
      BY <2>1, CarriedBoth
    <2>3. z.here \cup Carried(q) \cup ToSet(z.server.rest)
            \subseteq y.here \cup Carried(q \o outs) \cup ToSet(y.server.rest)
      BY <1>4, <2>1, <2>2
    <2>4. Covers(y.here \cup Carried(q \o outs) \cup ToSet(y.server.rest), w)
      BY <2>1, <2>3, CoversMore
    <2>. QED
      BY <1>2, <1>3, <1>5, <2>2, <2>4 DEF Serving, OpenUp, OpenDown, Beside
  <1>. QED
    BY <1>2, <1>3, <1>5, ServesOn

LEMMA ServerAcksOn ==
    ASSUME NEW z \in Views, NEW y \in Views, Progress(z), Beside(z, y),
           z.server.pc = "stream", z.server.out = <<>>, z.server.rest = <<>>,
           NEW f \in Frames, f.kind = "ack", NEW outs \in Seq(Frames),
           outs = IF OpenDown(z) THEN <<f>> ELSE <<>>,
           y.server = [z.server EXCEPT !.pc = "up", !.out = outs],
           y.pipe = z.pipe, y.client = z.client, y.here = z.here, y.there = z.there
    PROVE  Progress(y)
  <1>1. z.server \in Servers
    BY DEF Views
  <1>2. y.server.pc = "up" /\ y.server.vv = z.server.vv /\ y.server.out = outs
    BY <1>1 DEF Servers
  <1>3. Up(y) = Up(z) /\ Down(z) = z.pipe.toClient /\ Down(y) = Down(z) \o outs
    BY <1>2, ViewFacts DEF Up, Down
  <1>4. ASSUME NEW q \in Seq(Frames), NEW w \in Vector, Serving(z, q, w)
        PROVE  Serving(y, q \o outs, w)
    <2>1. /\ Streaming(q) /\ OpenDown(z) /\ outs = <<f>>
          /\ Covers(z.here \cup Carried(q) \cup ToSet(z.server.rest), w)
      BY <1>4 DEF Serving
    <2>2. Closing(q \o outs) /\ Carried(q \o outs) = Carried(q)
      BY <2>1, AckEnds
    <2>3. ToSet(z.server.rest) = {}
      BY DEF ToSet
    <2>4. z.here \cup Carried(q) \cup ToSet(z.server.rest) = y.here \cup Carried(q \o outs)
      BY <2>2, <2>3
    <2>. QED
      BY <1>2, <1>3, <1>4, <2>1, <2>2, <2>4 DEF Serving, OpenUp, OpenDown, Beside
  <1>. QED
    BY <1>2, <1>3, <1>4, ServesOn

LEMMA ServerMergesOn ==
    ASSUME NEW z \in Views, NEW y \in Views, Progress(z), Beside(z, y),
           z.server.pc = "up", z.pipe.toServer # <<>>, Head(z.pipe.toServer).kind = "events",
           y.pipe = [z.pipe EXCEPT !.toServer = Tail(@)],
           y.there = z.there \cup Head(z.pipe.toServer).event, z.here \subseteq y.here,
           y.server = z.server, y.client = z.client
    PROVE  Progress(y)
  <1>1. z.pipe \in Pipes
    BY DEF Views
  <1>2. y.pipe.toServer = Tail(z.pipe.toServer) /\ y.pipe.closed = z.pipe.closed
    BY <1>1 DEF Pipes
  <1>3. /\ Head(Up(z)) = Head(z.pipe.toServer) /\ Up(y) = Tail(Up(z)) /\ Up(z) # <<>>
        /\ Up(z) \in Seq(Frames)
    BY <1>2, UpTaken
  <1>4. z.client.pc \in {"stream", "close", "wait"} /\ Covers(z.here, z.client.vv) /\ Answering(z)
    BY <1>3 DEF Progress, Unread, Greeted, Unheard, Serving
  <1>5. z.there \cup Carried(Up(z)) = y.there \cup Carried(Up(y))
    BY <1>3, CarriedFirst
  <1>6. /\ Streaming(Up(z)) => Streaming(Up(y))
        /\ Closing(Up(z)) => Closing(Up(y))
    BY <1>3, CarriedFirst
  <1>7. Answering(y)
    BY <1>4, <1>5, <1>6 DEF Answering, OpenUp, Beside
  <1>8. Covers(y.here, y.client.mine) /\ Covers(y.here, y.client.vv)
    BY <1>4, CoversMore DEF Progress
  <1>. QED
    BY <1>2, <1>4, <1>7, <1>8 DEF Progress

LEMMA ReturnsOn ==
    ASSUME NEW z \in Views, NEW y \in Views, Progress(z), Beside(z, y),
           z.server.pc = "up",
           \/ z.pipe.toServer # <<>> /\ Head(z.pipe.toServer).kind = "ack"
           \/ z.pipe.toServer = <<>> /\ z.pipe.closed,
           y.server.pc = "ended",
           y.pipe = z.pipe, y.client = z.client, y.here = z.here, y.there = z.there
    PROVE  Progress(y)
  <1>1. CASE z.pipe.toServer = <<>> /\ z.pipe.closed
    <2>1. z.client.pc = "wait" /\ Up(z) = <<>>
      BY <1>1, ViewFacts DEF Progress
    <2>. QED
      BY <2>1 DEF Progress, Answering, Closing
  <1>2. CASE z.pipe.toServer # <<>> /\ Head(z.pipe.toServer).kind = "ack"
    <2>1. /\ Head(Up(z)) = Head(z.pipe.toServer) /\ Up(z) # <<>> /\ Up(z) \in Seq(Frames)
      <3>1. z.pipe.toServer \in Seq(Frames) /\ z.client.out \in Seq(Frames)
        BY ViewFacts
      <3>. DEFINE q == z.pipe.toServer
                  o == z.client.out
      <3>. HIDE DEF q, o
      <3>2. q \in Seq(Frames) /\ o \in Seq(Frames) /\ q # <<>>
        BY <1>2, <3>1 DEF q, o
      <3>3. Head(q \o o) = Head(q) /\ q \o o # <<>>
        BY <3>2, TakenFromFront
      <3>. QED
        BY <3>3, ViewFacts DEF Up, q, o
    <2>2. z.client.pc \in {"stream", "close", "wait"} /\ Covers(z.here, z.client.vv) /\ Answering(z)
      BY <2>1 DEF Progress, Unread, Greeted, Unheard, Serving
    <2>3. ~ Streaming(Up(z)) /\ (Closing(Up(z)) => Carried(Up(z)) = {})
      BY <1>2, <2>1, CarriedFirst
    <2>4. z.client.pc \in {"close", "wait"} /\ Covers(z.there, z.client.mine)
      <3>1. z.client.pc \in {"close", "wait"} /\ Closing(Up(z))
            /\ Covers(z.there \cup Carried(Up(z)), z.client.mine)
        BY <2>2, <2>3 DEF Answering
      <3>2. z.there \cup Carried(Up(z)) = z.there
        BY <2>3, <3>1
      <3>. QED
        BY <3>1, <3>2
    <2>. QED
      BY <2>2, <2>4 DEF Progress, Answering, Beside
  <1>. QED
    BY <1>1, <1>2

-----------------------------------------------------------------------------
(* Sessions: who owns a slot *)

ClientsGoOn ==
    \A n \in Nodes : client'[n].pc # "idle" =>
        /\ client[n].pc # "idle"
        /\ client'[n].slot = client[n].slot /\ client'[n].to = client[n].to
ServersGoOn ==
    \A s \in Sessions : server'[s].pc # "ended" =>
        server[s].pc # "ended" /\ server'[s].at = server[s].at /\ server'[s].peer = server[s].peer

LEMMA OwnedStep ==
    ASSUME TypeInv, \A c \in Nodes : Owned(c), ClientsGoOn, ServersGoOn
    PROVE  \A c \in Nodes : Owned(c)'
  <1>. SUFFICES ASSUME NEW c \in Nodes, client'[c].pc # "idle" PROVE Owned(c)'
    BY DEF Owned
  <1>1. /\ client[c].pc # "idle" /\ client'[c].slot = client[c].slot /\ client'[c].to = client[c].to
        /\ client[c].slot \in Sessions
    BY ClientIs DEF ClientsGoOn
  <1>2. ASSUME NEW d \in Nodes \ {c}, client'[d].pc # "idle" PROVE client'[d].slot # client'[c].slot
    BY <1>1, <1>2 DEF ClientsGoOn, Owned
  <1>3. ASSUME server'[client'[c].slot].pc # "ended"
        PROVE  /\ server'[client'[c].slot].at = client'[c].to
               /\ server'[client'[c].slot].peer = c
    <2>1. /\ server[client[c].slot].pc # "ended"
          /\ server'[client[c].slot].at = server[client[c].slot].at
          /\ server'[client[c].slot].peer = server[client[c].slot].peer
      BY <1>1, <1>3 DEF ServersGoOn
    <2>2. Link(client[c].slot) = <<client[c].to, c>>
      BY <1>1, <2>1 DEF Owned
    <2>. QED
      BY <1>1, <2>1, <2>2 DEF Link
  <1>. QED
    BY <1>2, <1>3 DEF Owned, Link

LEMMA ClientOwns ==
    ASSUME TypeInv, NEW c \in Nodes, ClientStep(c)
    PROVE  ClientsGoOn /\ ServersGoOn
  <1>1. client \in [Nodes -> Clients] /\ client[c] \in Clients
    BY ClientIs DEF TypeInv, ClientsFit
  <1>2. ServersGoOn
    BY DEF ServersGoOn, ClientStep, ClientSends, Welcomed, ClientMerges, Acked, ClientStreams,
           ClientAcks, CloseSend, Finish, GiveUp
  <1>3. \/ client' = client
        \/ client' = [client EXCEPT ![c] = NoClient]
        \/ \E x \in Clients : /\ client' = [client EXCEPT ![c] = x]
                              /\ x.slot = client[c].slot /\ x.to = client[c].to
                              /\ client[c].pc # "idle"
    <2>1. CASE ClientMerges(c) \/ Finish(c) \/ GiveUp(c)
      BY <2>1 DEF ClientMerges, Finish, GiveUp
    <2>2. CASE ~ (ClientMerges(c) \/ Finish(c) \/ GiveUp(c))
      <3>1. client[c].pc # "idle"
        BY <2>2 DEF ClientStep, ClientSends, Welcomed, Acked, ClientStreams, ClientAcks, CloseSend, Reads
      <3>2. client' = [client EXCEPT ![c] = client'[c]]
        BY <1>1, <2>2 DEF ClientStep, ClientSends, Welcomed, Acked, ClientStreams, ClientAcks, CloseSend
      <3>3. client'[c].slot = client[c].slot /\ client'[c].to = client[c].to
        BY <1>1, <2>2 DEF ClientStep, ClientSends, Welcomed, Acked, ClientStreams, ClientAcks, CloseSend,
                          Clients
      <3>4. client'[c] \in Clients
        <4>1. TypeInv'
          BY TypeNext DEF Next
        <4>. QED
          BY <4>1 DEF TypeInv, ClientsFit
      <3>. QED
        BY <3>1, <3>2, <3>3, <3>4
    <2>. QED
      BY <2>1, <2>2
  <1>. QED
    BY <1>1, <1>2, <1>3, Fresh DEF ClientsGoOn

LEMMA ServerOwns ==
    ASSUME TypeInv, NEW s \in Sessions, ServerStep(s)
    PROVE  ClientsGoOn /\ ServersGoOn
  <1>1. server \in [Sessions -> Servers] /\ server[s] \in Servers
    BY ServerIs DEF TypeInv, ServersFit
  <1>2. ClientsGoOn
    BY DEF ClientsGoOn, ServerStep, ServerSends, Greet, Collect, ServerStreams, ServerAcks,
           ServerMerges, ServerReturns, ServerFails
  <1>3. \A r \in Sessions \ {s} : server'[r] = server[r]
    BY <1>1 DEF ServerStep, ServerSends, Greet, Collect, ServerStreams, ServerAcks,
                ServerMerges, ServerReturns, ServerFails
  <1>4. CASE ServerReturns(s) \/ ServerFails(s)
    <2>1. [NoServer EXCEPT !.err = TRUE].pc = "ended"
      BY Fresh DEF Servers
    <2>2. server'[s].pc = "ended"
      BY <1>1, <1>4, <2>1, Fresh DEF ServerReturns, ServerFails
    <2>. QED
      BY <1>2, <1>3, <2>2 DEF ServersGoOn
  <1>5. CASE ~ (ServerReturns(s) \/ ServerFails(s))
    <2>1. server[s].pc # "ended"
      BY <1>5 DEF ServerStep, ServerSends, Greet, Collect, ServerStreams, ServerAcks, ServerMerges,
                  Listens, Ended
    <2>2. server'[s].at = server[s].at /\ server'[s].peer = server[s].peer
      BY <1>1, <1>5 DEF ServerStep, ServerSends, Greet, Collect, ServerStreams, ServerAcks,
                        ServerMerges, Servers
    <2>. QED
      BY <1>2, <1>3, <2>1, <2>2 DEF ServersGoOn
  <1>. QED
    BY <1>4, <1>5

\* A slot that is dialled belongs to nobody else.
LEMMA DialOwns ==
    ASSUME TypeInv, \A c \in Nodes : Owned(c), NEW c \in Nodes, NEW t \in Nodes, Dial(c, t)
    PROVE  /\ \A d \in Nodes : Owned(d)'
           /\ \A d \in Nodes \ {c} : client[d].pc # "idle" => client[d].slot # Min(Unused)
  <1>. DEFINE s == Min(Unused)
  <1>1. s \in Unused /\ s \in Sessions
    BY SlotChosen DEF Dial, Unused
  <1>2. \A d \in Nodes : client[d].pc # "idle" => client[d].slot # s
    BY <1>1 DEF Unused, Idle
  <1>. HIDE DEF s
  <1>3. /\ \A d \in Nodes \ {c} : client'[d] = client[d]
        /\ client'[c].slot = s /\ client'[c].to = t
    <2>1. PICK o : client' = [client EXCEPT ![c] = [NoClient EXCEPT
                      !.pc = "welcome", !.slot = s, !.to = t, !.mine = VersionVector(c), !.out = o]]
      BY DEF Dial, s
    <2>2. client \in [Nodes -> Clients]
      BY DEF TypeInv, ClientsFit
    <2>. QED
      BY <2>1, <2>2, Fresh DEF Clients
  <1>4. /\ \A r \in Sessions \ {s} : server'[r] = server[r]
        /\ server'[s].at = t /\ server'[s].peer = c
    <2>1. server' = [server EXCEPT ![s] = [NoServer EXCEPT !.pc = "hello", !.at = t, !.peer = c]]
      BY DEF Dial, Connect, s
    <2>2. server \in [Sessions -> Servers]
      BY DEF TypeInv, ServersFit
    <2>. QED
      BY <1>1, <2>1, <2>2, Fresh DEF Servers
  <1>5. ASSUME NEW d \in Nodes, client'[d].pc # "idle" PROVE Owned(d)'
    <2>1. CASE d = c
      <3>1. ASSUME NEW e \in Nodes \ {c}, client'[e].pc # "idle" PROVE client'[e].slot # client'[c].slot
        BY <1>2, <1>3, <3>1
      <3>. QED
        BY <1>3, <1>4, <2>1, <3>1 DEF Owned, Link
    <2>2. CASE d # c
      <3>1. client'[d] = client[d] /\ client[d].slot # s /\ client[d].slot \in Sessions
        BY <1>2, <1>3, <1>5, <2>2, ClientIs
      <3>2. server'[client[d].slot] = server[client[d].slot]
        BY <1>4, <3>1
      <3>3. ASSUME NEW e \in Nodes \ {d}, client'[e].pc # "idle" PROVE client'[e].slot # client[d].slot
        BY <1>3, <1>5, <3>1, <3>3 DEF Owned
      <3>. QED
        BY <1>5, <3>1, <3>2, <3>3 DEF Owned, Link
    <2>. QED
      BY <2>1, <2>2
  <1>6. ASSUME NEW d \in Nodes, client'[d].pc = "idle" PROVE Owned(d)'
    BY <1>6 DEF Owned
  <1>. QED
    BY <1>2, <1>5, <1>6 DEF s

LEMMA OwnedNext ==
    ASSUME TypeInv, \A c \in Nodes : Owned(c), [Next]_vars
    PROVE  \A c \in Nodes : Owned(c)'
  <1>1. ASSUME NEW c \in Nodes, ClientStep(c) PROVE \A d \in Nodes : Owned(d)'
    BY <1>1, ClientOwns, OwnedStep
  <1>2. ASSUME NEW s \in Sessions, ServerStep(s) PROVE \A d \in Nodes : Owned(d)'
    BY <1>2, ServerOwns, OwnedStep
  <1>3. ASSUME NEW l \in Links, Dial(l[1], l[2]) PROVE \A d \in Nodes : Owned(d)'
    <2>1. l[1] \in Nodes /\ l[2] \in Nodes
      BY DEF Links
    <2>. QED
      BY <1>3, <2>1, DialOwns
  <1>4. ASSUME UNCHANGED <<client, server>> PROVE \A d \in Nodes : Owned(d)'
    BY <1>4 DEF Owned, Link
  <1>5. ASSUME \/ \E c \in Nodes : Timeout(c) \/ Break(c) \/ Operate(c)
               \/ HarnessStep \/ Fire \/ Heal \/ UNCHANGED vars
        PROVE  UNCHANGED <<client, server>>
    BY <1>5 DEF Timeout, Break, Operate, HarnessStep, StartRound, Quiesce, EndRound, Fire, Heal, vars
  <1>. QED
    BY <1>1, <1>2, <1>3, <1>4, <1>5 DEF Next

-----------------------------------------------------------------------------
(* Sessions: what the injector holds back and drops *)

NothingHeld == \A l \in Links : held[l] = <<>>

LEMMA HoldsNothing ==
    ASSUME InjectorFits, Plain, NothingHeld, NEW l, NEW f, NEW o \in Filter(l, f), Filtered(o)
    PROVE  NothingHeld'
  <1>1. \A k \in Links : [held EXCEPT ![l] = <<>>][k] = <<>>
    BY DEF InjectorFits, NothingHeld
  <1>2. o.held = held \/ o.held = [held EXCEPT ![l] = <<>>]
    BY DEF Filter, Plain
  <1>. QED
    BY <1>1, <1>2 DEF NothingHeld, Filtered

LEMMA HeldNext ==
    ASSUME TypeInv, Plain, NothingHeld, [Next]_vars
    PROVE  NothingHeld'
  <1>1. \/ UNCHANGED held
        \/ \E l, f : \E o \in Filter(l, f) : Filtered(o)
    <2>1. ASSUME NEW c \in Nodes, ClientStep(c)
          PROVE  UNCHANGED held \/ \E l, f : \E o \in Filter(l, f) : Filtered(o)
      <3>1. CASE ClientStreams(c) \/ ClientAcks(c)
        BY <3>1 DEF ClientStreams, ClientAcks
      <3>2. CASE ~ (ClientStreams(c) \/ ClientAcks(c))
        BY <2>1, <3>2 DEF ClientStep, ClientSends, Welcomed, ClientMerges, Acked, CloseSend, Finish,
                          GiveUp, injector
      <3>. QED
        BY <3>1, <3>2
    <2>2. ASSUME NEW s \in Sessions, ServerStep(s)
          PROVE  UNCHANGED held \/ \E l, f : \E o \in Filter(l, f) : Filtered(o)
      <3>1. CASE Greet(s) \/ ServerStreams(s) \/ ServerAcks(s)
        BY <3>1 DEF Greet, ServerStreams, ServerAcks
      <3>2. CASE ~ (Greet(s) \/ ServerStreams(s) \/ ServerAcks(s))
        BY <2>2, <3>2 DEF ServerStep, ServerSends, Collect, ServerMerges, ServerReturns, ServerFails,
                          injector
      <3>. QED
        BY <3>1, <3>2
    <2>3. ASSUME NEW c, NEW t, Dial(c, t) PROVE \E l, f : \E o \in Filter(l, f) : Filtered(o)
      BY <2>3 DEF Dial
    <2>4. ASSUME \/ \E c \in Nodes : Timeout(c) \/ Break(c) \/ Operate(c)
                 \/ HarnessStep \/ Fire \/ Heal \/ UNCHANGED vars
          PROVE  UNCHANGED held
      BY <2>4 DEF Timeout, Break, Operate, HarnessStep, StartRound, Quiesce, EndRound, Fire, Heal,
                  vars, injector
    <2>. QED
      BY <2>1, <2>2, <2>3, <2>4 DEF Next
  <1>2. UNCHANGED held => NothingHeld'
    BY DEF NothingHeld
  <1>. QED
    BY <1>1, <1>2, HoldsNothing DEF TypeInv

\* Links change between sessions only, and only where there is a harness.
LEMMA BlockedNext ==
    ASSUME TypeInv, [Next]_vars
    PROVE  /\ UNCHANGED setup
           /\ UNCHANGED blocked
              \/ (setup.transport = "memory" /\ UNCHANGED client /\ \A n \in Nodes : Idle(n))
  <1>1. ASSUME NEW c \in Nodes, ClientStep(c) PROVE UNCHANGED <<setup, blocked>>
    BY <1>1 DEF ClientStep, ClientSends, Welcomed, ClientMerges, Acked, ClientStreams, ClientAcks,
                CloseSend, Finish, GiveUp, injector
  <1>2. ASSUME NEW s \in Sessions, ServerStep(s) PROVE UNCHANGED <<setup, blocked>>
    BY <1>2 DEF ServerStep, ServerSends, Greet, Collect, ServerStreams, ServerAcks, ServerMerges,
                ServerReturns, ServerFails, injector
  <1>3. ASSUME NEW c, NEW t, Dial(c, t) PROVE UNCHANGED <<setup, blocked>>
    BY <1>3 DEF Dial
  <1>4. ASSUME \/ \E c \in Nodes : Timeout(c) \/ Break(c) \/ Operate(c)
               \/ StartRound \/ EndRound \/ UNCHANGED vars
        PROVE  UNCHANGED <<setup, blocked>>
    BY <1>4 DEF Timeout, Break, Operate, StartRound, EndRound, vars, injector
  <1>5. ASSUME Quiesce \/ Fire \/ Heal
        PROVE  /\ UNCHANGED <<setup, client>> /\ setup.transport = "memory"
               /\ \A n \in Nodes : Idle(n)
    BY <1>5 DEF Quiesce, Fire, Heal, Between
  <1>. QED
    BY <1>1, <1>2, <1>3, <1>4, <1>5 DEF Next, HarnessStep

-----------------------------------------------------------------------------
(* Sessions: a step of one leaves the others as they were *)

LEMMA Before ==
    ASSUME TypeInv, NEW c \in Nodes, client[c].pc # "idle"
    PROVE  \E z \in Views :
             /\ z = Session(c) /\ z.me = c /\ z.client = client[c]
             /\ z.server = server[client[c].slot] /\ z.pipe = pipe[client[c].slot]
             /\ z.here = log[c] /\ z.there = log[client[c].to] /\ z.blocked = blocked
  BY ViewIs DEF Session

LEMMA After ==
    ASSUME TypeInv', NEW c \in Nodes, client'[c].pc # "idle"
    PROVE  \E y \in Views :
             /\ y = Session(c)' /\ y.me = c /\ y.client = client'[c]
             /\ y.server = server'[client'[c].slot] /\ y.pipe = pipe'[client'[c].slot]
             /\ y.here = log'[c] /\ y.there = log'[client'[c].to] /\ y.blocked = blocked'
  <1>1. /\ client'[c] \in Clients /\ client'[c].slot \in Sessions /\ client'[c].to \in Nodes
    BY DEF TypeInv, ClientsFit, Links
  <1>2. server'[client'[c].slot] \in Servers /\ pipe'[client'[c].slot] \in Pipes
    BY <1>1 DEF TypeInv, ServersFit
  <1>3. /\ log'[c] \in SUBSET Event /\ log'[client'[c].to] \in SUBSET Event
        /\ blocked' \in SUBSET Links
    BY <1>1 DEF TypeInv, LogsFit, InjectorFits
  <1>4. Session(c)' \in Views
    BY <1>1, <1>2, <1>3 DEF Session, Views
  <1>. QED
    BY <1>4 DEF Session

Apart(d) ==
    /\ client'[d] = client[d]
    /\ client[d].pc # "idle" =>
          /\ server'[client[d].slot] = server[client[d].slot]
          /\ pipe'[client[d].slot] = pipe[client[d].slot]

LEMMA ApartKeeps ==
    ASSUME TypeInv, TypeInv', SessionInv, Plain, UNCHANGED blocked,
           \A n \in Nodes : log[n] \subseteq log'[n],
           NEW d \in Nodes, Apart(d), Live(d)'
    PROVE  Progress(Session(d)')
  <1>1. client'[d] = client[d] /\ client[d].pc # "idle" /\ client[d].to \in Nodes
    BY ClientIs DEF Apart, Live
  <1>2. PICK z \in Views :
          /\ z = Session(d) /\ z.me = d /\ z.client = client[d]
          /\ z.server = server[client[d].slot] /\ z.pipe = pipe[client[d].slot]
          /\ z.here = log[d] /\ z.there = log[client[d].to] /\ z.blocked = blocked
    BY <1>1, Before
  <1>3. PICK y \in Views :
          /\ y = Session(d)' /\ y.me = d /\ y.client = client'[d]
          /\ y.server = server'[client'[d].slot] /\ y.pipe = pipe'[client'[d].slot]
          /\ y.here = log'[d] /\ y.there = log'[client'[d].to] /\ y.blocked = blocked'
    BY <1>1, After
  <1>4. y.client = z.client /\ y.server = z.server /\ y.pipe = z.pipe
    BY <1>1, <1>2, <1>3 DEF Apart
  <1>5. Progress(z)
    BY <1>1, <1>2, <1>3, <1>4 DEF SessionInv, Live
  <1>6. SameSession(z, y)
    BY <1>1, <1>2, <1>3, <1>4 DEF SameSession, Up, Down
  <1>. QED
    BY <1>3, <1>5, <1>6, Stays

-----------------------------------------------------------------------------
(* Sessions: the steps of their clients *)

\* A session that goes on, before and after a step.
Steady(c) ==
    /\ client[c].pc # "idle"
    /\ client'[c].slot = client[c].slot /\ client'[c].to = client[c].to
    /\ pipe[client[c].slot].cancelled => pipe'[client[c].slot].cancelled
    /\ server[client[c].slot].err => server'[client[c].slot].err

LEMMA Onward ==
    ASSUME TypeInv, TypeInv', SessionInv, Plain, NEW c \in Nodes, Live(c)', Steady(c)
    PROVE  \E z \in Views, y \in Views :
             /\ Progress(z) /\ z.me = c /\ z.client = client[c]
             /\ z.server = server[client[c].slot] /\ z.pipe = pipe[client[c].slot]
             /\ z.here = log[c] /\ z.there = log[client[c].to] /\ z.blocked = blocked
             /\ y = Session(c)' /\ y.me = c /\ y.client = client'[c]
             /\ y.server = server'[client[c].slot] /\ y.pipe = pipe'[client[c].slot]
             /\ y.here = log'[c] /\ y.there = log'[client[c].to] /\ y.blocked = blocked'
  <1>1. PICK z \in Views :
          /\ z = Session(c) /\ z.me = c /\ z.client = client[c]
          /\ z.server = server[client[c].slot] /\ z.pipe = pipe[client[c].slot]
          /\ z.here = log[c] /\ z.there = log[client[c].to] /\ z.blocked = blocked
    BY Before DEF Steady
  <1>2. client'[c].pc # "idle"
    BY DEF Live
  <1>3. PICK y \in Views :
          /\ y = Session(c)' /\ y.me = c /\ y.client = client'[c]
          /\ y.server = server'[client'[c].slot] /\ y.pipe = pipe'[client'[c].slot]
          /\ y.here = log'[c] /\ y.there = log'[client'[c].to] /\ y.blocked = blocked'
    BY <1>2, After
  <1>4. Live(c)
    BY <1>2 DEF Live, Steady
  <1>5. Progress(z)
    BY <1>1, <1>4 DEF SessionInv
  <1>. QED
    BY <1>1, <1>3, <1>5 DEF Steady

LEMMA ClientSendsKeeps ==
    ASSUME TypeInv, TypeInv', SessionInv, Plain, NEW c \in Nodes, ClientSends(c), Live(c)'
    PROVE  Progress(Session(c)')
  <1>. DEFINE x == client[c]
              s == x.slot
  <1>1. /\ x \in Clients /\ x.pc # "idle" /\ s \in Sessions /\ pipe[s] \in Pipes
        /\ client \in [Nodes -> Clients] /\ pipe \in [Sessions -> Pipes]
    BY ClientIs DEF TypeInv, ClientsFit, ClientSends
  <1>2. /\ client'[c] = [x EXCEPT !.out = Tail(@)]
        /\ pipe'[s] = [pipe[s] EXCEPT !.toServer = Append(@, Head(x.out))]
        /\ server'[s] = server[s] /\ log' = log /\ blocked' = blocked /\ x.out # <<>>
    BY <1>1 DEF ClientSends, HandOver, injector
  <1>3. client'[c].pc = x.pc /\ client'[c].slot = s /\ client'[c].to = x.to
    BY <1>1, <1>2 DEF Clients
  <1>4. PICK z \in Views, y \in Views :
          /\ Progress(z) /\ z.me = c /\ z.client = x /\ z.server = server[s] /\ z.pipe = pipe[s]
          /\ z.here = log[c] /\ z.there = log[x.to] /\ z.blocked = blocked
          /\ y = Session(c)' /\ y.me = c /\ y.client = client'[c] /\ y.server = server'[s]
          /\ y.pipe = pipe'[s] /\ y.here = log'[c] /\ y.there = log'[x.to] /\ y.blocked = blocked'
    <2>1. Steady(c)
      BY <1>1, <1>2, <1>3 DEF Steady, Pipes
    <2>. QED
      BY <2>1, Onward
  <1>5. /\ y.client.out = Tail(z.client.out) /\ y.client.mine = z.client.mine
        /\ y.client.vv = z.client.vv /\ y.client.rest = z.client.rest
        /\ y.pipe.toServer = Append(z.pipe.toServer, Head(z.client.out))
        /\ y.pipe.toClient = z.pipe.toClient /\ y.pipe.closed = z.pipe.closed
    BY <1>1, <1>2, <1>4 DEF Clients, Pipes
  <1>6. Up(y) = Up(z)
    <2>1. z.client.out # <<>>
      BY <1>2, <1>4
    <2>. QED
      BY <1>5, <2>1, UpSent
  <1>7. SameSession(z, y)
    BY <1>2, <1>3, <1>4, <1>5, <1>6 DEF SameSession, Down
  <1>. QED
    BY <1>4, <1>7, Stays

LEMMA WelcomedKeeps ==
    ASSUME TypeInv, TypeInv', SessionInv, Plain, NEW c \in Nodes, Welcomed(c), Live(c)'
    PROVE  Progress(Session(c)')
  <1>. DEFINE x == client[c]
              s == x.slot
  <1>1. /\ x \in Clients /\ x.pc = "welcome" /\ s \in Sessions /\ pipe[s] \in Pipes
        /\ client \in [Nodes -> Clients] /\ pipe \in [Sessions -> Pipes]
    BY ClientIs DEF TypeInv, ClientsFit, Welcomed, Reads
  <1>2. /\ client'[c] = [x EXCEPT !.pc = "down", !.vv = Head(pipe[s].toClient).vv]
        /\ pipe'[s] = [pipe[s] EXCEPT !.toClient = Tail(@)]
        /\ server'[s] = server[s] /\ log' = log /\ blocked' = blocked
        /\ x.out = <<>> /\ pipe[s].toClient # <<>> /\ Head(pipe[s].toClient).kind = "welcome"
    BY <1>1 DEF Welcomed, Reads, FromServer, Taken, injector
  <1>3. client'[c].pc # "idle" /\ client'[c].slot = s /\ client'[c].to = x.to /\ client'[c].mine = x.mine
    BY <1>1, <1>2 DEF Clients
  <1>4. PICK z \in Views, y \in Views :
          /\ Progress(z) /\ z.me = c /\ z.client = x /\ z.server = server[s] /\ z.pipe = pipe[s]
          /\ z.here = log[c] /\ z.there = log[x.to] /\ z.blocked = blocked
          /\ y = Session(c)' /\ y.me = c /\ y.client = client'[c] /\ y.server = server'[s]
          /\ y.pipe = pipe'[s] /\ y.here = log'[c] /\ y.there = log'[x.to] /\ y.blocked = blocked'
    <2>1. Steady(c)
      BY <1>1, <1>2, <1>3 DEF Steady, Pipes
    <2>. QED
      BY <2>1, Onward
  <1>5. Beside(z, y)
    BY <1>2, <1>3, <1>4 DEF Beside
  <1>6. /\ z.client.pc = "welcome" /\ z.client.out = <<>>
        /\ z.pipe.toClient # <<>> /\ Head(z.pipe.toClient).kind = "welcome"
        /\ y.client = [z.client EXCEPT !.pc = "down", !.vv = Head(z.pipe.toClient).vv]
        /\ y.pipe = [z.pipe EXCEPT !.toClient = Tail(@)]
        /\ y.server = z.server /\ y.here = z.here /\ y.there = z.there
    BY <1>1, <1>2, <1>4
  <1>7. Progress(y)
    BY <1>4, <1>5, <1>6, WelcomedOn
  <1>. QED
    BY <1>4, <1>7

LEMMA ClientMergesKeeps ==
    ASSUME TypeInv, TypeInv', SessionInv, Plain, NEW c \in Nodes, ClientMerges(c), Live(c)'
    PROVE  Progress(Session(c)')
  <1>. DEFINE x == client[c]
              s == x.slot
  <1>1. /\ x \in Clients /\ x.pc = "down" /\ s \in Sessions /\ pipe[s] \in Pipes /\ x.to \in Nodes
        /\ <<c, x.to>> \in Links /\ log \in [Nodes -> SUBSET Event] /\ pipe \in [Sessions -> Pipes]
    BY ClientIs DEF TypeInv, LogsFit, ClientMerges, Reads
  <1>2. /\ client'[c] = x /\ pipe'[s] = [pipe[s] EXCEPT !.toClient = Tail(@)]
        /\ server'[s] = server[s] /\ blocked' = blocked
        /\ log'[c] = log[c] \cup Head(pipe[s].toClient).event /\ log'[x.to] = log[x.to]
        /\ pipe[s].toClient # <<>> /\ Head(pipe[s].toClient).kind = "events"
    BY <1>1 DEF ClientMerges, Reads, FromServer, Taken, injector, Links
  <1>3. PICK z \in Views, y \in Views :
          /\ Progress(z) /\ z.me = c /\ z.client = x /\ z.server = server[s] /\ z.pipe = pipe[s]
          /\ z.here = log[c] /\ z.there = log[x.to] /\ z.blocked = blocked
          /\ y = Session(c)' /\ y.me = c /\ y.client = client'[c] /\ y.server = server'[s]
          /\ y.pipe = pipe'[s] /\ y.here = log'[c] /\ y.there = log'[x.to] /\ y.blocked = blocked'
    <2>1. Steady(c)
      BY <1>1, <1>2 DEF Steady, Pipes
    <2>. QED
      BY <2>1, Onward
  <1>4. Beside(z, y)
    BY <1>2, <1>3 DEF Beside
  <1>5. /\ z.client.pc = "down"
        /\ z.pipe.toClient # <<>> /\ Head(z.pipe.toClient).kind = "events"
        /\ y.client = z.client /\ y.server = z.server
        /\ y.pipe = [z.pipe EXCEPT !.toClient = Tail(@)]
        /\ y.here = z.here \cup Head(z.pipe.toClient).event /\ z.there \subseteq y.there
    BY <1>1, <1>2, <1>3
  <1>6. Progress(y)
    BY <1>3, <1>4, <1>5, ClientMergesOn
  <1>. QED
    BY <1>3, <1>6

LEMMA AckedKeeps ==
    ASSUME TypeInv, TypeInv', SessionInv, Plain, NEW c \in Nodes, Acked(c), Live(c)'
    PROVE  Progress(Session(c)')
  <1>. DEFINE x == client[c]
              s == x.slot
  <1>1. /\ x \in Clients /\ x.pc = "down" /\ s \in Sessions /\ pipe[s] \in Pipes
        /\ client \in [Nodes -> Clients] /\ pipe \in [Sessions -> Pipes]
    BY ClientIs DEF TypeInv, ClientsFit, Acked, Reads
  <1>2. PICK q \in Ordered(Since(c, x.vv)) :
        /\ client'[c] = [x EXCEPT !.pc = "stream", !.rest = q]
        /\ pipe'[s] = [pipe[s] EXCEPT !.toClient = Tail(@)]
        /\ server'[s] = server[s] /\ log' = log /\ blocked' = blocked
        /\ x.out = <<>> /\ pipe[s].toClient # <<>> /\ Head(pipe[s].toClient).kind = "ack"
    BY <1>1 DEF Acked, Reads, FromServer, Taken, injector
  <1>3. client'[c].pc # "idle" /\ client'[c].slot = s /\ client'[c].to = x.to /\ client'[c].mine = x.mine
    BY <1>1, <1>2 DEF Clients
  <1>4. PICK z \in Views, y \in Views :
          /\ Progress(z) /\ z.me = c /\ z.client = x /\ z.server = server[s] /\ z.pipe = pipe[s]
          /\ z.here = log[c] /\ z.there = log[x.to] /\ z.blocked = blocked
          /\ y = Session(c)' /\ y.me = c /\ y.client = client'[c] /\ y.server = server'[s]
          /\ y.pipe = pipe'[s] /\ y.here = log'[c] /\ y.there = log'[x.to] /\ y.blocked = blocked'
    <2>1. Steady(c)
      BY <1>1, <1>2, <1>3 DEF Steady, Pipes
    <2>. QED
      BY <2>1, Onward
  <1>5. Beside(z, y)
    BY <1>2, <1>3, <1>4 DEF Beside
  <1>6. ToSet(q) = {e \in z.here : e.seq > z.client.vv[e.node]}
    <2>1. x.vv \in Vector
      BY <1>1 DEF Clients
    <2>2. ToSet(q) = Since(c, x.vv)
      BY <2>1, SinceFacts DEF TypeInv
    <2>. QED
      BY <1>4, <2>2 DEF Since
  <1>7. /\ z.client.pc = "down" /\ z.client.out = <<>>
        /\ z.pipe.toClient # <<>> /\ Head(z.pipe.toClient).kind = "ack"
        /\ y.client = [z.client EXCEPT !.pc = "stream", !.rest = q]
        /\ y.pipe = [z.pipe EXCEPT !.toClient = Tail(@)]
        /\ y.server = z.server /\ y.here = z.here /\ y.there = z.there
    BY <1>1, <1>2, <1>4
  <1>8. Progress(y)
    BY <1>4, <1>5, <1>6, <1>7, AckedOn
  <1>. QED
    BY <1>4, <1>8

LEMMA ClientStreamsKeeps ==
    ASSUME TypeInv, TypeInv', SessionInv, Plain, NEW c \in Nodes, ClientStreams(c), Live(c)'
    PROVE  Progress(Session(c)')
  <1>. DEFINE x == client[c]
              s == x.slot
              f == Carry("client", Head(x.rest))
  <1>1. /\ x \in Clients /\ x.pc = "stream" /\ s \in Sessions /\ <<c, x.to>> \in Links
        /\ client \in [Nodes -> Clients]
    BY ClientIs DEF TypeInv, ClientsFit, ClientStreams, Reads
  <1>2. PICK o \in Filter(<<c, x.to>>, f) :
        /\ client'[c] = [x EXCEPT !.rest = Tail(@), !.out = o.outs]
        /\ pipe' = pipe /\ server' = server /\ log' = log /\ blocked' = blocked
        /\ x.out = <<>> /\ x.rest # <<>>
    BY <1>1 DEF ClientStreams, Reads
  <1>3. client'[c].pc # "idle" /\ client'[c].slot = s /\ client'[c].to = x.to /\ client'[c].mine = x.mine
    BY <1>1, <1>2 DEF Clients
  <1>4. PICK z \in Views, y \in Views :
          /\ Progress(z) /\ z.me = c /\ z.client = x /\ z.server = server[s] /\ z.pipe = pipe[s]
          /\ z.here = log[c] /\ z.there = log[x.to] /\ z.blocked = blocked
          /\ y = Session(c)' /\ y.me = c /\ y.client = client'[c] /\ y.server = server'[s]
          /\ y.pipe = pipe'[s] /\ y.here = log'[c] /\ y.there = log'[x.to] /\ y.blocked = blocked'
    <2>1. Steady(c)
      BY <1>1, <1>2, <1>3 DEF Steady, Pipes
    <2>. QED
      BY <2>1, Onward
  <1>5. Beside(z, y)
    BY <1>2, <1>3, <1>4 DEF Beside
  <1>6. /\ o.outs \in Seq(Frames)
        /\ OpenUp(z) => Streaming(o.outs) /\ Head(z.client.rest) \in Carried(o.outs)
    <2>1. Head(x.rest) \in Event
      <3>1. x.rest \in Seq(Event)
        BY <1>1 DEF Clients
      <3>. QED
        BY <1>2, <3>1
    <2>2. f \in Frames /\ f.kind = "events" /\ f.event = {Head(x.rest)}
      BY <2>1, FramesMade
    <2>. HIDE DEF f
    <2>. QED
      BY <1>1, <1>4, <2>2, FilterFacts DEF SessionInv, TypeInv, OpenUp
  <1>7. /\ z.client.pc = "stream" /\ z.client.out = <<>> /\ z.client.rest # <<>>
        /\ y.client = [z.client EXCEPT !.rest = Tail(@), !.out = o.outs]
        /\ y.pipe = z.pipe /\ y.server = z.server /\ y.here = z.here /\ y.there = z.there
    BY <1>1, <1>2, <1>4
  <1>8. Progress(y)
    BY <1>4, <1>5, <1>6, <1>7, ClientStreamsOn
  <1>. QED
    BY <1>4, <1>8

LEMMA ClientAcksKeeps ==
    ASSUME TypeInv, TypeInv', SessionInv, Plain, NEW c \in Nodes, ClientAcks(c), Live(c)'
    PROVE  Progress(Session(c)')
  <1>. DEFINE x == client[c]
              s == x.slot
              f == Say("client", "ack", VersionVector(c))
  <1>1. /\ x \in Clients /\ x.pc = "stream" /\ s \in Sessions /\ <<c, x.to>> \in Links
        /\ client \in [Nodes -> Clients]
    BY ClientIs DEF TypeInv, ClientsFit, ClientAcks, Reads
  <1>2. PICK o \in Filter(<<c, x.to>>, f) :
        /\ client'[c] = [x EXCEPT !.pc = "close", !.out = o.outs]
        /\ pipe' = pipe /\ server' = server /\ log' = log /\ blocked' = blocked
        /\ x.out = <<>> /\ x.rest = <<>>
    BY <1>1 DEF ClientAcks, Reads
  <1>3. client'[c].pc # "idle" /\ client'[c].slot = s /\ client'[c].to = x.to /\ client'[c].mine = x.mine
    BY <1>1, <1>2 DEF Clients
  <1>4. PICK z \in Views, y \in Views :
          /\ Progress(z) /\ z.me = c /\ z.client = x /\ z.server = server[s] /\ z.pipe = pipe[s]
          /\ z.here = log[c] /\ z.there = log[x.to] /\ z.blocked = blocked
          /\ y = Session(c)' /\ y.me = c /\ y.client = client'[c] /\ y.server = server'[s]
          /\ y.pipe = pipe'[s] /\ y.here = log'[c] /\ y.there = log'[x.to] /\ y.blocked = blocked'
    <2>1. Steady(c)
      BY <1>1, <1>2, <1>3 DEF Steady, Pipes
    <2>. QED
      BY <2>1, Onward
  <1>5. Beside(z, y)
    BY <1>2, <1>3, <1>4 DEF Beside
  <1>6. f \in Frames /\ f.kind = "ack"
    BY FramesMade, VectorFacts DEF TypeInv
  <1>. HIDE DEF f
  <1>7. o.outs \in Seq(Frames) /\ (OpenUp(z) => o.outs = <<f>>)
    BY <1>1, <1>4, <1>6, FilterFacts DEF SessionInv, TypeInv, OpenUp
  <1>8. /\ z.client.pc = "stream" /\ z.client.out = <<>> /\ z.client.rest = <<>>
        /\ y.client = [z.client EXCEPT !.pc = "close", !.out = o.outs]
        /\ y.pipe = z.pipe /\ y.server = z.server /\ y.here = z.here /\ y.there = z.there
    BY <1>1, <1>2, <1>4
  <1>9. Progress(y)
    BY <1>4, <1>5, <1>6, <1>7, <1>8, ClientAcksOn
  <1>. QED
    BY <1>4, <1>9

LEMMA CloseSendKeeps ==
    ASSUME TypeInv, TypeInv', SessionInv, Plain, NEW c \in Nodes, CloseSend(c), Live(c)'
    PROVE  Progress(Session(c)')
  <1>. DEFINE x == client[c]
              s == x.slot
  <1>1. /\ x \in Clients /\ x.pc = "close" /\ s \in Sessions /\ pipe[s] \in Pipes
        /\ client \in [Nodes -> Clients] /\ pipe \in [Sessions -> Pipes]
    BY ClientIs DEF TypeInv, ClientsFit, CloseSend, Reads
  <1>2. /\ client'[c] = [x EXCEPT !.pc = "wait"] /\ pipe'[s] = [pipe[s] EXCEPT !.closed = TRUE]
        /\ server' = server /\ log' = log /\ blocked' = blocked /\ x.out = <<>>
    BY <1>1 DEF CloseSend, Reads, injector
  <1>3. client'[c].pc # "idle" /\ client'[c].slot = s /\ client'[c].to = x.to /\ client'[c].mine = x.mine
    BY <1>1, <1>2 DEF Clients
  <1>4. PICK z \in Views, y \in Views :
          /\ Progress(z) /\ z.me = c /\ z.client = x /\ z.server = server[s] /\ z.pipe = pipe[s]
          /\ z.here = log[c] /\ z.there = log[x.to] /\ z.blocked = blocked
          /\ y = Session(c)' /\ y.me = c /\ y.client = client'[c] /\ y.server = server'[s]
          /\ y.pipe = pipe'[s] /\ y.here = log'[c] /\ y.there = log'[x.to] /\ y.blocked = blocked'
    <2>1. Steady(c)
      BY <1>1, <1>2, <1>3 DEF Steady, Pipes
    <2>. QED
      BY <2>1, Onward
  <1>5. Beside(z, y)
    BY <1>2, <1>3, <1>4 DEF Beside
  <1>6. /\ z.client.pc = "close" /\ z.client.out = <<>>
        /\ y.client = [z.client EXCEPT !.pc = "wait"] /\ y.pipe = [z.pipe EXCEPT !.closed = TRUE]
        /\ y.server = z.server /\ y.here = z.here /\ y.there = z.there
    BY <1>1, <1>2, <1>4
  <1>7. Progress(y)
    BY <1>4, <1>5, <1>6, ClosesOn
  <1>. QED
    BY <1>4, <1>7

LEMMA DialKeeps ==
    ASSUME TypeInv, TypeInv', SessionInv, Plain, NEW c \in Nodes, NEW t \in Nodes, Dial(c, t)
    PROVE  Progress(Session(c)')
  <1>. DEFINE s == Min(Unused)
              mine == VersionVector(c)
              f == Say("client", "hello", mine)
  <1>1. /\ s \in Sessions /\ <<c, t>> \in Links /\ client \in [Nodes -> Clients]
        /\ server \in [Sessions -> Servers] /\ pipe \in [Sessions -> Pipes]
    BY SlotChosen DEF Dial, Unused, TypeInv, ClientsFit, ServersFit
  <1>2. mine \in Vector /\ f \in Frames /\ f.kind = "hello" /\ f.vv = mine /\ Covers(log[c], mine)
    BY FramesMade, VectorFacts DEF TypeInv
  <1>3. PICK o \in Filter(<<c, t>>, f) :
          /\ Connect(c, t, s)
          /\ client' = [client EXCEPT ![c] = [NoClient EXCEPT
                !.pc = "welcome", !.slot = s, !.to = t, !.mine = mine, !.out = o.outs]]
    BY DEF Dial
  <1>. HIDE DEF s, mine, f
  <1>4. /\ client'[c].pc = "welcome" /\ client'[c].slot = s /\ client'[c].to = t
        /\ client'[c].mine = mine /\ client'[c].out = o.outs
    BY <1>1, <1>3, Fresh DEF Clients
  <1>5. server'[s].pc = "hello" /\ server'[s].out = <<>> /\ pipe'[s] = NoPipe
    BY <1>1, <1>3, Fresh DEF Servers, Connect
  <1>6. PICK y \in Views :
          /\ y = Session(c)' /\ y.me = c /\ y.client = client'[c]
          /\ y.server = server'[client'[c].slot] /\ y.pipe = pipe'[client'[c].slot]
          /\ y.here = log'[c] /\ y.there = log'[client'[c].to] /\ y.blocked = blocked'
    BY <1>4, After
  <1>7. y.client.out = IF OpenUp(y) THEN <<f>> ELSE <<>>
    <2>1. blocked' = blocked
      BY DEF Dial
    <2>2. OpenUp(y) <=> <<c, t>> \notin blocked
      BY <1>4, <1>6, <2>1 DEF OpenUp
    <2>3. /\ <<c, t>> \notin blocked => o.outs = <<f>>
          /\ <<c, t>> \in blocked => o.outs = <<>>
      BY <1>1, <1>2, FilterFacts DEF SessionInv, TypeInv
    <2>. QED
      BY <1>4, <1>6, <2>2, <2>3
  <1>8. Covers(y.here, y.client.mine)
    BY <1>2, <1>4, <1>6 DEF Dial
  <1>. QED
    BY <1>2, <1>4, <1>5, <1>6, <1>7, <1>8, DialledOn

-----------------------------------------------------------------------------
(* Sessions: the steps of their servers *)

LEMMA ServerSendsKeeps ==
    ASSUME TypeInv, TypeInv', SessionInv, Plain, NEW c \in Nodes, client[c].pc # "idle",
           ServerSends(client[c].slot), Live(c)'
    PROVE  Progress(Session(c)')
  <1>. DEFINE x == client[c]
              s == x.slot
              v == server[s]
  <1>1. /\ s \in Sessions /\ v \in Servers /\ pipe[s] \in Pipes
        /\ server \in [Sessions -> Servers] /\ pipe \in [Sessions -> Pipes]
    BY ClientIs DEF TypeInv, ServersFit
  <1>2. /\ server'[s] = [v EXCEPT !.out = Tail(@)]
        /\ pipe'[s] = [pipe[s] EXCEPT !.toClient = Append(@, Head(v.out))]
        /\ client' = client /\ log' = log /\ blocked' = blocked /\ v.out # <<>>
    BY <1>1 DEF ServerSends, HandOver, injector
  <1>3. PICK z \in Views, y \in Views :
          /\ Progress(z) /\ z.me = c /\ z.client = x /\ z.server = v /\ z.pipe = pipe[s]
          /\ z.here = log[c] /\ z.there = log[x.to] /\ z.blocked = blocked
          /\ y = Session(c)' /\ y.me = c /\ y.client = client'[c] /\ y.server = server'[s]
          /\ y.pipe = pipe'[s] /\ y.here = log'[c] /\ y.there = log'[x.to] /\ y.blocked = blocked'
    <2>1. Steady(c)
      BY <1>1, <1>2 DEF Steady, Pipes, Servers
    <2>. QED
      BY <2>1, Onward
  <1>4. Beside(z, y)
    BY <1>2, <1>3 DEF Beside
  <1>5. /\ y.server.out = Tail(z.server.out) /\ y.server.pc = z.server.pc
        /\ y.server.vv = z.server.vv /\ y.server.rest = z.server.rest
        /\ y.pipe.toClient = Append(z.pipe.toClient, Head(z.server.out))
        /\ y.pipe.toServer = z.pipe.toServer /\ y.pipe.closed = z.pipe.closed
    BY <1>1, <1>2, <1>3 DEF Servers, Pipes
  <1>6. Down(y) = Down(z)
    <2>1. z.server.out # <<>>
      BY <1>2, <1>3
    <2>. QED
      BY <1>5, <2>1, DownSent
  <1>7. SameSession(z, y)
    <2>1. /\ y.me = z.me /\ y.blocked = z.blocked /\ y.here = z.here /\ y.there = z.there
          /\ y.client = z.client /\ z.server.out # <<>>
      BY <1>2, <1>3
    <2>2. Up(y) = Up(z)
      BY <1>5, <2>1 DEF Up
    <2>. QED
      BY <1>5, <1>6, <2>1, <2>2 DEF SameSession
  <1>. QED
    BY <1>3, <1>7, Stays

LEMMA GreetKeeps ==
    ASSUME TypeInv, TypeInv', SessionInv, Plain, NEW c \in Nodes, client[c].pc # "idle",
           Greet(client[c].slot), Live(c)'
    PROVE  Progress(Session(c)')
  <1>. DEFINE x == client[c]
              s == x.slot
              v == server[s]
  <1>1. /\ s \in Sessions /\ v \in Servers /\ pipe[s] \in Pipes /\ v.pc = "hello" /\ ~ v.err
        /\ v.at = x.to /\ v.peer = c /\ x.to \in Nodes /\ <<x.to, c>> \in Links
        /\ server \in [Sessions -> Servers] /\ pipe \in [Sessions -> Pipes]
    <2>1. s \in Sessions /\ x.to \in Nodes /\ v.pc = "hello"
      BY ClientIs DEF Greet, Listens
    <2>2. Link(s) = <<x.to, c>> /\ Link(s) \in Links /\ v \in Servers /\ pipe[s] \in Pipes /\ ~ v.err
      BY <2>1, ServerIs DEF SessionInv, Owned
    <2>. QED
      BY <2>1, <2>2 DEF Link, TypeInv, ServersFit
  <1>. DEFINE f == Say("server", "welcome", VersionVector(v.at))
  <1>2. PICK o \in Filter(<<x.to, c>>, f) :
        /\ server'[s] = [v EXCEPT !.pc = "since", !.vv = Head(pipe[s].toServer).vv, !.out = o.outs]
        /\ pipe'[s] = [pipe[s] EXCEPT !.toServer = Tail(@)]
        /\ client' = client /\ log' = log /\ blocked' = blocked
        /\ v.out = <<>> /\ pipe[s].toServer # <<>>
    <2>1. Link(s) = <<x.to, c>>
      BY <1>1 DEF Link
    <2>. QED
      BY <1>1, <2>1 DEF Greet, Listens, FromClient, Received
  <1>3. PICK z \in Views, y \in Views :
          /\ Progress(z) /\ z.me = c /\ z.client = x /\ z.server = v /\ z.pipe = pipe[s]
          /\ z.here = log[c] /\ z.there = log[x.to] /\ z.blocked = blocked
          /\ y = Session(c)' /\ y.me = c /\ y.client = client'[c] /\ y.server = server'[s]
          /\ y.pipe = pipe'[s] /\ y.here = log'[c] /\ y.there = log'[x.to] /\ y.blocked = blocked'
    <2>1. Steady(c)
      BY <1>1, <1>2 DEF Steady, Pipes, Servers
    <2>. QED
      BY <2>1, Onward
  <1>4. Beside(z, y)
    BY <1>2, <1>3 DEF Beside
  <1>5. f \in Frames /\ f.kind = "welcome" /\ Covers(z.there, f.vv)
    BY <1>1, <1>3, FramesMade, VectorFacts DEF TypeInv
  <1>. HIDE DEF f
  <1>6. o.outs \in Seq(Frames) /\ o.outs = IF OpenDown(z) THEN <<f>> ELSE <<>>
    BY <1>1, <1>3, <1>5, FilterFacts DEF SessionInv, TypeInv, OpenDown
  <1>7. /\ z.server.pc = "hello" /\ z.server.out = <<>> /\ z.pipe.toServer # <<>>
        /\ y.server = [z.server EXCEPT !.pc = "since", !.vv = Head(z.pipe.toServer).vv,
                                       !.out = o.outs]
        /\ y.pipe = [z.pipe EXCEPT !.toServer = Tail(@)]
        /\ y.client = z.client /\ y.here = z.here /\ y.there = z.there
    BY <1>1, <1>2, <1>3
  <1>8. Progress(y)
    BY <1>3, <1>4, <1>5, <1>6, <1>7, GreetsOn
  <1>. QED
    BY <1>3, <1>8

LEMMA CollectKeeps ==
    ASSUME TypeInv, TypeInv', SessionInv, Plain, NEW c \in Nodes, client[c].pc # "idle",
           Collect(client[c].slot), Live(c)'
    PROVE  Progress(Session(c)')
  <1>. DEFINE x == client[c]
              s == x.slot
              v == server[s]
  <1>1. /\ s \in Sessions /\ v \in Servers /\ pipe[s] \in Pipes /\ v.pc = "since" /\ ~ v.err
        /\ v.at = x.to /\ v.peer = c /\ x.to \in Nodes /\ <<x.to, c>> \in Links
        /\ server \in [Sessions -> Servers] /\ pipe \in [Sessions -> Pipes]
    <2>1. s \in Sessions /\ x.to \in Nodes /\ v.pc = "since"
      BY ClientIs DEF Collect, Listens
    <2>2. Link(s) = <<x.to, c>> /\ Link(s) \in Links /\ v \in Servers /\ pipe[s] \in Pipes /\ ~ v.err
      BY <2>1, ServerIs DEF SessionInv, Owned
    <2>. QED
      BY <2>1, <2>2 DEF Link, TypeInv, ServersFit
  <1>2. PICK q \in Ordered(Since(x.to, v.vv)) :
        /\ server'[s] = [v EXCEPT !.pc = "stream", !.rest = q]
        /\ pipe' = pipe /\ client' = client /\ log' = log /\ blocked' = blocked
    BY <1>1 DEF Collect, injector
  <1>3. PICK z \in Views, y \in Views :
          /\ Progress(z) /\ z.me = c /\ z.client = x /\ z.server = v /\ z.pipe = pipe[s]
          /\ z.here = log[c] /\ z.there = log[x.to] /\ z.blocked = blocked
          /\ y = Session(c)' /\ y.me = c /\ y.client = client'[c] /\ y.server = server'[s]
          /\ y.pipe = pipe'[s] /\ y.here = log'[c] /\ y.there = log'[x.to] /\ y.blocked = blocked'
    <2>1. Steady(c)
      BY <1>1, <1>2 DEF Steady, Pipes, Servers
    <2>. QED
      BY <2>1, Onward
  <1>4. Beside(z, y)
    BY <1>2, <1>3 DEF Beside
  <1>5. ToSet(q) = {e \in z.there : e.seq > z.server.vv[e.node]}
    <2>1. v.vv \in Vector
      BY <1>1 DEF Servers
    <2>2. ToSet(q) = Since(x.to, v.vv)
      BY <1>1, <2>1, SinceFacts DEF TypeInv
    <2>. QED
      BY <1>3, <2>2 DEF Since
  <1>6. /\ z.server.pc = "since" /\ y.server = [z.server EXCEPT !.pc = "stream", !.rest = q]
        /\ y.pipe = z.pipe /\ y.client = z.client /\ y.here = z.here /\ y.there = z.there
    BY <1>1, <1>2, <1>3
  <1>7. Progress(y)
    BY <1>3, <1>4, <1>5, <1>6, CollectsOn
  <1>. QED
    BY <1>3, <1>7

LEMMA ServerStreamsKeeps ==
    ASSUME TypeInv, TypeInv', SessionInv, Plain, NEW c \in Nodes, client[c].pc # "idle",
           ServerStreams(client[c].slot), Live(c)'
    PROVE  Progress(Session(c)')
  <1>. DEFINE x == client[c]
              s == x.slot
              v == server[s]
  <1>1. /\ s \in Sessions /\ v \in Servers /\ pipe[s] \in Pipes /\ v.pc = "stream" /\ ~ v.err
        /\ v.at = x.to /\ v.peer = c /\ x.to \in Nodes /\ <<x.to, c>> \in Links
        /\ server \in [Sessions -> Servers] /\ pipe \in [Sessions -> Pipes]
    <2>1. s \in Sessions /\ x.to \in Nodes /\ v.pc = "stream"
      BY ClientIs DEF ServerStreams, Listens
    <2>2. Link(s) = <<x.to, c>> /\ Link(s) \in Links /\ v \in Servers /\ pipe[s] \in Pipes /\ ~ v.err
      BY <2>1, ServerIs DEF SessionInv, Owned
    <2>. QED
      BY <2>1, <2>2 DEF Link, TypeInv, ServersFit
  <1>. DEFINE f == Carry("server", Head(v.rest))
  <1>2. PICK o \in Filter(<<x.to, c>>, f) :
        /\ server'[s] = [v EXCEPT !.rest = Tail(@), !.out = o.outs]
        /\ pipe' = pipe /\ client' = client /\ log' = log /\ blocked' = blocked
        /\ v.out = <<>> /\ v.rest # <<>>
    <2>1. Link(s) = <<x.to, c>>
      BY <1>1 DEF Link
    <2>. QED
      BY <1>1, <2>1 DEF ServerStreams, Listens
  <1>3. PICK z \in Views, y \in Views :
          /\ Progress(z) /\ z.me = c /\ z.client = x /\ z.server = v /\ z.pipe = pipe[s]
          /\ z.here = log[c] /\ z.there = log[x.to] /\ z.blocked = blocked
          /\ y = Session(c)' /\ y.me = c /\ y.client = client'[c] /\ y.server = server'[s]
          /\ y.pipe = pipe'[s] /\ y.here = log'[c] /\ y.there = log'[x.to] /\ y.blocked = blocked'
    <2>1. Steady(c)
      BY <1>1, <1>2 DEF Steady, Pipes, Servers
    <2>. QED
      BY <2>1, Onward
  <1>4. Beside(z, y)
    BY <1>2, <1>3 DEF Beside
  <1>5. f \in Frames /\ f.kind = "events" /\ f.event = {Head(v.rest)}
    <2>1. v.rest \in Seq(Event)
      BY <1>1 DEF Servers
    <2>2. Head(v.rest) \in Event
      BY <1>2, <2>1
    <2>. QED
      BY <2>2, FramesMade
  <1>. HIDE DEF f
  <1>6. /\ o.outs \in Seq(Frames) /\ (~ OpenDown(z) => o.outs = <<>>)
        /\ OpenDown(z) => Streaming(o.outs) /\ Head(z.server.rest) \in Carried(o.outs)
    BY <1>1, <1>3, <1>5, FilterFacts DEF SessionInv, TypeInv, OpenDown
  <1>7. /\ z.server.pc = "stream" /\ z.server.out = <<>> /\ z.server.rest # <<>>
        /\ y.server = [z.server EXCEPT !.rest = Tail(@), !.out = o.outs]
        /\ y.pipe = z.pipe /\ y.client = z.client /\ y.here = z.here /\ y.there = z.there
    BY <1>1, <1>2, <1>3
  <1>8. Progress(y)
    BY <1>3, <1>4, <1>6, <1>7, ServerStreamsOn
  <1>. QED
    BY <1>3, <1>8

LEMMA ServerAcksKeeps ==
    ASSUME TypeInv, TypeInv', SessionInv, Plain, NEW c \in Nodes, client[c].pc # "idle",
           ServerAcks(client[c].slot), Live(c)'
    PROVE  Progress(Session(c)')
  <1>. DEFINE x == client[c]
              s == x.slot
              v == server[s]
  <1>1. /\ s \in Sessions /\ v \in Servers /\ pipe[s] \in Pipes /\ v.pc = "stream" /\ ~ v.err
        /\ v.at = x.to /\ v.peer = c /\ x.to \in Nodes /\ <<x.to, c>> \in Links
        /\ server \in [Sessions -> Servers] /\ pipe \in [Sessions -> Pipes]
    <2>1. s \in Sessions /\ x.to \in Nodes /\ v.pc = "stream"
      BY ClientIs DEF ServerAcks, Listens
    <2>2. Link(s) = <<x.to, c>> /\ Link(s) \in Links /\ v \in Servers /\ pipe[s] \in Pipes /\ ~ v.err
      BY <2>1, ServerIs DEF SessionInv, Owned
    <2>. QED
      BY <2>1, <2>2 DEF Link, TypeInv, ServersFit
  <1>. DEFINE f == Say("server", "ack", Zero)
  <1>2. PICK o \in Filter(<<x.to, c>>, f) :
        /\ server'[s] = [v EXCEPT !.pc = "up", !.out = o.outs]
        /\ pipe' = pipe /\ client' = client /\ log' = log /\ blocked' = blocked
        /\ v.out = <<>> /\ v.rest = <<>>
    <2>1. Link(s) = <<x.to, c>>
      BY <1>1 DEF Link
    <2>. QED
      BY <1>1, <2>1 DEF ServerAcks, Listens
  <1>3. PICK z \in Views, y \in Views :
          /\ Progress(z) /\ z.me = c /\ z.client = x /\ z.server = v /\ z.pipe = pipe[s]
          /\ z.here = log[c] /\ z.there = log[x.to] /\ z.blocked = blocked
          /\ y = Session(c)' /\ y.me = c /\ y.client = client'[c] /\ y.server = server'[s]
          /\ y.pipe = pipe'[s] /\ y.here = log'[c] /\ y.there = log'[x.to] /\ y.blocked = blocked'
    <2>1. Steady(c)
      BY <1>1, <1>2 DEF Steady, Pipes, Servers
    <2>. QED
      BY <2>1, Onward
  <1>4. Beside(z, y)
    BY <1>2, <1>3 DEF Beside
  <1>5. f \in Frames /\ f.kind = "ack"
    BY FramesMade
  <1>. HIDE DEF f
  <1>6. o.outs \in Seq(Frames) /\ o.outs = IF OpenDown(z) THEN <<f>> ELSE <<>>
    BY <1>1, <1>3, <1>5, FilterFacts DEF SessionInv, TypeInv, OpenDown
  <1>7. /\ z.server.pc = "stream" /\ z.server.out = <<>> /\ z.server.rest = <<>>
        /\ y.server = [z.server EXCEPT !.pc = "up", !.out = o.outs]
        /\ y.pipe = z.pipe /\ y.client = z.client /\ y.here = z.here /\ y.there = z.there
    BY <1>1, <1>2, <1>3
  <1>8. Progress(y)
    BY <1>3, <1>4, <1>5, <1>6, <1>7, ServerAcksOn
  <1>. QED
    BY <1>3, <1>8

LEMMA ServerMergesKeeps ==
    ASSUME TypeInv, TypeInv', SessionInv, Plain, NEW c \in Nodes, client[c].pc # "idle",
           ServerMerges(client[c].slot), Live(c)'
    PROVE  Progress(Session(c)')
  <1>. DEFINE x == client[c]
              s == x.slot
              v == server[s]
  <1>1. /\ s \in Sessions /\ v \in Servers /\ pipe[s] \in Pipes /\ v.pc = "up" /\ ~ v.err
        /\ v.at = x.to /\ v.peer = c /\ x.to \in Nodes /\ <<x.to, c>> \in Links
        /\ server \in [Sessions -> Servers] /\ pipe \in [Sessions -> Pipes]
    <2>1. s \in Sessions /\ x.to \in Nodes /\ v.pc = "up"
      BY ClientIs DEF ServerMerges, Listens
    <2>2. Link(s) = <<x.to, c>> /\ Link(s) \in Links /\ v \in Servers /\ pipe[s] \in Pipes /\ ~ v.err
      BY <2>1, ServerIs DEF SessionInv, Owned
    <2>. QED
      BY <2>1, <2>2 DEF Link, TypeInv, ServersFit
  <1>2. /\ server' = server /\ client' = client /\ blocked' = blocked
        /\ pipe'[s] = [pipe[s] EXCEPT !.toServer = Tail(@)]
        /\ log'[x.to] = log[x.to] \cup Head(pipe[s].toServer).event /\ log'[c] = log[c]
        /\ pipe[s].toServer # <<>> /\ Head(pipe[s].toServer).kind = "events"
    BY <1>1 DEF ServerMerges, FromClient, Received, injector, Links, TypeInv, LogsFit
  <1>3. PICK z \in Views, y \in Views :
          /\ Progress(z) /\ z.me = c /\ z.client = x /\ z.server = v /\ z.pipe = pipe[s]
          /\ z.here = log[c] /\ z.there = log[x.to] /\ z.blocked = blocked
          /\ y = Session(c)' /\ y.me = c /\ y.client = client'[c] /\ y.server = server'[s]
          /\ y.pipe = pipe'[s] /\ y.here = log'[c] /\ y.there = log'[x.to] /\ y.blocked = blocked'
    <2>1. Steady(c)
      BY <1>1, <1>2 DEF Steady, Pipes, Servers
    <2>. QED
      BY <2>1, Onward
  <1>4. Beside(z, y)
    BY <1>2, <1>3 DEF Beside
  <1>5. /\ z.server.pc = "up"
        /\ z.pipe.toServer # <<>> /\ Head(z.pipe.toServer).kind = "events"
        /\ y.pipe = [z.pipe EXCEPT !.toServer = Tail(@)]
        /\ y.there = z.there \cup Head(z.pipe.toServer).event /\ z.here \subseteq y.here
        /\ y.server = z.server /\ y.client = z.client
    BY <1>1, <1>2, <1>3
  <1>6. Progress(y)
    BY <1>3, <1>4, <1>5, ServerMergesOn
  <1>. QED
    BY <1>3, <1>6

LEMMA ServerReturnsKeeps ==
    ASSUME TypeInv, TypeInv', SessionInv, Plain, NEW c \in Nodes, client[c].pc # "idle",
           ServerReturns(client[c].slot), Live(c)'
    PROVE  Progress(Session(c)')
  <1>. DEFINE x == client[c]
              s == x.slot
              v == server[s]
  <1>1. /\ s \in Sessions /\ v \in Servers /\ pipe[s] \in Pipes /\ v.pc = "up" /\ ~ v.err
        /\ v.at = x.to /\ v.peer = c /\ x.to \in Nodes /\ <<x.to, c>> \in Links
        /\ server \in [Sessions -> Servers] /\ pipe \in [Sessions -> Pipes]
    <2>1. s \in Sessions /\ x.to \in Nodes /\ v.pc = "up"
      BY ClientIs DEF ServerReturns, Listens
    <2>2. Link(s) = <<x.to, c>> /\ Link(s) \in Links /\ v \in Servers /\ pipe[s] \in Pipes /\ ~ v.err
      BY <2>1, ServerIs DEF SessionInv, Owned
    <2>. QED
      BY <2>1, <2>2 DEF Link, TypeInv, ServersFit
  <1>2. /\ server'[s] = NoServer
        /\ pipe' = pipe /\ client' = client /\ log' = log /\ blocked' = blocked
        /\ \/ pipe[s].toServer # <<>> /\ Head(pipe[s].toServer).kind = "ack"
           \/ pipe[s].toServer = <<>> /\ pipe[s].closed
    BY <1>1 DEF ServerReturns, FromClient, injector
  <1>3. PICK z \in Views, y \in Views :
          /\ Progress(z) /\ z.me = c /\ z.client = x /\ z.server = v /\ z.pipe = pipe[s]
          /\ z.here = log[c] /\ z.there = log[x.to] /\ z.blocked = blocked
          /\ y = Session(c)' /\ y.me = c /\ y.client = client'[c] /\ y.server = server'[s]
          /\ y.pipe = pipe'[s] /\ y.here = log'[c] /\ y.there = log'[x.to] /\ y.blocked = blocked'
    <2>1. Steady(c)
      BY <1>1, <1>2 DEF Steady, Pipes, Servers
    <2>. QED
      BY <2>1, Onward
  <1>4. Beside(z, y)
    BY <1>2, <1>3 DEF Beside
  <1>5. /\ z.server.pc = "up" /\ y.server.pc = "ended"
        /\ \/ z.pipe.toServer # <<>> /\ Head(z.pipe.toServer).kind = "ack"
           \/ z.pipe.toServer = <<>> /\ z.pipe.closed
        /\ y.pipe = z.pipe /\ y.client = z.client /\ y.here = z.here /\ y.there = z.there
    BY <1>1, <1>2, <1>3, Fresh
  <1>6. Progress(y)
    BY <1>3, <1>4, <1>5, ReturnsOn
  <1>. QED
    BY <1>3, <1>6

-----------------------------------------------------------------------------
(* Sessions: every step *)

\* What every step has in common.
LEMMA LogsGrow ==
    ASSUME TypeInv, [Next]_vars
    PROVE  \A n \in Nodes : log[n] \subseteq log'[n]
  <1>1. log \in [Nodes -> SUBSET Event]
    BY DEF TypeInv, LogsFit
  <1>2. ASSUME NEW c \in Nodes, ClientStep(c) PROVE \A n \in Nodes : log[n] \subseteq log'[n]
    BY <1>1, <1>2 DEF ClientStep, ClientSends, Welcomed, ClientMerges, Acked, ClientStreams,
                      ClientAcks, CloseSend, Finish, GiveUp
  <1>3. ASSUME NEW s \in Sessions, ServerStep(s) PROVE \A n \in Nodes : log[n] \subseteq log'[n]
    BY <1>1, <1>3 DEF ServerStep, ServerSends, Greet, Collect, ServerStreams, ServerAcks,
                      ServerMerges, ServerReturns, ServerFails
  <1>4. ASSUME NEW n \in Nodes, Operate(n) PROVE \A m \in Nodes : log[m] \subseteq log'[m]
    BY <1>1, <1>4 DEF Operate, AppendLocal
  <1>5. ASSUME \/ \E l \in Links : Dial(l[1], l[2])
               \/ \E c \in Nodes : Timeout(c) \/ Break(c)
               \/ HarnessStep \/ Fire \/ Heal \/ UNCHANGED vars
        PROVE  UNCHANGED log
    BY <1>5 DEF Dial, Timeout, Break, HarnessStep, StartRound, Quiesce, EndRound, Fire, Heal, vars
  <1>. QED
    BY <1>2, <1>3, <1>4, <1>5 DEF Next

LEMMA ClientStepKeeps ==
    ASSUME TypeInv, TypeInv', SessionInv, Plain, [Next]_vars, NEW c \in Nodes, ClientStep(c),
           NEW d \in Nodes, Live(d)'
    PROVE  Progress(Session(d)')
  <1>1. UNCHANGED blocked
    BY DEF ClientStep, ClientSends, Welcomed, ClientMerges, Acked, ClientStreams, ClientAcks,
           CloseSend, Finish, GiveUp, injector
  <1>2. CASE d # c
    <2>1. client'[d] = client[d]
      BY <1>2 DEF ClientStep, ClientSends, Welcomed, ClientMerges, Acked, ClientStreams, ClientAcks,
                  CloseSend, Finish, GiveUp, TypeInv, ClientsFit
    <2>2. client[c].pc # "idle"
      BY DEF ClientStep, ClientSends, Welcomed, ClientMerges, Acked, ClientStreams, ClientAcks,
             CloseSend, Finish, GiveUp, Reads, Succeeds, Idle
    <2>3. client[d].pc # "idle" => client[d].slot \in Sessions /\ client[d].slot # client[c].slot
      BY <1>2, <2>2, ClientIs DEF SessionInv, Owned
    <2>4. server' = server /\ \A r \in Sessions \ {client[c].slot} : pipe'[r] = pipe[r]
      BY DEF ClientStep, ClientSends, Welcomed, ClientMerges, Acked, ClientStreams, ClientAcks,
             CloseSend, Finish, GiveUp, Taken, Cancel, TypeInv
    <2>5. Apart(d)
      BY <2>1, <2>3, <2>4 DEF Apart
    <2>. QED
      BY <1>1, <2>5, ApartKeeps, LogsGrow
  <1>3. CASE d = c
    <2>1. CASE Finish(c) \/ GiveUp(c)
      <3>1. client'[c] = NoClient
        BY <2>1 DEF Finish, GiveUp, TypeInv, ClientsFit
      <3>. QED
        BY <1>3, <3>1, Fresh DEF Live
    <2>2. CASE ~ (Finish(c) \/ GiveUp(c))
      BY <1>3, <2>2, ClientSendsKeeps, WelcomedKeeps, ClientMergesKeeps, AckedKeeps,
         ClientStreamsKeeps, ClientAcksKeeps, CloseSendKeeps DEF ClientStep
    <2>. QED
      BY <2>1, <2>2
  <1>. QED
    BY <1>2, <1>3

LEMMA ServerStepKeeps ==
    ASSUME TypeInv, TypeInv', SessionInv, Plain, [Next]_vars, NEW s \in Sessions, ServerStep(s),
           NEW d \in Nodes, Live(d)'
    PROVE  Progress(Session(d)')
  <1>1. client' = client /\ blocked' = blocked
    BY DEF ServerStep, ServerSends, Greet, Collect, ServerStreams, ServerAcks, ServerMerges,
           ServerReturns, ServerFails, injector
  <1>2. client[d].pc # "idle" /\ client[d].slot \in Sessions
    <2>1. client[d].pc # "idle"
      BY <1>1 DEF Live
    <2>. QED
      BY <2>1, ClientIs
  <1>3. CASE client[d].slot # s
    <2>1. /\ \A r \in Sessions \ {s} : server'[r] = server[r]
          /\ \A r \in Sessions \ {s} : pipe'[r] = pipe[r]
      BY DEF ServerStep, ServerSends, Greet, Collect, ServerStreams, ServerAcks, ServerMerges,
             ServerReturns, ServerFails, Received, TypeInv, ServersFit
    <2>2. Apart(d)
      BY <1>1, <1>2, <1>3, <2>1 DEF Apart
    <2>. QED
      BY <1>1, <2>2, ApartKeeps, LogsGrow
  <1>4. CASE client[d].slot = s
    <2>1. CASE ServerFails(s)
      <3>1. server'[s] = [NoServer EXCEPT !.err = TRUE]
        BY <2>1 DEF ServerFails, TypeInv, ServersFit
      <3>2. server'[s].err
        BY <3>1, Fresh DEF Servers
      <3>. QED
        BY <1>1, <1>4, <3>2 DEF Live
    <2>2. CASE ~ ServerFails(s)
      BY <1>2, <1>4, <2>2, ServerSendsKeeps, GreetKeeps, CollectKeeps, ServerStreamsKeeps,
         ServerAcksKeeps, ServerMergesKeeps, ServerReturnsKeeps DEF ServerStep
    <2>. QED
      BY <2>1, <2>2
  <1>. QED
    BY <1>3, <1>4

LEMMA DialStepKeeps ==
    ASSUME TypeInv, TypeInv', SessionInv, Plain, [Next]_vars, NEW c \in Nodes, NEW t \in Nodes,
           Dial(c, t), NEW d \in Nodes, Live(d)'
    PROVE  Progress(Session(d)')
  <1>1. CASE d = c
    BY <1>1, DialKeeps
  <1>2. CASE d # c
    <2>. DEFINE s == Min(Unused)
    <2>1. client[d].pc # "idle" => client[d].slot \in Sessions /\ client[d].slot # s
      BY <1>2, ClientIs, DialOwns DEF SessionInv
    <2>2. client'[d] = client[d]
      BY <1>2 DEF Dial, TypeInv, ClientsFit
    <2>3. /\ \A r \in Sessions \ {s} : server'[r] = server[r]
          /\ \A r \in Sessions \ {s} : pipe'[r] = pipe[r]
      BY DEF Dial, Connect, TypeInv, ServersFit
    <2>. HIDE DEF s
    <2>4. Apart(d) /\ UNCHANGED blocked
      BY <2>1, <2>2, <2>3 DEF Apart, Dial
    <2>. QED
      BY <2>4, ApartKeeps, LogsGrow
  <1>. QED
    BY <1>1, <1>2

\* A session that is cut off is over, and nothing else happens along it.
LEMMA ExpiryKeeps ==
    ASSUME TypeInv, TypeInv', SessionInv, Plain, [Next]_vars, NEW c \in Nodes,
           Timeout(c) \/ Break(c), NEW d \in Nodes, Live(d)'
    PROVE  Progress(Session(d)')
  <1>1. /\ client' = client /\ server' = server /\ blocked' = blocked /\ client[c].pc # "idle"
        /\ pipe' = [pipe EXCEPT ![client[c].slot].cancelled = TRUE]
    BY DEF Timeout, Break, Expires, Idle, injector
  <1>2. client[d].pc # "idle" /\ client[d].slot \in Sessions
    <2>1. client[d].pc # "idle"
      BY <1>1 DEF Live
    <2>. QED
      BY <2>1, ClientIs
  <1>3. CASE client[d].slot = client[c].slot
    <2>1. pipe[client[d].slot] \in Pipes
      BY <1>2, ClientIs
    <2>2. pipe'[client[d].slot].cancelled
      BY <1>1, <1>2, <1>3, <2>1 DEF TypeInv, Pipes
    <2>. QED
      BY <1>1, <2>2 DEF Live
  <1>4. CASE client[d].slot # client[c].slot
    <2>1. Apart(d)
      BY <1>1, <1>2, <1>4 DEF Apart, TypeInv
    <2>. QED
      BY <1>1, <2>1, ApartKeeps, LogsGrow
  <1>. QED
    BY <1>3, <1>4

LEMMA HarnessKeeps ==
    ASSUME TypeInv, TypeInv', SessionInv, Plain, [Next]_vars,
           \/ \E n \in Nodes : Operate(n)
           \/ HarnessStep \/ Fire \/ Heal \/ UNCHANGED vars,
           NEW d \in Nodes, Live(d)'
    PROVE  Progress(Session(d)')
  <1>1. UNCHANGED <<client, server, pipe>>
    BY DEF Operate, HarnessStep, StartRound, Quiesce, EndRound, Fire, Heal, vars
  <1>2. client[d].pc # "idle"
    BY <1>1 DEF Live
  <1>3. UNCHANGED blocked
    BY <1>2, BlockedNext DEF Idle
  <1>4. Apart(d)
    BY <1>1 DEF Apart
  <1>. QED
    BY <1>3, <1>4, ApartKeeps, LogsGrow

-----------------------------------------------------------------------------
(* The theorem *)

LEMMA SessionInit == Init => SessionInv
  <1>. SUFFICES ASSUME Init PROVE SessionInv
    OBVIOUS
  <1>1. blocked = {} /\ \A l \in Links : held[l] = <<>>
    BY DEF Init
  <1>2. \A c \in Nodes : client[c].pc = "idle"
    BY Fresh DEF Init
  <1>. QED
    BY <1>1, <1>2 DEF SessionInv, Owned, Live

LEMMA SessionNext == TypeInv /\ TypeInv' /\ SessionInv /\ [Next]_vars => SessionInv'
  <1>. SUFFICES ASSUME TypeInv, TypeInv', SessionInv, [Next]_vars PROVE SessionInv'
    OBVIOUS
  <1>1. setup' = setup /\ (setup.transport = "grpc" => blocked' = {})
    BY BlockedNext DEF SessionInv
  <1>2. Plain' <=> Plain
    BY <1>1 DEF Plain
  <1>3. Plain => \A l \in Links : held'[l] = <<>>
    BY HeldNext DEF SessionInv, NothingHeld
  <1>4. \A c \in Nodes : Owned(c)'
    BY OwnedNext DEF SessionInv
  <1>5. ASSUME Plain, NEW d \in Nodes, Live(d)' PROVE Progress(Session(d)')
    <2>1. ASSUME NEW l \in Links, Dial(l[1], l[2]) PROVE Progress(Session(d)')
      <3>1. l[1] \in Nodes /\ l[2] \in Nodes
        BY DEF Links
      <3>. QED
        BY <1>5, <2>1, <3>1, DialStepKeeps
    <2>2. ASSUME NEW c \in Nodes, ClientStep(c) PROVE Progress(Session(d)')
      BY <1>5, <2>2, ClientStepKeeps
    <2>3. ASSUME NEW s \in Sessions, ServerStep(s) PROVE Progress(Session(d)')
      BY <1>5, <2>3, ServerStepKeeps
    <2>4. ASSUME NEW c \in Nodes, Timeout(c) \/ Break(c) PROVE Progress(Session(d)')
      BY <1>5, <2>4, ExpiryKeeps
    <2>5. ASSUME \/ \E n \in Nodes : Operate(n)
                 \/ HarnessStep \/ Fire \/ Heal \/ UNCHANGED vars
          PROVE  Progress(Session(d)')
      BY <1>5, <2>5, HarnessKeeps
    <2>. QED
      BY <2>1, <2>2, <2>3, <2>4, <2>5 DEF Next
  <1>6. Plain => \A c \in Nodes : Live(c)' => Progress(Session(c))'
    BY <1>5
  <1>. QED
    BY <1>1, <1>2, <1>3, <1>4, <1>6 DEF SessionInv

LEMMA SessionsHold == TypeInv /\ SessionInv => ExchangedBothWays
  <1>. SUFFICES ASSUME TypeInv, SessionInv, Plain, NEW c \in Nodes, Succeeds(c)
                PROVE  Dominates(c, client[c].vv) /\ Dominates(client[c].to, client[c].mine)
    BY DEF ExchangedBothWays, Plain
  <1>1. /\ client[c].pc = "wait" /\ server[client[c].slot].pc = "ended"
        /\ ~ server[client[c].slot].err /\ ~ pipe[client[c].slot].cancelled
    BY DEF Succeeds, Ended, Cancelled
  <1>2. PICK z \in Views :
          /\ z = Session(c) /\ z.me = c /\ z.client = client[c]
          /\ z.server = server[client[c].slot] /\ z.pipe = pipe[client[c].slot]
          /\ z.here = log[c] /\ z.there = log[client[c].to] /\ z.blocked = blocked
    BY <1>1, Before
  <1>3. Progress(z)
    BY <1>1, <1>2 DEF SessionInv, Live
  <1>4. Covers(log[c], client[c].vv) /\ Covers(log[client[c].to], client[c].mine)
    BY <1>1, <1>2, <1>3 DEF Progress, Answering
  <1>5. client[c].vv \in Vector /\ client[c].mine \in Vector /\ client[c].to \in Nodes
    BY <1>1, <1>2, ViewFacts, ClientIs
  <1>. QED
    BY <1>4, <1>5, VectorFacts DEF TypeInv

\* A session that SyncOnce is about to report as done has brought each end all that the
\* other announced in its Hello or Welcome, however many nodes sync, whatever frames are
\* dropped or duplicated, and whichever sessions before it were cut off while their servers
\* went on (SyncOnce, Session, Filter).  Not so if frames are held back.
THEOREM ExchangedCorrect == Spec => []ExchangedBothWays
  <1>1. Spec => []TypeInv
    BY TypeInit, TypeNext, PTL DEF Spec
  <1>2. Spec => []SessionInv
    BY <1>1, SessionInit, SessionNext, PTL DEF Spec
  <1>. QED
    BY <1>1, <1>2, SessionsHold, PTL
=============================================================================
