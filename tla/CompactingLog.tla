---------------------------- MODULE CompactingLog ----------------------------
(***************************************************************************)
(* eventlog-lab: per node a log of events on CRDT items, snapshots of the    *)
(* items, compaction of the rows a snapshot covers and every peer holds,     *)
(* and the session that brings two logs together over a faulty transport.    *)
(*                                                                          *)
(* An event stands for any kind: as a quantity delta it must be folded once  *)
(* (a state is the bag of the events folded into it), as a write of a        *)
(* last-writer-wins register it is ordered by its stamp.                     *)
(***************************************************************************)
EXTENDS Integers, Sequences, FiniteSets, FiniteSetsExt, Bags

CONSTANTS
    Nodes,          \* the ids of the nodes; ids are ordered
    SKUs,
    Clusters,       \* which nodes there are, who opens sessions with whom, what each
                    \* writes, and how many snapshots each has under way at a time (0: a
                    \* snapshot is interleaved with nothing else at its node)
    Wall,           \* node |-> what its wall clock reads
    SnapshotEvery,  \* rows of a SKU at which a snapshot is taken
    Exclusive       \* no compaction at a node while it takes a snapshot

ASSUME CompactingAssumption ==
    /\ Nodes \subseteq Nat /\ IsFiniteSet(Nodes) /\ IsFiniteSet(SKUs)
    /\ Wall \in [Nodes -> Nat] /\ SnapshotEvery \in Nat \ {0}
    /\ \A c \in Clusters :
          /\ c.nodes \subseteq Nodes /\ Cardinality(c.nodes) >= 2
          /\ c.links \subseteq c.nodes \X c.nodes /\ \A l \in c.links : l[1] # l[2]
          /\ c.script \in [c.nodes -> Seq(SKUs)] /\ c.slots \in [c.nodes -> Nat]
    /\ Exclusive \in BOOLEAN

VARIABLES
    net,        \* the cluster that runs
    rows,       \* node |-> the events table
    mark,       \* node |-> seq_watermark: the highest number ever deleted, per author
    snap,       \* node |-> per SKU its snapshot; the identity state if it has none
    clk,        \* node |-> the last stamp its clock issued or observed
    saving,     \* node |-> the snapshots folded but not yet saved, with their SKU
    session,    \* client |-> its session, if it has one open
    healed,     \* the transport loses nothing any more
    written     \* every event a caller was acknowledged

logVars == <<rows, mark, snap, saving>>
vars == <<net, rows, mark, snap, saving, clk, session, healed, written>>

Links == UNION {c.links : c \in Clusters}

Vector == [Nodes -> Nat]
Zero == [a \in Nodes |-> 0]
\* An HLC is a number: the wall reading, then ticks.  Readings are far enough apart.
Event == [node : Nodes, seq : Nat \ {0}, sku : SKUs, at : Nat]
NoSnapshot == [state |-> EmptyBag, covers |-> Zero]
IsSnapshot(p) == IsABag(p.state) /\ BagToSet(p.state) \subseteq Event /\ p.covers \in Vector

TypeOK ==
    /\ net \in Clusters
    /\ \A n \in Nodes : rows[n] \subseteq Event
    /\ mark \in [Nodes -> Vector]
    /\ \A n \in Nodes, s \in SKUs : IsSnapshot(snap[n][s])
    /\ \A n \in Nodes : \A t \in saving[n] : t.sku \in SKUs /\ IsSnapshot(t.snapshot)
    /\ clk \in [Nodes -> Nat]
    /\ \A c \in Nodes : session[c] = {} \/ \E x \in session[c] :
          /\ session[c] = {x} /\ <<c, x.server>> \in net.links
          /\ x.pc \in {"down", "up"} /\ x.vv \in Vector /\ x.frames \subseteq Event
    /\ healed \in BOOLEAN
    /\ written \subseteq Event

Init ==
    /\ net \in Clusters
    /\ rows = [n \in Nodes |-> {}]
    /\ mark = [n \in Nodes |-> Zero]
    /\ snap = [n \in Nodes |-> [s \in SKUs |-> NoSnapshot]]
    /\ saving = [n \in Nodes |-> {}]
    /\ clk = [n \in Nodes |-> 0]
    /\ session = [n \in Nodes |-> {}]
    /\ healed = FALSE
    /\ written = {}

-----------------------------------------------------------------------------
(* The log and the projection *)

Later(a, b) == IF a >= b THEN a ELSE b

\* The gap-free run that resumes after the watermark.
Frontier(R, m, a) ==
    LET own == {e.seq : e \in {r \in R : r.node = a}}
    IN CHOOSE k \in own \cup {m[a]} :
          k >= m[a] /\ (m[a] + 1)..k \subseteq own /\ k + 1 \notin own
VersionVector(n) == [a \in Nodes |-> Frontier(rows[n], mark[n], a)]

\* Mutant of Since: an off-by-one leaves out the event after the vector.
SinceNext(n, vv) == {e \in rows[n] : e.seq > vv[e.node] + 1}

Since(n, vv) == {e \in rows[n] : e.seq > vv[e.node]}

\* The rows of a SKU that a snapshot does not cover.
Uncovered(R, s, covers) == {e \in R : e.sku = s /\ e.seq > covers[e.node]}

\* Apply is commutative and not idempotent.
Fold(state, S) == state (+) SetToBag(S)

\* The read path: the snapshot and what it does not cover.
Project(n, s) == Fold(snap[n][s].state, Uncovered(rows[n], s, snap[n][s].covers))

\* Mutant of NextSeq: the number of the last event again.
LastSeq(n) == Max({mark[n][n]} \cup {e.seq : e \in {r \in rows[n] : r.node = n}})

\* The highest number this node ever gave: surviving rows alone would not tell.
NextSeq(n) == 1 + Max({mark[n][n]} \cup {e.seq : e \in {r \in rows[n] : r.node = n}})

-----------------------------------------------------------------------------
(* The node *)

\* The wall reading, or one tick after the latest stamp known.
Now(n) == Later(Wall[n], clk[n] + 1)

\* Mutant of Observe: a merged event leaves the clock alone.
ObserveNothing(n, at) == clk' = clk

\* Only the order of stamps matters: the tick that Observe adds is left out.
Observe(n, at) == clk' = [clk EXCEPT ![n] = Later(@, at)]

\* Mutant of NewSnapshot: folds what lies beyond a frontier, and only leaves it out of covers.
FoldsBeyond(n, s, R) ==
    LET old == snap[n][s]
        S == Uncovered(R, s, old.covers)
    IN [state |-> Fold(old.state, S),
        covers |-> [a \in Nodes |-> Max({old.covers[a]} \cup
            {e.seq : e \in {f \in S : f.node = a /\ f.seq <= Frontier(R, mark[n], a)}})]]

\* What MaybeSnapshot makes of the rows R: from the existing snapshot forward, and nothing
\* that lies beyond its author's frontier.
NewSnapshot(n, s, R) ==
    LET old == snap[n][s]
        S == {e \in Uncovered(R, s, old.covers) : e.seq <= Frontier(R, mark[n], e.node)}
    IN [state |-> Fold(old.state, S),
        covers |-> [a \in Nodes |->
            Max({old.covers[a]} \cup {e.seq : e \in {f \in S : f.node = a}})]]

\* A row is inserted unless there is one with its id, and MaybeSnapshot reads; it saves
\* later, if other goroutines are at work meanwhile.
Store(n, e) ==
    LET R == IF \E r \in rows[n] : r.node = e.node /\ r.seq = e.seq
             THEN rows[n] ELSE rows[n] \cup {e}
        new == NewSnapshot(n, e.sku, R)
    IN /\ rows' = [rows EXCEPT ![n] = R]
       /\ \/ /\ Cardinality(Uncovered(R, e.sku, Zero)) < SnapshotEvery
             /\ UNCHANGED <<snap, saving>>
          \/ /\ Cardinality(Uncovered(R, e.sku, Zero)) >= SnapshotEvery
             /\ IF net.slots[n] = 0
                THEN /\ snap' = [snap EXCEPT ![n][e.sku] = new]
                     /\ UNCHANGED saving
                ELSE /\ Cardinality(saving[n]) < net.slots[n]
                     /\ saving' = [saving EXCEPT ![n] =
                           @ \cup {[sku |-> e.sku, snapshot |-> new]}]
                     /\ UNCHANGED snap

\* emit: stamp, append in one transaction, snapshot.
Emit(n) ==
    LET done == {e \in written : e.node = n}
        e == [node |-> n, seq |-> NextSeq(n),
              sku |-> net.script[n][Cardinality(done) + 1], at |-> Now(n)]
    IN /\ Cardinality(done) < Len(net.script[n])
       /\ Store(n, e)
       /\ clk' = [clk EXCEPT ![n] = e.at]
       /\ written' = written \cup {e}
       /\ UNCHANGED <<net, mark, session, healed>>

\* SaveSnapshot overwrites whatever snapshot there is by now.
SaveSnapshot(n) == \E t \in saving[n] :
    /\ snap' = [snap EXCEPT ![n][t.sku] = t.snapshot]
    /\ saving' = [saving EXCEPT ![n] = @ \ {t}]
    /\ UNCHANGED <<net, rows, mark, clk, session, healed, written>>

-----------------------------------------------------------------------------
(* Compaction *)

\* Mutant of AckedFloor: what some peer of n holds.
SomePeers(n) == [a \in Nodes |-> Max({VersionVector(p)[a] : p \in net.nodes \ {n}})]

\* What every peer of n holds.
AckedFloor(n) == [a \in Nodes |-> Min({VersionVector(p)[a] : p \in net.nodes \ {n}})]

\* Mutant of PurgeSKU: deletes rows and raises no watermark.
PurgeUnmarked(log, s, covers, upTo) ==
    LET safe == [a \in Nodes |-> Min({covers[a], upTo[a]})]
        clear == {a \in Nodes : ~\E e \in log.rows : e.node = a /\ e.seq > safe[a]}
    IN [log EXCEPT !.rows =
           {e \in @ : ~(e.sku = s /\ e.node \in clear /\ e.seq <= safe[e.node])}]

\* One SKU's turn: for each author, up to what is both covered and acknowledged, unless a
\* later row of the author survives.  The watermark moves with the rows.
PurgeSKU(log, s, covers, upTo) ==
    LET safe == [a \in Nodes |-> Min({covers[a], upTo[a]})]
        clear == {a \in Nodes : ~\E e \in log.rows : e.node = a /\ e.seq > safe[a]}
    IN [rows |-> {e \in log.rows : ~(e.sku = s /\ e.node \in clear /\ e.seq <= safe[e.node])},
        mark |-> [a \in Nodes |-> IF a \in clear THEN Later(log.mark[a], safe[a])
                                                 ELSE log.mark[a]]]

Orders == {o \in [1..Cardinality(SKUs) -> SKUs] : IsInjective(o)}

\* The log after every SKU had its turn.
Purged(n, order, upTo) ==
    LET after[i \in 0..Cardinality(SKUs)] ==
            IF i = 0 THEN [rows |-> rows[n], mark |-> mark[n]]
            ELSE PurgeSKU(after[i - 1], order[i], snap[n][order[i]].covers, upTo)
    IN after[Cardinality(SKUs)]

\* One transaction; the SKUs come in the order of a Go map.
Compact(n) == \E order \in Orders :
    LET log == Purged(n, order, AckedFloor(n))
    IN /\ Exclusive => saving[n] = {}
       /\ log.rows # rows[n]
       /\ rows' = [rows EXCEPT ![n] = log.rows]
       /\ mark' = [mark EXCEPT ![n] = log.mark]
       /\ UNCHANGED <<net, snap, saving, clk, session, healed, written>>

-----------------------------------------------------------------------------
(* The session *)

\* What arrives of the events sent from one node to another, a frame each: the transport
\* drops frames until it is healed, reorders them, and may send along one that went that way
\* before; the receiver skips an event it finds malformed.
Arriving(S, from, to) ==
    LET prior == {e \in written : /\ e.node # to
                                  /\ e.seq <= VersionVector(from)[e.node]
                                  /\ e.seq <= VersionVector(to)[e.node]}
        extra == IF S = {} THEN {} ELSE {{e} : e \in prior}
    IN {F \cup D : F \in IF healed THEN {S} ELSE SUBSET S, D \in {{}} \cup extra}

\* Hello, Welcome and the events the client lacks.  The client's vector is not older than
\* the server's reading of it: an older one would only repeat events.
Open(c, s) ==
    /\ <<c, s>> \in net.links /\ session[c] = {}
    /\ \E F \in Arriving(Since(s, VersionVector(c)), s, c) :
          session' = [session EXCEPT ![c] =
              {[server |-> s, pc |-> "down", vv |-> VersionVector(s), frames |-> F]}]
    /\ UNCHANGED <<net, logVars, clk, healed, written>>

\* Merge, of one event: by the client until the server's Ack, then by the server.
Merge(c) == \E x \in session[c] : \E e \in x.frames :
    LET n == IF x.pc = "down" THEN c ELSE x.server
    IN /\ Store(n, e)
       /\ Observe(n, e.at)
       /\ session' = [session EXCEPT ![c] = {[x EXCEPT !.frames = @ \ {e}]}]
       /\ UNCHANGED <<net, mark, healed, written>>

\* After the server's Ack the client streams what the Welcome lacked.
Push(c) == \E x \in session[c] :
    /\ x.pc = "down" /\ x.frames = {}
    /\ \E F \in Arriving(Since(c, x.vv), c, x.server) :
          session' = [session EXCEPT ![c] =
              {[x EXCEPT !.pc = "up", !.vv = Zero, !.frames = F]}]
    /\ UNCHANGED <<net, logVars, clk, healed, written>>

\* The server has the client's Ack, and CloseSend has waited for that.
Close(c) == \E x \in session[c] :
    /\ x.pc = "up" /\ x.frames = {}
    /\ session' = [session EXCEPT ![c] = {}]
    /\ UNCHANGED <<net, logVars, clk, healed, written>>

-----------------------------------------------------------------------------
(* Faults *)

\* A lost Hello, Welcome or Ack, a timeout, a failed query: the session ends.
Fail(c) ==
    /\ ~healed /\ session[c] # {}
    /\ session' = [session EXCEPT ![c] = {}]
    /\ UNCHANGED <<net, logVars, clk, healed, written>>

\* A crash, or the next process: the clock is recovered from the surviving rows.
Restart(n) ==
    /\ ~healed
    /\ clk' = [clk EXCEPT ![n] = Max({0} \cup {e.at : e \in rows[n]})]
    /\ saving' = [saving EXCEPT ![n] = {}]
    /\ session' = [c \in Nodes |-> {x \in session[c] : n \notin {c, x.server}}]
    /\ UNCHANGED <<net, rows, mark, snap, healed, written>>

Heal ==
    /\ ~healed
    /\ healed' = TRUE
    /\ UNCHANGED <<net, logVars, clk, session, written>>

-----------------------------------------------------------------------------
Next ==
    \/ \E n \in net.nodes : Emit(n) \/ SaveSnapshot(n) \/ Compact(n) \/ Restart(n)
    \/ \E l \in Links : Open(l[1], l[2])
    \/ \E c \in Nodes : Merge(c) \/ Push(c) \/ Close(c) \/ Fail(c)
    \/ Heal

Spec == Init /\ [][Next]_vars

\* Every pair has its turn in every round (SyncRound), and what runs goes on.
FairSpec ==
    /\ Spec
    /\ \A l \in Links : SF_vars(Open(l[1], l[2]))
    /\ \A n \in Nodes : WF_vars(Merge(n) \/ Push(n) \/ Close(n)) /\ WF_vars(SaveSnapshot(n))
=============================================================================
