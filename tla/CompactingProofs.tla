--------------------------- MODULE CompactingProofs ---------------------------
(***************************************************************************)
(* Proofs about the log of eventlog-lab, for every cluster and script, any  *)
(* number of snapshots under way, and any interleaving of writes, sessions, *)
(* snapshots, compactions and restarts.                                     *)
(***************************************************************************)
EXTENDS CompactingProperties, TLAPS, FiniteSetTheorems, FunctionTheorems,
        WellFoundedInduction

-----------------------------------------------------------------------------
(* Numbers and finite sets *)

\* A non-empty set of naturals has a least element, and a finite one a greatest.
LEMMA LeastNumber ==
    ASSUME NEW T \in SUBSET Nat, T # {}
    PROVE  \E m \in T : \A n \in T : m <= n
  <1>1. PICK m \in T : \A n \in T : <<n, m>> \notin OpToRel(<, Nat)
    BY NatLessThanWellFounded, WFMin
  <1>2. \A n \in T : ~ (n < m)
    BY <1>1 DEF OpToRel
  <1>. QED
    BY <1>2

LEMMA MinFacts ==
    ASSUME NEW T \in SUBSET Nat, T # {}
    PROVE  Min(T) \in T /\ \A n \in T : Min(T) <= n
  BY LeastNumber DEF Min

LEMMA FiniteBounded ==
    ASSUME NEW S \in SUBSET Nat, IsFiniteSet(S)
    PROVE  \E b \in Nat : \A n \in S : n <= b
  <1>. DEFINE Bounded(T) == \E b \in Nat : \A n \in T : n <= b
              Bad == {k \in Nat : \E T \in SUBSET S : Cardinality(T) = k /\ ~ Bounded(T)}
  <1>1. ASSUME Bad # {} PROVE FALSE
    <2>1. PICK k \in Bad : \A j \in Bad : k <= j
      BY <1>1, LeastNumber
    <2>2. PICK T \in SUBSET S : Cardinality(T) = k /\ ~ Bounded(T)
      OBVIOUS
    <2>3. T # {}
      <3>1. Bounded({})
        OBVIOUS
      <3>. QED
        BY <2>2, <3>1
    <2>4. PICK x \in Nat : x \in T
      BY <2>3
    <2>5. /\ IsFiniteSet(T) /\ Cardinality(T \ {x}) = k - 1 /\ T \ {x} \in SUBSET S
          /\ Cardinality(T \ {x}) \in Nat
      BY <2>2, <2>4, FS_Subset, FS_RemoveElement, FS_CardinalityType
    <2>6. Bounded(T \ {x})
      <3>1. k - 1 \notin Bad
        BY <2>1
      <3>. QED
        BY <2>5, <3>1
    <2>7. PICK b \in Nat : \A n \in T \ {x} : n <= b
      BY <2>6
    <2>8. PICK c \in Nat : c >= b /\ c >= x
      BY <2>4
    <2>9. \A n \in T : n <= c
      BY <2>4, <2>7, <2>8
    <2>. QED
      BY <2>2, <2>9
  <1>2. Cardinality(S) \in Nat
    BY FS_CardinalityType
  <1>. QED
    BY <1>1, <1>2

LEMMA MaxFacts ==
    ASSUME NEW T \in SUBSET Nat, T # {}, IsFiniteSet(T)
    PROVE  Max(T) \in T /\ \A n \in T : n <= Max(T)
  <1>1. PICK b \in Nat : \A n \in T : n <= b
    BY FiniteBounded
  <1>. DEFINE U == {b - n : n \in T}
  <1>2. U \in SUBSET Nat /\ U # {}
    <2>1. \A n \in T : b - n \in Nat
      BY <1>1
    <2>. QED
      BY <2>1
  <1>3. PICK u \in U : \A n \in U : u <= n
    BY <1>2, LeastNumber
  <1>4. PICK m \in T : u = b - m
    OBVIOUS
  <1>5. \A n \in T : b - m <= b - n
    BY <1>3, <1>4
  <1>6. \A n \in T : m >= n
    BY <1>5
  <1>. QED
    BY <1>6 DEF Max

\* The numbers and the stamps of a finite set of events are finitely many.
Seqs(S) == {e.seq : e \in S}
Stamps(S) == {e.at : e \in S}

LEMMA FiniteSeqs ==
    ASSUME NEW S \in SUBSET Event, IsFiniteSet(S)
    PROVE  /\ IsFiniteSet(Seqs(S)) /\ Seqs(S) \in SUBSET (Nat \ {0})
           /\ IsFiniteSet(Stamps(S)) /\ Stamps(S) \in SUBSET Nat
  <1>. DEFINE f == [e \in S |-> e.seq]
              g == [e \in S |-> e.at]
  <1>1. f \in Surjection(S, Seqs(S)) /\ g \in Surjection(S, Stamps(S))
    BY DEF Surjection, Seqs, Stamps
  <1>2. IsFiniteSet(Seqs(S)) /\ IsFiniteSet(Stamps(S))
    <2>. HIDE DEF f, g
    <2>. QED
      BY <1>1, FS_Surjection
  <1>. QED
    BY <1>2 DEF Seqs, Stamps, Event

\* The greatest of a number and the numbers of some events.
LEMMA MaxSeq ==
    ASSUME NEW S \in SUBSET Event, IsFiniteSet(S), NEW m \in Nat
    PROVE  LET k == Max({m} \cup Seqs(S))
           IN /\ k \in Nat /\ k >= m /\ k \in {m} \cup Seqs(S)
              /\ \A e \in S : e.seq <= k
  <1>. DEFINE T == {m} \cup Seqs(S)
  <1>1. T \in SUBSET Nat /\ T # {} /\ IsFiniteSet(T)
    <2>1. IsFiniteSet({m}) /\ IsFiniteSet(Seqs(S)) /\ Seqs(S) \in SUBSET Nat
      BY FiniteSeqs, FS_Singleton
    <2>2. IsFiniteSet(T)
      BY <2>1, FS_Union
    <2>. QED
      BY <2>1, <2>2
  <1>2. \A e \in S : e.seq \in T
    BY DEF Seqs
  <1>. HIDE DEF T
  <1>3. Max(T) \in T /\ \A n \in T : n <= Max(T)
    BY <1>1, MaxFacts
  <1>4. m \in T
    BY DEF T
  <1>5. Max(T) \in Nat /\ Max(T) >= m /\ \A e \in S : e.seq <= Max(T)
    BY <1>1, <1>2, <1>3, <1>4
  <1>. QED
    BY <1>3, <1>5 DEF T

LEMMA MaxStamp ==
    ASSUME NEW S \in SUBSET Event, IsFiniteSet(S)
    PROVE  LET k == Max({0} \cup Stamps(S))
           IN k \in Nat /\ \A e \in S : e.at <= k
  <1>. DEFINE T == {0} \cup Stamps(S)
  <1>1. T \in SUBSET Nat /\ T # {} /\ IsFiniteSet(T)
    <2>1. IsFiniteSet({0}) /\ IsFiniteSet(Stamps(S)) /\ Stamps(S) \in SUBSET Nat
      BY FiniteSeqs, FS_Singleton
    <2>2. IsFiniteSet(T)
      BY <2>1, FS_Union
    <2>. QED
      BY <2>1, <2>2
  <1>2. \A e \in S : e.at \in T
    BY DEF Stamps
  <1>. HIDE DEF T
  <1>3. Max(T) \in T /\ \A n \in T : n <= Max(T)
    BY <1>1, MaxFacts
  <1>4. Max(T) \in Nat /\ \A e \in S : e.at <= Max(T)
    BY <1>1, <1>2, <1>3
  <1>. QED
    BY <1>4 DEF T

-----------------------------------------------------------------------------
(* The frontier *)

\* The events of one author.
By(R, a) == {r \in R : r.node = a}

LEMMA FrontierFacts ==
    ASSUME NEW R \in SUBSET Event, IsFiniteSet(R), NEW m \in Vector, NEW a \in Nodes
    PROVE  LET k == Frontier(R, m, a)
           IN /\ k \in Nat /\ k >= m[a] /\ k \in Seqs(By(R, a)) \cup {m[a]}
              /\ \A i \in (m[a] + 1)..k : i \in Seqs(By(R, a))
              /\ k + 1 \notin Seqs(By(R, a))
  <1>. DEFINE own == Seqs(By(R, a))
              T == {k \in Nat : k >= m[a] /\ k + 1 \notin own}
  <1>0. m[a] \in Nat
    BY DEF Vector
  <1>1. own \in SUBSET (Nat \ {0}) /\ IsFiniteSet(own)
    <2>1. By(R, a) \in SUBSET Event /\ IsFiniteSet(By(R, a))
      BY FS_Subset DEF By
    <2>. QED
      BY <2>1, FiniteSeqs
  <1>. HIDE DEF own
  <1>2. T # {} /\ T \in SUBSET Nat
    <2>1. PICK b \in Nat : \A i \in own : i <= b
      BY <1>1, FiniteBounded
    <2>2. PICK c \in Nat : c >= b /\ c >= m[a]
      BY <1>0
    <2>3. c + 1 \notin own
      BY <2>1, <2>2
    <2>. QED
      BY <2>2, <2>3
  <1>3. PICK k \in T : \A n \in T : k <= n
    <2>. HIDE DEF T
    <2>. QED
      BY <1>2, LeastNumber
  <1>4. \A i \in (m[a] + 1)..k : i \in own
    <2>. SUFFICES ASSUME NEW i \in (m[a] + 1)..k, i \notin own PROVE FALSE
      OBVIOUS
    <2>1. i - 1 \in T
      BY <1>0
    <2>. QED
      BY <1>0, <1>3, <2>1
  <1>5. k \in own \cup {m[a]}
    BY <1>0, <1>4
  <1>6. /\ k \in own \cup {m[a]} /\ k >= m[a]
        /\ (m[a] + 1)..k \subseteq own /\ k + 1 \notin own
    BY <1>4, <1>5
  <1>7. Frontier(R, m, a) = CHOOSE j \in own \cup {m[a]} :
           j >= m[a] /\ (m[a] + 1)..j \subseteq own /\ j + 1 \notin own
    BY DEF Frontier, own, Seqs, By
  <1>8. PICK f : f = Frontier(R, m, a)
    OBVIOUS
  <1>9. /\ f \in own \cup {m[a]} /\ f >= m[a]
        /\ (m[a] + 1)..f \subseteq own /\ f + 1 \notin own
    BY <1>6, <1>7, <1>8
  <1>10. f \in Nat
    BY <1>0, <1>1, <1>9
  <1>. QED
    BY <1>8, <1>9, <1>10 DEF own

\* A number is given once to an author's gap-free run.
LEMMA FrontierIs ==
    ASSUME NEW R \in SUBSET Event, IsFiniteSet(R), NEW m \in Vector, NEW a \in Nodes,
           NEW k \in Nat, k >= m[a], k + 1 \notin Seqs(By(R, a)),
           \A i \in (m[a] + 1)..k : i \in Seqs(By(R, a))
    PROVE  Frontier(R, m, a) = k
  <1>1. PICK f \in Nat : f = Frontier(R, m, a)
    BY FrontierFacts
  <1>2. /\ f >= m[a] /\ f + 1 \notin Seqs(By(R, a))
        /\ \A i \in (m[a] + 1)..f : i \in Seqs(By(R, a))
    BY <1>1, FrontierFacts
  <1>3. m[a] \in Nat
    BY DEF Vector
  <1>4. ~ (f < k)
    <2>. SUFFICES ASSUME f < k PROVE FALSE
      OBVIOUS
    <2>1. f + 1 \in (m[a] + 1)..k
      BY <1>2, <1>3
    <2>. QED
      BY <1>2, <2>1
  <1>5. ~ (k < f)
    <2>. SUFFICES ASSUME k < f PROVE FALSE
      OBVIOUS
    <2>1. k + 1 \in (m[a] + 1)..f
      BY <1>2, <1>3
    <2>. QED
      BY <1>2, <2>1
  <1>. QED
    BY <1>1, <1>4, <1>5

\* More rows, or a higher watermark that takes the place of rows, move it forward only.
LEMMA FrontierGrows ==
    ASSUME NEW R \in SUBSET Event, IsFiniteSet(R), NEW m \in Vector, NEW a \in Nodes,
           NEW S \in SUBSET Event, IsFiniteSet(S), NEW w \in Vector,
           m[a] <= w[a], \A r \in By(R, a) : r \in S \/ r.seq <= w[a]
    PROVE  Frontier(R, m, a) <= Frontier(S, w, a)
  <1>1. PICK f \in Nat : f = Frontier(R, m, a)
    BY FrontierFacts
  <1>2. \A i \in (m[a] + 1)..f : i \in Seqs(By(R, a))
    BY <1>1, FrontierFacts
  <1>3. PICK g \in Nat : g = Frontier(S, w, a)
    BY FrontierFacts
  <1>4. g >= w[a] /\ g + 1 \notin Seqs(By(S, a))
    BY <1>3, FrontierFacts
  <1>5. m[a] \in Nat /\ w[a] \in Nat
    BY DEF Vector
  <1>6. ~ (g < f)
    <2>. SUFFICES ASSUME g < f PROVE FALSE
      OBVIOUS
    <2>1. g + 1 \in (m[a] + 1)..f
      BY <1>4, <1>5
    <2>2. PICK r \in By(R, a) : r.seq = g + 1
      BY <1>2, <2>1 DEF Seqs
    <2>3. r \notin S
      BY <1>4, <2>2 DEF Seqs, By
    <2>4. r.seq <= w[a]
      BY <2>3
    <2>. QED
      BY <1>4, <1>5, <2>2, <2>4
  <1>. QED
    BY <1>1, <1>3, <1>6

-----------------------------------------------------------------------------
(* Types *)

States == UNION {[S -> Nat \ {0}] : S \in SUBSET Event}
Snapshot == [state : States, covers : Vector]
Saving == [sku : SKUs, snapshot : Snapshot]
Session == [server : Nodes, pc : {"down", "up"}, vv : Vector, frames : SUBSET Event]

LogFits ==
    /\ rows \in [Nodes -> SUBSET Event] /\ \A n \in Nodes : IsFiniteSet(rows[n])
    /\ mark \in [Nodes -> Vector]
    /\ written \in SUBSET Event /\ IsFiniteSet(written)
SnapshotsFit ==
    /\ snap \in [Nodes -> [SKUs -> Snapshot]]
    /\ saving \in [Nodes -> SUBSET Saving]
SessionsFit ==
    /\ session \in [Nodes -> SUBSET Session]
    /\ \A c \in Nodes : \A x, y \in session[c] : x = y /\ <<c, x.server>> \in net.links

TypeInv ==
    /\ net \in Clusters /\ clk \in [Nodes -> Nat] /\ healed \in BOOLEAN
    /\ LogFits /\ SnapshotsFit /\ SessionsFit

LEMMA StatesFacts ==
    /\ \A B \in States : IsABag(B) /\ BagToSet(B) \subseteq Event
    /\ EmptyBag \in States
    /\ \A B \in States : \A S \in SUBSET Event : Fold(B, S) \in States
  <1>1. ASSUME NEW B \in States PROVE IsABag(B) /\ BagToSet(B) \subseteq Event
    BY DEF States, IsABag, BagToSet
  <1>2. EmptyBag \in States
    <2>1. EmptyBag \in [{} -> Nat \ {0}]
      BY DEF EmptyBag, SetToBag
    <2>2. {} \in SUBSET Event
      OBVIOUS
    <2>. QED
      BY <2>1, <2>2 DEF States
  <1>3. ASSUME NEW B \in States, NEW S \in SUBSET Event PROVE Fold(B, S) \in States
    <2>1. PICK D \in SUBSET Event : B \in [D -> Nat \ {0}]
      BY DEF States
    <2>2. Fold(B, S) \in [D \cup S -> Nat \ {0}]
      BY <2>1 DEF Fold, SetToBag, (+)
    <2>. QED
      BY <2>2 DEF States
  <1>. QED
    BY <1>1, <1>2, <1>3

LEMMA TypesHold == TypeInv => TypeOK
  <1>. SUFFICES ASSUME TypeInv PROVE TypeOK
    OBVIOUS
  <1>1. \A p \in Snapshot : IsSnapshot(p)
    BY StatesFacts DEF Snapshot, IsSnapshot
  <1>2. /\ \A n \in Nodes, s \in SKUs : IsSnapshot(snap[n][s])
        /\ \A n \in Nodes : \A t \in saving[n] : t.sku \in SKUs /\ IsSnapshot(t.snapshot)
    BY <1>1 DEF TypeInv, SnapshotsFit, Saving
  <1>3. ASSUME NEW c \in Nodes, session[c] # {}
        PROVE  \E x \in session[c] :
                  /\ session[c] = {x} /\ <<c, x.server>> \in net.links
                  /\ x.pc \in {"down", "up"} /\ x.vv \in Vector /\ x.frames \subseteq Event
    <2>1. PICK x : x \in session[c]
      BY <1>3
    <2>2. session[c] \in SUBSET Session /\ \A y \in session[c] : x = y
      BY <2>1 DEF TypeInv, SessionsFit
    <2>3. x \in Session /\ session[c] = {x} /\ <<c, x.server>> \in net.links
      BY <2>1, <2>2 DEF TypeInv, SessionsFit
    <2>. QED
      BY <2>1, <2>3 DEF Session
  <1>. QED
    BY <1>2, <1>3 DEF TypeInv, LogFits, TypeOK

LEMMA ClusterFacts ==
    ASSUME TypeInv
    PROVE  /\ net.nodes \subseteq Nodes /\ IsFiniteSet(Nodes) /\ IsFiniteSet(net.nodes)
           /\ net.links \subseteq net.nodes \X net.nodes /\ \A l \in net.links : l[1] # l[2]
           /\ \A n \in net.nodes : net.script[n] \in Seq(SKUs) /\ net.nodes \ {n} # {}
  <1>1. /\ net.nodes \subseteq Nodes /\ IsFiniteSet(Nodes) /\ Cardinality(net.nodes) >= 2
        /\ net.links \subseteq net.nodes \X net.nodes /\ \A l \in net.links : l[1] # l[2]
        /\ net.script \in [net.nodes -> Seq(SKUs)]
    BY CompactingAssumption DEF TypeInv
  <1>2. IsFiniteSet(net.nodes)
    BY <1>1, FS_Subset
  <1>3. ASSUME NEW n \in net.nodes PROVE net.nodes \ {n} # {}
    <2>1. Cardinality(net.nodes \ {n}) = Cardinality(net.nodes) - 1
      BY <1>2, FS_RemoveElement
    <2>2. Cardinality(net.nodes) \in Nat /\ Cardinality({}) = 0
      BY <1>2, FS_CardinalityType, FS_EmptySet
    <2>3. Cardinality(net.nodes \ {n}) # 0
      BY <1>1, <2>1, <2>2
    <2>. QED
      BY <2>2, <2>3
  <1>. QED
    BY <1>1, <1>2, <1>3

LEMMA VectorsFit ==
    ASSUME TypeInv, NEW n \in Nodes
    PROVE  /\ VersionVector(n) \in Vector
           /\ \A a \in Nodes : VersionVector(n)[a] = Frontier(rows[n], mark[n], a)
  <1>1. \A a \in Nodes : Frontier(rows[n], mark[n], a) \in Nat
    BY FrontierFacts DEF TypeInv, LogFits
  <1>. QED
    BY <1>1 DEF VersionVector, Vector

-----------------------------------------------------------------------------
(* What a compaction leaves *)

\* One SKU after the other: the log after i of the turns.
LEMMA PurgedTurns ==
    ASSUME NEW n \in Nodes, NEW order, NEW upTo
    PROVE  \E f : /\ f[0] = [rows |-> rows[n], mark |-> mark[n]]
                  /\ \A i \in 1..Cardinality(SKUs) :
                        f[i] = PurgeSKU(f[i - 1], order[i], snap[n][order[i]].covers, upTo)
                  /\ Purged(n, order, upTo) = f[Cardinality(SKUs)]
  <1>. DEFINE K == Cardinality(SKUs)
              G(f, i) == IF i = 0 THEN [rows |-> rows[n], mark |-> mark[n]]
                         ELSE PurgeSKU(f[i - 1], order[i], snap[n][order[i]].covers, upTo)
              Chain(j) == \E f : f = [i \in 0..j |-> G(f, i)]
              Bad == {j \in Nat : ~ Chain(j)}
  <1>1. K \in Nat
    BY CompactingAssumption, FS_CardinalityType
  <1>2. ASSUME Bad # {} PROVE FALSE
    <2>1. PICK j \in Nat : ~ Chain(j) /\ \A i \in 0..(j - 1) : Chain(i)
      <3>. HIDE DEF Chain
      <3>1. PICK j \in Bad : \A i \in Bad : j <= i
        BY <1>2, LeastNumber
      <3>. QED
        BY <3>1
    <2>2. CASE j = 0
      <3>. DEFINE g == [i \in 0..0 |-> [rows |-> rows[n], mark |-> mark[n]]]
      <3>1. g = [i \in 0..0 |-> G(g, i)]
        OBVIOUS
      <3>2. Chain(0)
        BY <3>1
      <3>. QED
        BY <2>1, <2>2, <3>2
    <2>3. CASE j # 0
      <3>1. Chain(j - 1)
        <4>. HIDE DEF Chain
        <4>. QED
          BY <2>1, <2>3
      <3>2. PICK f : f = [i \in 0..(j - 1) |-> G(f, i)]
        BY <3>1
      <3>. DEFINE g == [i \in 0..j |-> G(f, i)]
      <3>3. ASSUME NEW i \in 0..j, i # 0 PROVE g[i - 1] = f[i - 1]
        <4>1. i - 1 \in 0..(j - 1) /\ i - 1 \in 0..j
          BY <2>1, <3>3
        <4>2. f[i - 1] = G(f, i - 1)
          BY <3>2, <4>1
        <4>. HIDE DEF G
        <4>. QED
          BY <4>1, <4>2
      <3>4. ASSUME NEW i \in 0..j PROVE G(g, i) = G(f, i)
        <4>. HIDE DEF g
        <4>1. i # 0 => g[i - 1] = f[i - 1]
          BY <3>3
        <4>. QED
          BY <4>1
      <3>5. g = [i \in 0..j |-> G(g, i)]
        <4>. HIDE DEF G
        <4>. QED
          BY <3>4
      <3>6. Chain(j)
        BY <3>5
      <3>. QED
        BY <2>1, <3>6
    <2>. QED
      BY <2>2, <2>3
  <1>3. Chain(K)
    BY <1>1, <1>2
  <1>4. PICK f : f = CHOOSE g : g = [i \in 0..K |-> G(g, i)]
    OBVIOUS
  <1>5. f = [i \in 0..K |-> G(f, i)]
    BY <1>3, <1>4
  <1>6. Purged(n, order, upTo) = f[K]
    BY <1>4 DEF Purged
  <1>7. f[0] = [rows |-> rows[n], mark |-> mark[n]]
    BY <1>1, <1>5
  <1>8. ASSUME NEW i \in 1..K
        PROVE  f[i] = PurgeSKU(f[i - 1], order[i], snap[n][order[i]].covers, upTo)
    BY <1>1, <1>5, <1>8
  <1>. QED
    BY <1>6, <1>7, <1>8

\* A watermark moves up, as far as is covered and acknowledged, and takes the place of the
\* rows deleted, which the snapshot of their SKU covers.
Shrinks(n, upTo, log) ==
    /\ log \in [rows : SUBSET rows[n], mark : Vector]
    /\ \A a \in Nodes :
          /\ mark[n][a] <= log.mark[a]
          /\ \/ log.mark[a] = mark[n][a]
             \/ log.mark[a] <= upTo[a] /\ \E s \in SKUs : log.mark[a] <= snap[n][s].covers[a]
    /\ \A r \in rows[n] :
          r \in log.rows \/ (r.seq <= log.mark[r.node] /\ r.seq <= snap[n][r.sku].covers[r.node])

LEMMA PurgeShrinks ==
    ASSUME TypeInv, NEW n \in Nodes, NEW upTo \in Vector, NEW log, Shrinks(n, upTo, log),
           NEW s \in SKUs
    PROVE  Shrinks(n, upTo, PurgeSKU(log, s, snap[n][s].covers, upTo))
  <1>. DEFINE covers == snap[n][s].covers
              safe == [a \in Nodes |-> Min({covers[a], upTo[a]})]
              clear == {a \in Nodes : ~\E e \in log.rows : e.node = a /\ e.seq > safe[a]}
              R == {e \in log.rows : ~(e.sku = s /\ e.node \in clear /\ e.seq <= safe[e.node])}
              w == [a \in Nodes |-> IF a \in clear THEN Later(log.mark[a], safe[a])
                                                   ELSE log.mark[a]]
  <1>1. covers \in Vector
    BY DEF TypeInv, SnapshotsFit, Snapshot
  <1>2. \A a \in Nodes : covers[a] \in Nat /\ upTo[a] \in Nat
    BY <1>1 DEF Vector
  <1>3. ASSUME NEW a \in Nodes
        PROVE  safe[a] \in Nat /\ safe[a] <= covers[a] /\ safe[a] <= upTo[a]
    <2>1. {covers[a], upTo[a]} \in SUBSET Nat
      BY <1>2
    <2>2. Min({covers[a], upTo[a]}) \in {covers[a], upTo[a]}
          /\ \A i \in {covers[a], upTo[a]} : Min({covers[a], upTo[a]}) <= i
      BY <2>1, MinFacts
    <2>. QED
      BY <1>2, <2>2
  <1>4. PurgeSKU(log, s, snap[n][s].covers, upTo) = [rows |-> R, mark |-> w]
    BY DEF PurgeSKU
  <1>5. log.rows \in SUBSET rows[n] /\ \A a \in Nodes : log.mark[a] \in Nat /\ mark[n][a] \in Nat
    BY DEF Shrinks, Vector, TypeInv, LogFits
  <1>6. rows[n] \in SUBSET Event
    BY DEF TypeInv, LogFits
  <1>. HIDE DEF safe, covers
  <1>7. ASSUME NEW a \in Nodes
        PROVE  /\ w[a] \in Nat /\ mark[n][a] <= w[a] /\ log.mark[a] <= w[a]
               /\ a \in clear => safe[a] <= w[a]
               /\ \/ w[a] = mark[n][a]
                  \/ w[a] <= upTo[a] /\ \E t \in SKUs : w[a] <= snap[n][t].covers[a]
    <2>1. /\ mark[n][a] <= log.mark[a]
          /\ \/ log.mark[a] = mark[n][a]
             \/ log.mark[a] <= upTo[a] /\ \E t \in SKUs : log.mark[a] <= snap[n][t].covers[a]
      BY DEF Shrinks
    <2>2. \/ w[a] = log.mark[a] /\ (a \in clear => safe[a] <= log.mark[a])
          \/ w[a] = safe[a] /\ log.mark[a] <= safe[a]
      BY <1>3, <1>5 DEF Later
    <2>. HIDE DEF w, clear
    <2>3. CASE w[a] = log.mark[a] /\ (a \in clear => safe[a] <= log.mark[a])
      BY <1>5, <2>1, <2>3
    <2>4. CASE w[a] = safe[a] /\ log.mark[a] <= safe[a]
      BY <1>3, <1>5, <2>1, <2>4 DEF covers
    <2>. QED
      BY <2>2, <2>3, <2>4
  <1>8. ASSUME NEW r \in rows[n]
        PROVE  r \in R \/ (r.seq <= w[r.node] /\ r.seq <= snap[n][r.sku].covers[r.node])
    <2>1. r.node \in Nodes /\ r.seq \in Nat
      BY <1>6 DEF Event
    <2>2. CASE r \in log.rows
      <3>1. CASE r.sku = s /\ r.node \in clear /\ r.seq <= safe[r.node]
        BY <1>2, <1>3, <1>7, <2>1, <3>1 DEF covers
      <3>. QED
        BY <2>2, <3>1
    <2>3. CASE r \notin log.rows
      <3>1. r.seq <= log.mark[r.node] /\ r.seq <= snap[n][r.sku].covers[r.node]
        BY <2>3 DEF Shrinks
      <3>2. r.seq <= w[r.node]
        BY <1>5, <1>7, <2>1, <3>1
      <3>. QED
        BY <3>1, <3>2
    <2>. QED
      BY <2>2, <2>3
  <1>9. R \in SUBSET rows[n] /\ w \in Vector
    BY <1>5, <1>7 DEF Vector
  <1>. HIDE DEF R, w
  <1>. QED
    BY <1>4, <1>7, <1>8, <1>9 DEF Shrinks

LEMMA PurgedShrinks ==
    ASSUME TypeInv, NEW n \in Nodes, NEW upTo \in Vector, NEW order \in Orders
    PROVE  Shrinks(n, upTo, Purged(n, order, upTo))
  <1>. DEFINE K == Cardinality(SKUs)
  <1>1. PICK f : /\ f[0] = [rows |-> rows[n], mark |-> mark[n]]
                 /\ \A i \in 1..K :
                       f[i] = PurgeSKU(f[i - 1], order[i], snap[n][order[i]].covers, upTo)
                 /\ Purged(n, order, upTo) = f[K]
    BY PurgedTurns
  <1>2. K \in Nat
    BY CompactingAssumption, FS_CardinalityType
  <1>3. Shrinks(n, upTo, f[0])
    <2>1. rows[n] \in SUBSET Event /\ mark[n] \in Vector /\ \A a \in Nodes : mark[n][a] \in Nat
      BY DEF TypeInv, LogFits, Vector
    <2>. QED
      BY <1>1, <2>1 DEF Shrinks
  <1>4. \A i \in 1..K : order[i] \in SKUs
    BY DEF Orders
  <1>. DEFINE Bad == {i \in 0..K : ~ Shrinks(n, upTo, f[i])}
  <1>5. ASSUME Bad # {} PROVE FALSE
    <2>1. Bad \in SUBSET Nat
      BY <1>2
    <2>2. PICK j \in Bad : \A i \in Bad : j <= i
      BY <1>5, <2>1, LeastNumber
    <2>3. j \in 1..K /\ j - 1 \in 0..K /\ j - 1 \notin Bad
      BY <1>2, <1>3, <2>2
    <2>4. Shrinks(n, upTo, f[j - 1])
      BY <2>3
    <2>5. Shrinks(n, upTo, f[j])
      BY <1>1, <1>4, <2>3, <2>4, PurgeShrinks
    <2>. QED
      BY <2>5
  <1>6. K \in 0..K
    BY <1>2
  <1>. QED
    BY <1>1, <1>5, <1>6

-----------------------------------------------------------------------------
(* What a step does *)

\* The rows that a new snapshot folds.
Folded(n, s, R) ==
    {e \in Uncovered(R, s, snap[n][s].covers) : e.seq <= Frontier(R, mark[n], e.node)}

\* A new snapshot covers what the old one did, and what it folds, and no more.
Extends(new, old, S) ==
    /\ new \in Snapshot /\ new.state = Fold(old.state, S)
    /\ \A a \in Nodes :
          /\ old.covers[a] <= new.covers[a]
          /\ \/ new.covers[a] = old.covers[a]
             \/ \E e \in S : e.node = a /\ e.seq = new.covers[a]
    /\ \A e \in S : e.seq <= new.covers[e.node]

LEMMA NewSnapshotFacts ==
    ASSUME TypeInv, NEW n \in Nodes, NEW s \in SKUs, NEW R \in SUBSET Event, IsFiniteSet(R)
    PROVE  Extends(NewSnapshot(n, s, R), snap[n][s], Folded(n, s, R))
  <1>. DEFINE S == Folded(n, s, R)
              old == snap[n][s]
              covers == [a \in Nodes |-> Max({old.covers[a]} \cup Seqs(By(S, a)))]
  <1>1. old \in Snapshot /\ old.state \in States /\ old.covers \in Vector
        /\ \A a \in Nodes : old.covers[a] \in Nat
    BY DEF TypeInv, SnapshotsFit, Snapshot, Vector
  <1>2. S \in SUBSET Event /\ IsFiniteSet(S)
    BY FS_Subset DEF Folded, Uncovered
  <1>3. NewSnapshot(n, s, R) = [state |-> Fold(old.state, S), covers |-> covers]
    BY DEF NewSnapshot, Folded, Seqs, By
  <1>. HIDE DEF S, old
  <1>4. ASSUME NEW a \in Nodes
        PROVE  /\ covers[a] \in Nat /\ old.covers[a] <= covers[a]
               /\ covers[a] \in {old.covers[a]} \cup Seqs(By(S, a))
               /\ \A e \in By(S, a) : e.seq <= covers[a]
    <2>1. By(S, a) \in SUBSET Event /\ IsFiniteSet(By(S, a))
      BY <1>2, FS_Subset DEF By
    <2>2. PICK k : k = Max({old.covers[a]} \cup Seqs(By(S, a)))
      OBVIOUS
    <2>3. /\ k \in Nat /\ k >= old.covers[a] /\ k \in {old.covers[a]} \cup Seqs(By(S, a))
          /\ \A e \in By(S, a) : e.seq <= k
      BY <1>1, <2>1, <2>2, MaxSeq
    <2>4. covers[a] = k
      BY <2>2
    <2>. HIDE DEF covers
    <2>. QED
      BY <1>1, <2>3, <2>4
  <1>5. covers \in Vector
    BY <1>4 DEF Vector
  <1>. HIDE DEF covers
  <1>6. Fold(old.state, S) \in States
    BY <1>1, <1>2, StatesFacts
  <1>7. \A e \in S : e.seq <= covers[e.node]
    BY <1>2, <1>4 DEF By, Event
  <1>8. ASSUME NEW a \in Nodes
        PROVE  covers[a] = old.covers[a] \/ \E e \in S : e.node = a /\ e.seq = covers[a]
    BY <1>4 DEF Seqs, By
  <1>. QED
    BY <1>3, <1>4, <1>5, <1>6, <1>7, <1>8 DEF Extends, Snapshot, S, old

\* A row is inserted unless there is one of its number, and a snapshot of its SKU may be
\* saved or begun.
Stored(n, e, R) ==
    /\ R \in SUBSET Event /\ IsFiniteSet(R)
    /\ \/ R = rows[n] /\ \E r \in rows[n] : r.node = e.node /\ r.seq = e.seq
       \/ R = rows[n] \cup {e}
    /\ rows' = [rows EXCEPT ![n] = R]
    /\ \/ UNCHANGED <<snap, saving>>
       \/ /\ snap' = [snap EXCEPT ![n][e.sku] = NewSnapshot(n, e.sku, R)]
          /\ UNCHANGED saving
       \/ /\ saving' = [saving EXCEPT ![n] = @ \cup
                {[sku |-> e.sku, snapshot |-> NewSnapshot(n, e.sku, R)]}]
          /\ UNCHANGED snap

LEMMA StoreFacts ==
    ASSUME TypeInv, NEW n \in Nodes, NEW e \in Event, Store(n, e)
    PROVE  \E R : Stored(n, e, R)
  <1>. DEFINE R == IF \E r \in rows[n] : r.node = e.node /\ r.seq = e.seq
                   THEN rows[n] ELSE rows[n] \cup {e}
  <1>1. rows[n] \in SUBSET Event /\ IsFiniteSet(rows[n])
    BY DEF TypeInv, LogFits
  <1>2. R \in SUBSET Event /\ IsFiniteSet(R)
    BY <1>1, FS_AddElement
  <1>. QED
    BY <1>2 DEF Store, Stored

LEMMA StoredFits ==
    ASSUME TypeInv, NEW n \in Nodes, NEW e \in Event, NEW R, Stored(n, e, R)
    PROVE  /\ rows' \in [Nodes -> SUBSET Event] /\ \A p \in Nodes : IsFiniteSet(rows'[p])
           /\ snap' \in [Nodes -> [SKUs -> Snapshot]]
           /\ saving' \in [Nodes -> SUBSET Saving]
  <1>1. R \in SUBSET Event /\ IsFiniteSet(R) /\ rows' = [rows EXCEPT ![n] = R]
    BY DEF Stored
  <1>2. rows' \in [Nodes -> SUBSET Event] /\ \A p \in Nodes : IsFiniteSet(rows'[p])
    BY <1>1 DEF TypeInv, LogFits
  <1>3. e.sku \in SKUs
    BY DEF Event
  <1>4. PICK new \in Snapshot : new = NewSnapshot(n, e.sku, R)
    BY <1>1, <1>3, NewSnapshotFacts DEF Extends
  <1>5. snap \in [Nodes -> [SKUs -> Snapshot]] /\ saving \in [Nodes -> SUBSET Saving]
    BY DEF TypeInv, SnapshotsFit
  <1>6. [sku |-> e.sku, snapshot |-> new] \in Saving
    BY <1>3 DEF Saving
  <1>7. \/ UNCHANGED <<snap, saving>>
        \/ snap' = [snap EXCEPT ![n][e.sku] = new] /\ UNCHANGED saving
        \/ /\ saving' = [saving EXCEPT ![n] = @ \cup {[sku |-> e.sku, snapshot |-> new]}]
           /\ UNCHANGED snap
    BY <1>4 DEF Stored
  <1>8. snap' \in [Nodes -> [SKUs -> Snapshot]]
    <2>1. [snap[n] EXCEPT ![e.sku] = new] \in [SKUs -> Snapshot]
      BY <1>5
    <2>. QED
      BY <1>5, <1>7, <2>1
  <1>9. saving' \in [Nodes -> SUBSET Saving]
    <2>1. saving[n] \cup {[sku |-> e.sku, snapshot |-> new]} \in SUBSET Saving
      BY <1>5, <1>6
    <2>. QED
      BY <1>5, <1>7, <2>1
  <1>. QED
    BY <1>2, <1>8, <1>9

\* The number a node gives next: after all it gave, whose rows may be gone.
LEMMA NextSeqFacts ==
    ASSUME TypeInv, NEW n \in Nodes
    PROVE  /\ NextSeq(n) \in Nat \ {0} /\ NextSeq(n) > mark[n][n]
           /\ NextSeq(n) - 1 \in {mark[n][n]} \cup Seqs(By(rows[n], n))
           /\ \A r \in By(rows[n], n) : r.seq < NextSeq(n)
  <1>1. By(rows[n], n) \in SUBSET Event /\ IsFiniteSet(By(rows[n], n)) /\ mark[n][n] \in Nat
    BY FS_Subset DEF TypeInv, LogFits, Vector, By
  <1>2. PICK k : k = Max({mark[n][n]} \cup Seqs(By(rows[n], n)))
    OBVIOUS
  <1>3. /\ k \in Nat /\ k >= mark[n][n] /\ k \in {mark[n][n]} \cup Seqs(By(rows[n], n))
        /\ \A r \in By(rows[n], n) : r.seq <= k
    BY <1>1, <1>2, MaxSeq
  <1>4. NextSeq(n) = 1 + k
    BY <1>2 DEF NextSeq, Seqs, By
  <1>5. \A r \in By(rows[n], n) : r.seq \in Nat
    BY <1>1 DEF Event
  <1>. QED
    BY <1>1, <1>3, <1>4, <1>5

Emitted(n, e) ==
    /\ e \in Event /\ e.node = n /\ e.seq = NextSeq(n) /\ e.at = Now(n)
    /\ Store(n, e)
    /\ clk' = [clk EXCEPT ![n] = e.at]
    /\ written' = written \cup {e}
    /\ UNCHANGED <<net, mark, session, healed>>

LEMMA EmitFacts ==
    ASSUME TypeInv, NEW n \in net.nodes, Emit(n)
    PROVE  \E e \in Event : Emitted(n, e)
  <1>. DEFINE done == {e \in written : e.node = n}
              next == Cardinality(done) + 1
              e == [node |-> n, seq |-> NextSeq(n), sku |-> net.script[n][next], at |-> Now(n)]
  <1>1. n \in Nodes /\ net.script[n] \in Seq(SKUs)
    BY ClusterFacts
  <1>2. Cardinality(done) \in Nat
    BY FS_Subset, FS_CardinalityType DEF TypeInv, LogFits
  <1>3. /\ Cardinality(done) < Len(net.script[n]) /\ Store(n, e)
        /\ clk' = [clk EXCEPT ![n] = e.at] /\ written' = written \cup {e}
        /\ UNCHANGED <<net, mark, session, healed>>
    BY DEF Emit
  <1>4. next \in 1..Len(net.script[n])
    BY <1>1, <1>2, <1>3
  <1>5. net.script[n][next] \in SKUs
    BY <1>1, <1>4
  <1>6. Now(n) \in Nat
    BY <1>1, CompactingAssumption DEF Now, Later, TypeInv
  <1>7. e \in Event /\ e.node = n /\ e.seq = NextSeq(n) /\ e.at = Now(n)
    BY <1>1, <1>5, <1>6, NextSeqFacts DEF Event
  <1>. HIDE DEF e
  <1>. QED
    BY <1>3, <1>7 DEF Emitted

LEMMA ArrivingFacts ==
    ASSUME NEW S, NEW from, NEW to, NEW F \in Arriving(S, from, to)
    PROVE  F \subseteq S \cup written
  BY DEF Arriving

LEMMA FloorFacts ==
    ASSUME TypeInv, NEW n \in net.nodes
    PROVE  /\ AckedFloor(n) \in Vector
           /\ \A p \in net.nodes \ {n} : \A a \in Nodes :
                 AckedFloor(n)[a] <= VersionVector(p)[a]
  <1>. DEFINE held(a) == {VersionVector(p)[a] : p \in net.nodes \ {n}}
  <1>1. net.nodes \subseteq Nodes /\ net.nodes \ {n} # {}
    BY ClusterFacts
  <1>2. \A p \in net.nodes \ {n} : \A a \in Nodes : VersionVector(p)[a] \in Nat
    BY <1>1, VectorsFit DEF Vector
  <1>3. ASSUME NEW a \in Nodes
        PROVE  /\ Min(held(a)) \in Nat
               /\ \A p \in net.nodes \ {n} : Min(held(a)) <= VersionVector(p)[a]
    <2>1. held(a) \in SUBSET Nat /\ held(a) # {}
      BY <1>1, <1>2
    <2>2. Min(held(a)) \in held(a) /\ \A k \in held(a) : Min(held(a)) <= k
      <3>. HIDE DEF held
      <3>. QED
        BY <2>1, MinFacts
    <2>3. \A p \in net.nodes \ {n} : VersionVector(p)[a] \in held(a)
      OBVIOUS
    <2>. HIDE DEF held
    <2>. QED
      BY <2>1, <2>2, <2>3
  <1>4. AckedFloor(n) = [a \in Nodes |-> Min(held(a))]
    BY DEF AckedFloor
  <1>. HIDE DEF held
  <1>. QED
    BY <1>3, <1>4 DEF Vector

Compacted(n, log) ==
    /\ Shrinks(n, AckedFloor(n), log)
    /\ rows' = [rows EXCEPT ![n] = log.rows] /\ mark' = [mark EXCEPT ![n] = log.mark]
    /\ Exclusive => saving[n] = {}
    /\ UNCHANGED <<net, snap, saving, clk, session, healed, written>>

LEMMA CompactFacts ==
    ASSUME TypeInv, NEW n \in net.nodes, Compact(n)
    PROVE  \E log : Compacted(n, log)
  <1>1. n \in Nodes /\ AckedFloor(n) \in Vector
    BY ClusterFacts, FloorFacts
  <1>2. PICK order \in Orders :
           /\ Exclusive => saving[n] = {}
           /\ rows' = [rows EXCEPT ![n] = Purged(n, order, AckedFloor(n)).rows]
           /\ mark' = [mark EXCEPT ![n] = Purged(n, order, AckedFloor(n)).mark]
           /\ UNCHANGED <<net, snap, saving, clk, session, healed, written>>
    BY DEF Compact
  <1>3. Shrinks(n, AckedFloor(n), Purged(n, order, AckedFloor(n)))
    BY <1>1, PurgedShrinks
  <1>. QED
    BY <1>2, <1>3 DEF Compacted

LEMMA LinkedFacts ==
    ASSUME TypeInv, NEW c \in Nodes, NEW x \in session[c]
    PROVE  /\ c \in net.nodes /\ x.server \in net.nodes /\ c # x.server
           /\ x \in Session /\ session[c] = {x} /\ x.frames \in SUBSET Event
  <1>1. session[c] \in SUBSET Session /\ \A y \in session[c] : y = x
    BY DEF TypeInv, SessionsFit
  <1>2. <<c, x.server>> \in net.links
    BY DEF TypeInv, SessionsFit
  <1>3. <<c, x.server>> \in net.nodes \X net.nodes /\ <<c, x.server>>[1] # <<c, x.server>>[2]
    BY <1>2, ClusterFacts
  <1>. QED
    BY <1>1, <1>3 DEF Session

Merged(c, x, e, n) ==
    /\ n \in net.nodes /\ e \in x.frames /\ e \in Event
    /\ Store(n, e) /\ Observe(n, e.at)
    /\ session' = [session EXCEPT ![c] = {[x EXCEPT !.frames = @ \ {e}]}]
    /\ UNCHANGED <<net, mark, healed, written>>

LEMMA MergeFacts ==
    ASSUME TypeInv, NEW c \in Nodes, Merge(c)
    PROVE  \E x \in session[c] : \E e, n : Merged(c, x, e, n)
  <1>1. PICK x \in session[c] : \E e \in x.frames :
          LET n == IF x.pc = "down" THEN c ELSE x.server
          IN /\ Store(n, e)
             /\ Observe(n, e.at)
             /\ session' = [session EXCEPT ![c] = {[x EXCEPT !.frames = @ \ {e}]}]
             /\ UNCHANGED <<net, mark, healed, written>>
    BY DEF Merge
  <1>2. PICK n : n = IF x.pc = "down" THEN c ELSE x.server
    OBVIOUS
  <1>3. PICK e \in x.frames :
          /\ Store(n, e) /\ Observe(n, e.at)
          /\ session' = [session EXCEPT ![c] = {[x EXCEPT !.frames = @ \ {e}]}]
          /\ UNCHANGED <<net, mark, healed, written>>
    BY <1>1, <1>2
  <1>4. n \in net.nodes /\ e \in Event
    BY <1>2, <1>3, LinkedFacts
  <1>. QED
    BY <1>3, <1>4 DEF Merged

-----------------------------------------------------------------------------
(* Types are kept *)

LEMMA SessionsKept ==
    ASSUME TypeInv, UNCHANGED net, NEW c \in Nodes, NEW x \in Session,
           <<c, x.server>> \in net.links, session' = [session EXCEPT ![c] = {x}]
    PROVE  SessionsFit'
  <1>1. session' \in [Nodes -> SUBSET Session]
    BY DEF TypeInv, SessionsFit
  <1>2. ASSUME NEW d \in Nodes, NEW y \in session'[d], NEW z \in session'[d]
        PROVE  y = z /\ <<d, y.server>> \in net.links
    <2>1. CASE d = c
      BY <2>1, <1>2 DEF TypeInv, SessionsFit
    <2>2. CASE d # c
      BY <2>2, <1>2 DEF TypeInv, SessionsFit
    <2>. QED
      BY <2>1, <2>2
  <1>. QED
    BY <1>1, <1>2 DEF SessionsFit

LEMMA SessionsFewer ==
    ASSUME TypeInv, UNCHANGED net, session' \in [Nodes -> SUBSET Session],
           \A c \in Nodes : session'[c] \subseteq session[c]
    PROVE  SessionsFit'
  BY DEF TypeInv, SessionsFit

LEMMA TypeInit == Init => TypeInv
  <1>. SUFFICES ASSUME Init PROVE TypeInv
    OBVIOUS
  <1>1. Zero \in Vector /\ NoSnapshot \in Snapshot
    BY StatesFacts DEF Zero, Vector, NoSnapshot, Snapshot
  <1>2. net \in Clusters /\ clk \in [Nodes -> Nat] /\ healed \in BOOLEAN
    BY DEF Init
  <1>3. LogFits
    BY <1>1, FS_EmptySet DEF Init, LogFits
  <1>4. SnapshotsFit
    BY <1>1 DEF Init, SnapshotsFit
  <1>5. SessionsFit
    BY DEF Init, SessionsFit
  <1>. QED
    BY <1>2, <1>3, <1>4, <1>5 DEF TypeInv

LEMMA EmitType == ASSUME TypeInv, NEW n \in net.nodes, Emit(n) PROVE TypeInv'
  <1>1. PICK e \in Event : Emitted(n, e)
    BY EmitFacts
  <1>2. n \in Nodes
    BY ClusterFacts
  <1>3. PICK R : Stored(n, e, R)
    BY <1>1, <1>2, StoreFacts DEF Emitted
  <1>4. SnapshotsFit'
    BY <1>2, <1>3, StoredFits DEF SnapshotsFit
  <1>5. LogFits'
    <2>1. written' \in SUBSET Event /\ IsFiniteSet(written')
      BY <1>1, FS_AddElement DEF Emitted, TypeInv, LogFits
    <2>2. UNCHANGED mark
      BY <1>1 DEF Emitted
    <2>. QED
      BY <1>2, <1>3, <2>1, <2>2, StoredFits DEF TypeInv, LogFits
  <1>6. SessionsFit' /\ net' \in Clusters /\ healed' \in BOOLEAN
    BY <1>1 DEF Emitted, TypeInv, SessionsFit
  <1>7. clk' \in [Nodes -> Nat]
    BY <1>1 DEF Emitted, TypeInv, Event
  <1>. QED
    BY <1>4, <1>5, <1>6, <1>7 DEF TypeInv

LEMMA MergeType == ASSUME TypeInv, NEW c \in Nodes, Merge(c) PROVE TypeInv'
  <1>1. PICK x \in session[c] : \E e, n : Merged(c, x, e, n)
    BY MergeFacts
  <1>2. PICK e, n : Merged(c, x, e, n)
    BY <1>1
  <1>3. e \in Event /\ n \in Nodes
    BY <1>2, ClusterFacts DEF Merged
  <1>4. PICK R : Stored(n, e, R)
    BY <1>2, <1>3, StoreFacts DEF Merged
  <1>5. SnapshotsFit'
    BY <1>3, <1>4, StoredFits DEF SnapshotsFit
  <1>6. LogFits'
    <2>1. UNCHANGED <<mark, written>>
      BY <1>2 DEF Merged
    <2>. QED
      BY <1>3, <1>4, <2>1, StoredFits DEF TypeInv, LogFits
  <1>7. SessionsFit'
    <2>. DEFINE y == [x EXCEPT !.frames = @ \ {e}]
    <2>1. x \in Session /\ <<c, x.server>> \in net.links
      BY LinkedFacts DEF TypeInv, SessionsFit
    <2>2. y \in Session /\ y.server = x.server
      BY <2>1 DEF Session
    <2>3. UNCHANGED net /\ session' = [session EXCEPT ![c] = {y}]
      BY <1>2 DEF Merged
    <2>. HIDE DEF y
    <2>. QED
      BY <2>1, <2>2, <2>3, SessionsKept
  <1>8. clk' \in [Nodes -> Nat] /\ net' \in Clusters /\ healed' \in BOOLEAN
    BY <1>2, <1>3 DEF Merged, Observe, Later, TypeInv, Event
  <1>. QED
    BY <1>5, <1>6, <1>7, <1>8 DEF TypeInv

LEMMA SaveType == ASSUME TypeInv, NEW n \in net.nodes, SaveSnapshot(n) PROVE TypeInv'
  <1>1. PICK t \in saving[n] :
          /\ snap' = [snap EXCEPT ![n][t.sku] = t.snapshot]
          /\ saving' = [saving EXCEPT ![n] = @ \ {t}]
          /\ UNCHANGED <<net, rows, mark, clk, session, healed, written>>
    BY DEF SaveSnapshot
  <1>2. n \in Nodes /\ t \in Saving
    BY ClusterFacts DEF TypeInv, SnapshotsFit
  <1>3. SnapshotsFit'
    <2>1. [snap[n] EXCEPT ![t.sku] = t.snapshot] \in [SKUs -> Snapshot]
      BY <1>2 DEF TypeInv, SnapshotsFit, Saving
    <2>. QED
      BY <1>1, <1>2, <2>1 DEF TypeInv, SnapshotsFit
  <1>4. LogFits' /\ SessionsFit'
    BY <1>1 DEF TypeInv, LogFits, SessionsFit
  <1>. QED
    BY <1>1, <1>3, <1>4 DEF TypeInv

LEMMA CompactType == ASSUME TypeInv, NEW n \in net.nodes, Compact(n) PROVE TypeInv'
  <1>1. PICK log : Compacted(n, log)
    BY CompactFacts
  <1>2. n \in Nodes /\ log.rows \in SUBSET rows[n] /\ log.mark \in Vector
    BY <1>1, ClusterFacts DEF Compacted, Shrinks
  <1>3. LogFits'
    <2>1. log.rows \in SUBSET Event /\ IsFiniteSet(log.rows)
      BY <1>2, FS_Subset DEF TypeInv, LogFits
    <2>. QED
      BY <1>1, <1>2, <2>1 DEF TypeInv, LogFits, Compacted
  <1>4. SnapshotsFit' /\ SessionsFit'
    BY <1>1 DEF TypeInv, SnapshotsFit, SessionsFit, Compacted
  <1>. QED
    BY <1>1, <1>3, <1>4 DEF TypeInv, Compacted

LEMMA RestartType == ASSUME TypeInv, NEW n \in net.nodes, Restart(n) PROVE TypeInv'
  <1>1. n \in Nodes /\ rows[n] \in SUBSET Event /\ IsFiniteSet(rows[n])
    BY ClusterFacts DEF TypeInv, LogFits
  <1>2. Max({0} \cup {e.at : e \in rows[n]}) \in Nat
    BY <1>1, MaxStamp DEF Stamps
  <1>3. clk' \in [Nodes -> Nat]
    BY <1>1, <1>2 DEF Restart, TypeInv
  <1>4. SessionsFit'
    <2>1. session' = [c \in Nodes |-> {x \in session[c] : n \notin {c, x.server}}] /\ UNCHANGED net
      BY DEF Restart
    <2>2. \A c \in Nodes : session[c] \in SUBSET Session
      BY DEF TypeInv, SessionsFit
    <2>. QED
      BY <2>1, <2>2, SessionsFewer
  <1>5. LogFits' /\ SnapshotsFit'
    BY <1>1 DEF Restart, TypeInv, LogFits, SnapshotsFit
  <1>. QED
    BY <1>3, <1>4, <1>5 DEF Restart, TypeInv

LEMMA LogStays ==
    ASSUME TypeInv, UNCHANGED <<net, logVars, clk, written>>, healed' \in BOOLEAN, SessionsFit'
    PROVE  TypeInv'
  BY DEF logVars, TypeInv, LogFits, SnapshotsFit

LEMMA OpenType ==
    ASSUME TypeInv, NEW l \in Links, Open(l[1], l[2]) PROVE TypeInv'
  <1>1. /\ <<l[1], l[2]>> \in net.links
        /\ UNCHANGED <<net, logVars, clk, healed, written>>
    BY DEF Open
  <1>2. l[1] \in Nodes /\ l[2] \in Nodes
    BY <1>1, ClusterFacts
  <1>3. PICK F \in Arriving(Since(l[2], VersionVector(l[1])), l[2], l[1]) :
          session' = [session EXCEPT ![l[1]] =
            {[server |-> l[2], pc |-> "down", vv |-> VersionVector(l[2]), frames |-> F]}]
    BY DEF Open
  <1>4. F \in SUBSET Event
    BY <1>2, <1>3, ArrivingFacts DEF Since, TypeInv, LogFits
  <1>. DEFINE x == [server |-> l[2], pc |-> "down", vv |-> VersionVector(l[2]), frames |-> F]
  <1>5. x \in Session /\ x.server = l[2]
    BY <1>2, <1>4, VectorsFit DEF Session
  <1>. HIDE DEF x
  <1>6. SessionsFit'
    BY <1>1, <1>2, <1>3, <1>5, SessionsKept DEF x
  <1>. QED
    BY <1>1, <1>6, LogStays DEF TypeInv

LEMMA PushFacts ==
    ASSUME TypeInv, NEW c \in Nodes, Push(c)
    PROVE  \E x \in session[c], F \in SUBSET Event :
              /\ F \subseteq rows[c] \cup written
              /\ session' = [session EXCEPT ![c] =
                    {[x EXCEPT !.pc = "up", !.vv = Zero, !.frames = F]}]
              /\ UNCHANGED <<net, logVars, clk, healed, written>>
  <1>1. PICK x \in session[c] : \E F \in Arriving(Since(c, x.vv), c, x.server) :
          /\ session' = [session EXCEPT ![c] =
                {[x EXCEPT !.pc = "up", !.vv = Zero, !.frames = F]}]
          /\ UNCHANGED <<net, logVars, clk, healed, written>>
    BY DEF Push
  <1>2. PICK F \in Arriving(Since(c, x.vv), c, x.server) :
          /\ session' = [session EXCEPT ![c] =
                {[x EXCEPT !.pc = "up", !.vv = Zero, !.frames = F]}]
          /\ UNCHANGED <<net, logVars, clk, healed, written>>
    BY <1>1
  <1>3. F \subseteq rows[c] \cup written
    BY <1>2, ArrivingFacts DEF Since
  <1>4. F \in SUBSET Event
    BY <1>3 DEF TypeInv, LogFits
  <1>. QED
    BY <1>2, <1>3, <1>4

LEMMA PushType == ASSUME TypeInv, NEW c \in Nodes, Push(c) PROVE TypeInv'
  <1>1. PICK x \in session[c], F \in SUBSET Event :
          /\ session' = [session EXCEPT ![c] =
                {[x EXCEPT !.pc = "up", !.vv = Zero, !.frames = F]}]
          /\ UNCHANGED <<net, logVars, clk, healed, written>>
    BY PushFacts
  <1>. DEFINE y == [x EXCEPT !.pc = "up", !.vv = Zero, !.frames = F]
  <1>2. x \in Session /\ <<c, x.server>> \in net.links /\ Zero \in Vector
    BY LinkedFacts DEF TypeInv, SessionsFit, Zero, Vector
  <1>3. y \in Session /\ y.server = x.server
    BY <1>2 DEF Session
  <1>4. UNCHANGED net /\ session' = [session EXCEPT ![c] = {y}]
    BY <1>1
  <1>. HIDE DEF y
  <1>5. SessionsFit'
    BY <1>2, <1>3, <1>4, SessionsKept
  <1>. QED
    BY <1>1, <1>5, LogStays DEF TypeInv

LEMMA EndType == ASSUME TypeInv, NEW c \in Nodes, Close(c) \/ Fail(c) PROVE TypeInv'
  <1>1. /\ session' = [session EXCEPT ![c] = {}]
        /\ UNCHANGED <<net, logVars, clk, healed, written>>
    BY DEF Close, Fail
  <1>2. \A d \in Nodes : session[d] \in SUBSET Session
    BY DEF TypeInv, SessionsFit
  <1>3. SessionsFit'
    BY <1>1, <1>2, SessionsFewer DEF TypeInv, SessionsFit
  <1>. QED
    BY <1>1, <1>3, LogStays DEF TypeInv

LEMMA TypeNext == TypeInv /\ [Next]_vars => TypeInv'
  <1>. SUFFICES ASSUME TypeInv, [Next]_vars PROVE TypeInv'
    OBVIOUS
  <1>1. ASSUME NEW n \in net.nodes, Emit(n) \/ SaveSnapshot(n) \/ Compact(n) \/ Restart(n)
        PROVE  TypeInv'
    BY <1>1, EmitType, SaveType, CompactType, RestartType
  <1>2. ASSUME NEW l \in Links, Open(l[1], l[2]) PROVE TypeInv'
    BY <1>2, OpenType
  <1>3. ASSUME NEW c \in Nodes, Merge(c) \/ Push(c) \/ Close(c) \/ Fail(c) PROVE TypeInv'
    BY <1>3, MergeType, PushType, EndType
  <1>4. ASSUME Heal PROVE TypeInv'
    BY <1>4, LogStays DEF Heal, TypeInv, SessionsFit
  <1>5. ASSUME UNCHANGED vars PROVE TypeInv'
    BY <1>5, LogStays DEF vars, logVars, TypeInv, SessionsFit
  <1>. QED
    BY <1>1, <1>2, <1>3, <1>4, <1>5 DEF Next

LEMMA TypeInvariant == Spec => []TypeInv
  BY TypeInit, TypeNext, PTL DEF Spec

\* The variables have their types: a log stores events and snapshots only, and a client has
\* one session at most, on a link of its cluster (Append, SaveSnapshot, SyncOnce).
THEOREM TypeCorrect == Spec => []TypeOK
  BY TypeInvariant, TypesHold, PTL

-----------------------------------------------------------------------------
(* The version vectors *)

LEMMA VectorIs ==
    \A n \in Nodes : \A a \in Nodes :
       /\ VersionVector(n)[a] = Frontier(rows[n], mark[n], a)
       /\ VersionVector(n)'[a] = Frontier(rows'[n], mark'[n], a)
  BY DEF VersionVector

\* No version vector ever goes back, though rows are deleted.
Advances == \A p \in Nodes : \A a \in Nodes : VersionVector(p)[a] <= VersionVector(p)'[a]

LEMMA VectorsStay ==
    ASSUME TypeInv, UNCHANGED <<rows, mark>>
    PROVE  Advances /\ \A p \in Nodes : VersionVector(p)' = VersionVector(p)
  <1>1. \A p \in Nodes : VersionVector(p)' = VersionVector(p)
    BY DEF VersionVector
  <1>2. \A p, a \in Nodes : VersionVector(p)[a] \in Nat
    BY VectorsFit DEF Vector
  <1>. QED
    BY <1>1, <1>2 DEF Advances

LEMMA StoredAdvances ==
    ASSUME TypeInv, TypeInv', NEW n \in Nodes, NEW e \in Event, NEW R, Stored(n, e, R),
           UNCHANGED mark
    PROVE  Advances
  <1>1. ASSUME NEW p \in Nodes, NEW a \in Nodes
        PROVE  Frontier(rows[p], mark[p], a) <= Frontier(rows'[p], mark'[p], a)
    <2>1. /\ rows[p] \in SUBSET Event /\ IsFiniteSet(rows[p]) /\ mark[p] \in Vector
          /\ rows'[p] \in SUBSET Event /\ IsFiniteSet(rows'[p]) /\ mark'[p] \in Vector
      BY DEF TypeInv, LogFits
    <2>2. rows[p] \subseteq rows'[p]
      BY DEF Stored, TypeInv, LogFits
    <2>3. mark[p][a] <= mark'[p][a]
      BY DEF Vector, TypeInv, LogFits
    <2>4. \A r \in By(rows[p], a) : r \in rows'[p]
      BY <2>2 DEF By
    <2>. QED
      BY <2>1, <2>3, <2>4, FrontierGrows
  <1>. QED
    BY <1>1, VectorIs DEF Advances

LEMMA CompactAdvances ==
    ASSUME TypeInv, TypeInv', NEW n \in net.nodes, NEW log, Compacted(n, log)
    PROVE  Advances
  <1>1. n \in Nodes
    BY ClusterFacts
  <1>2. ASSUME NEW p \in Nodes, NEW a \in Nodes
        PROVE  Frontier(rows[p], mark[p], a) <= Frontier(rows'[p], mark'[p], a)
    <2>1. /\ rows[p] \in SUBSET Event /\ IsFiniteSet(rows[p]) /\ mark[p] \in Vector
          /\ rows'[p] \in SUBSET Event /\ IsFiniteSet(rows'[p]) /\ mark'[p] \in Vector
      BY DEF TypeInv, LogFits
    <2>2. CASE p = n
      <3>1. rows'[n] = log.rows /\ mark'[n] = log.mark
        BY <1>1 DEF Compacted, TypeInv, LogFits
      <3>2. mark[n][a] <= log.mark[a] /\ \A r \in rows[n] : r \in log.rows \/ r.seq <= log.mark[r.node]
        BY DEF Compacted, Shrinks
      <3>3. \A r \in By(rows[n], a) : r \in rows'[n] \/ r.seq <= mark'[n][a]
        BY <3>1, <3>2 DEF By
      <3>. QED
        BY <2>1, <2>2, <3>1, <3>2, <3>3, FrontierGrows
    <2>3. CASE p # n
      <3>1. rows'[p] = rows[p] /\ mark'[p] = mark[p] /\ mark[p][a] \in Nat
        BY <2>3 DEF Compacted, TypeInv, LogFits, Vector
      <3>. QED
        BY <2>1, <3>1, FrontierFacts
    <2>. QED
      BY <2>2, <2>3
  <1>. QED
    BY <1>2, VectorIs DEF Advances

LEMMA VectorsAdvance == TypeInv /\ [Next]_vars => Advances
  <1>. SUFFICES ASSUME TypeInv, [Next]_vars PROVE Advances
    OBVIOUS
  <1>0. TypeInv'
    BY TypeNext
  <1>1. ASSUME NEW n \in net.nodes, Emit(n) PROVE Advances
    <2>1. PICK e \in Event : Emitted(n, e)
      BY <1>1, EmitFacts
    <2>2. n \in Nodes
      BY ClusterFacts
    <2>3. PICK R : Stored(n, e, R)
      BY <2>1, <2>2, StoreFacts DEF Emitted
    <2>. QED
      BY <1>0, <2>1, <2>2, <2>3, StoredAdvances DEF Emitted
  <1>2. ASSUME NEW c \in Nodes, Merge(c) PROVE Advances
    <2>1. PICK x \in session[c] : \E e, n : Merged(c, x, e, n)
      BY <1>2, MergeFacts
    <2>2. PICK e, n : Merged(c, x, e, n)
      BY <2>1
    <2>3. e \in Event /\ n \in Nodes
      BY <2>2, ClusterFacts DEF Merged
    <2>4. PICK R : Stored(n, e, R)
      BY <2>2, <2>3, StoreFacts DEF Merged
    <2>. QED
      BY <1>0, <2>2, <2>3, <2>4, StoredAdvances DEF Merged
  <1>3. ASSUME NEW n \in net.nodes, Compact(n) PROVE Advances
    BY <1>0, <1>3, CompactFacts, CompactAdvances
  <1>4. ASSUME NEW n \in net.nodes, SaveSnapshot(n) \/ Restart(n) PROVE Advances
    BY <1>4, VectorsStay DEF SaveSnapshot, Restart
  <1>5. ASSUME NEW l \in Links, Open(l[1], l[2]) PROVE Advances
    BY <1>5, VectorsStay DEF Open, logVars
  <1>6. ASSUME NEW c \in Nodes, Push(c) \/ Close(c) \/ Fail(c) PROVE Advances
    BY <1>6, VectorsStay DEF Push, Close, Fail, logVars
  <1>7. ASSUME Heal \/ UNCHANGED vars PROVE Advances
    BY <1>7, VectorsStay DEF Heal, vars, logVars
  <1>. QED
    BY <1>1, <1>2, <1>3, <1>4, <1>5, <1>6, <1>7 DEF Next

-----------------------------------------------------------------------------
(* The log *)

\* Nothing is in a log, or under way, that no caller was acknowledged.
RowsWritten ==
    /\ \A n \in Nodes : rows[n] \subseteq written
    /\ \A c \in Nodes : \A x \in session[c] : x.frames \subseteq written

\* A number of an author is given once.
Apart(S) == \A e, f \in S : e.node = f.node /\ e.seq = f.seq => e = f

\* An author claims to hold everything it wrote.
OwnHeld == \A e \in written : e.node \in net.nodes /\ e.seq <= VersionVector(e.node)[e.node]

\* Whoever deletes an author's rows up to a number, every node holds them.
MarksHeld == \A n, p \in net.nodes : \A a \in Nodes : mark[n][a] <= VersionVector(p)[a]

\* Snapshots cover no more than their node holds.
Within(p, n) == \A a \in Nodes : p.covers[a] <= VersionVector(n)[a]
CoversHeld ==
    \A n \in net.nodes :
       /\ \A s \in SKUs : Within(snap[n][s], n)
       /\ \A t \in saving[n] : Within(t.snapshot, n)

\* Nodes that are not in the cluster have no log.
Outside == \A n \in Nodes \ net.nodes : rows[n] = {} /\ mark[n] = Zero

LogInv == RowsWritten /\ Apart(written) /\ OwnHeld /\ MarksHeld /\ CoversHeld /\ Outside

\* What a node claims to hold it has a row of, unless the row was deleted.
LEMMA ClaimedRow ==
    ASSUME NEW R \in SUBSET Event, IsFiniteSet(R), NEW m \in Vector, NEW W \in SUBSET Event,
           R \subseteq W, Apart(W), NEW e \in W, e.seq <= Frontier(R, m, e.node)
    PROVE  e \in R \/ e.seq <= m[e.node]
  <1>. SUFFICES ASSUME ~ (e.seq <= m[e.node]) PROVE e \in R
    OBVIOUS
  <1>1. e.node \in Nodes /\ e.seq \in Nat /\ m[e.node] \in Nat
    BY DEF Event, Vector
  <1>2. PICK k \in Nat : k = Frontier(R, m, e.node)
    BY <1>1, FrontierFacts
  <1>3. \A i \in (m[e.node] + 1)..k : i \in Seqs(By(R, e.node))
    BY <1>1, <1>2, FrontierFacts
  <1>4. e.seq \in (m[e.node] + 1)..k
    BY <1>1, <1>2
  <1>5. PICK r \in R : r.node = e.node /\ r.seq = e.seq
    BY <1>3, <1>4 DEF Seqs, By
  <1>. QED
    BY <1>5 DEF Apart

LEMMA AuthorHoldsMost ==
    ASSUME TypeInv, LogInv, NEW p \in net.nodes, NEW a \in net.nodes
    PROVE  VersionVector(p)[a] <= VersionVector(a)[a]
  <1>1. p \in Nodes /\ a \in Nodes
    BY ClusterFacts
  <1>2. rows[p] \in SUBSET Event /\ IsFiniteSet(rows[p]) /\ mark[p] \in Vector
    BY <1>1 DEF TypeInv, LogFits
  <1>3. Frontier(rows[p], mark[p], a) \in Seqs(By(rows[p], a)) \cup {mark[p][a]}
    BY <1>1, <1>2, FrontierFacts
  <1>4. CASE Frontier(rows[p], mark[p], a) = mark[p][a]
    BY <1>1, <1>4, VectorIs DEF LogInv, MarksHeld
  <1>5. CASE Frontier(rows[p], mark[p], a) \in Seqs(By(rows[p], a))
    <2>1. PICK r \in rows[p] : r.node = a /\ r.seq = Frontier(rows[p], mark[p], a)
      BY <1>5 DEF Seqs, By
    <2>2. r \in written
      BY <1>1, <2>1 DEF LogInv, RowsWritten
    <2>. QED
      BY <1>1, <2>1, <2>2, VectorIs DEF LogInv, OwnHeld
  <1>. QED
    BY <1>3, <1>4, <1>5

LEMMA LogInit == TypeInv /\ Init => LogInv
  <1>. SUFFICES ASSUME TypeInv, Init PROVE LogInv
    OBVIOUS
  <1>1. \A n, a \in Nodes : VersionVector(n)[a] \in Nat
    BY VectorsFit DEF Vector
  <1>2. RowsWritten /\ Apart(written) /\ OwnHeld /\ Outside
    BY DEF Init, RowsWritten, Apart, OwnHeld, Outside
  <1>3. net.nodes \subseteq Nodes
    BY ClusterFacts
  <1>4. MarksHeld
    BY <1>1, <1>3 DEF Init, MarksHeld, Zero
  <1>5. CoversHeld
    BY <1>1, <1>3 DEF Init, CoversHeld, Within, NoSnapshot, Zero
  <1>. QED
    BY <1>2, <1>4, <1>5 DEF LogInv

LEMMA VectorTypes ==
    ASSUME TypeInv, TypeInv', NEW p \in Nodes, NEW a \in Nodes
    PROVE  VersionVector(p)[a] \in Nat /\ VersionVector(p)'[a] \in Nat
  <1>1. /\ rows[p] \in SUBSET Event /\ IsFiniteSet(rows[p]) /\ mark[p] \in Vector
        /\ rows'[p] \in SUBSET Event /\ IsFiniteSet(rows'[p]) /\ mark'[p] \in Vector
    BY DEF TypeInv, LogFits
  <1>2. Frontier(rows[p], mark[p], a) \in Nat /\ Frontier(rows'[p], mark'[p], a) \in Nat
    BY <1>1, FrontierFacts
  <1>. QED
    BY <1>2, VectorIs

\* Where nothing changes but what advances.
LEMMA OwnKept ==
    ASSUME TypeInv, TypeInv', OwnHeld, Apart(written), Advances, UNCHANGED <<net, written>>
    PROVE  OwnHeld' /\ Apart(written)'
  <1>1. Apart(written)'
    BY DEF Apart
  <1>2. ASSUME NEW e \in written
        PROVE  e.node \in net.nodes /\ e.seq <= VersionVector(e.node)'[e.node]
    <2>1. e.node \in net.nodes /\ e.seq <= VersionVector(e.node)[e.node] /\ e.seq \in Nat
          /\ e.node \in Nodes
      BY DEF OwnHeld, TypeInv, LogFits, Event
    <2>2. PICK i \in Nat : i = VersionVector(e.node)[e.node]
      BY <2>1, VectorTypes
    <2>3. PICK k \in Nat : k = VersionVector(e.node)'[e.node]
      BY <2>1, VectorTypes
    <2>4. i <= k
      BY <2>1, <2>2, <2>3 DEF Advances
    <2>. QED
      BY <2>1, <2>2, <2>3, <2>4
  <1>3. OwnHeld'
    BY <1>2 DEF OwnHeld
  <1>. QED
    BY <1>1, <1>3

LEMMA MarksKept ==
    ASSUME TypeInv, TypeInv', MarksHeld, Advances, UNCHANGED <<net, mark>>
    PROVE  MarksHeld'
  <1>1. ASSUME NEW n \in net.nodes, NEW p \in net.nodes, NEW a \in Nodes
        PROVE  mark[n][a] <= VersionVector(p)'[a]
    <2>1. n \in Nodes /\ p \in Nodes
      BY ClusterFacts
    <2>2. PICK m \in Nat : m = mark[n][a]
      BY <2>1 DEF TypeInv, LogFits, Vector
    <2>3. PICK i \in Nat : i = VersionVector(p)[a]
      BY <2>1, VectorTypes
    <2>4. PICK k \in Nat : k = VersionVector(p)'[a]
      BY <2>1, VectorTypes
    <2>5. m <= i /\ i <= k
      BY <2>1, <2>2, <2>3, <2>4 DEF MarksHeld, Advances
    <2>. QED
      BY <2>2, <2>4, <2>5
  <1>. QED
    BY <1>1 DEF MarksHeld

LEMMA WithinStays ==
    ASSUME TypeInv, TypeInv', Advances, NEW n \in Nodes, NEW p \in Snapshot, Within(p, n),
           NEW a \in Nodes
    PROVE  p.covers[a] <= VersionVector(n)'[a]
  <1>1. PICK c \in Nat : c = p.covers[a]
    BY DEF Snapshot, Vector
  <1>2. PICK i \in Nat : i = VersionVector(n)[a]
    BY VectorTypes
  <1>3. PICK k \in Nat : k = VersionVector(n)'[a]
    BY VectorTypes
  <1>4. c <= i /\ i <= k
    BY <1>1, <1>2, <1>3 DEF Within, Advances
  <1>. QED
    BY <1>1, <1>3, <1>4

\* Snapshots are those there were, or have been moved.
LEMMA CoversKept ==
    ASSUME TypeInv, TypeInv', CoversHeld, Advances, UNCHANGED net,
           \A n \in net.nodes : \A s \in SKUs :
              \/ snap'[n][s] = snap[n][s]
              \/ \E t \in saving[n] : snap'[n][s] = t.snapshot,
           \A n \in net.nodes : saving'[n] \subseteq saving[n]
    PROVE  CoversHeld'
  <1>1. net.nodes \subseteq Nodes
    BY ClusterFacts
  <1>2. ASSUME NEW n \in net.nodes, NEW t \in saving[n], NEW a \in Nodes
        PROVE  t.snapshot.covers[a] <= VersionVector(n)'[a]
    <2>1. t.snapshot \in Snapshot /\ Within(t.snapshot, n)
      BY <1>1 DEF CoversHeld, TypeInv, SnapshotsFit, Saving
    <2>. QED
      BY <1>1, <2>1, WithinStays
  <1>3. ASSUME NEW n \in net.nodes, NEW s \in SKUs, NEW a \in Nodes
        PROVE  snap[n][s].covers[a] <= VersionVector(n)'[a]
    <2>1. snap[n][s] \in Snapshot /\ Within(snap[n][s], n)
      BY <1>1 DEF CoversHeld, TypeInv, SnapshotsFit
    <2>. QED
      BY <1>1, <2>1, WithinStays
  <1>4. ASSUME NEW n \in net.nodes, NEW s \in SKUs, NEW a \in Nodes
        PROVE  snap'[n][s].covers[a] <= VersionVector(n)'[a]
    <2>1. CASE snap'[n][s] = snap[n][s]
      BY <1>3, <2>1
    <2>2. CASE \E t \in saving[n] : snap'[n][s] = t.snapshot
      BY <1>2, <2>2
    <2>. QED
      BY <2>1, <2>2
  <1>. QED
    BY <1>2, <1>4 DEF CoversHeld, Within

LEMMA StoredCovers ==
    ASSUME TypeInv, TypeInv', CoversHeld, Advances, UNCHANGED <<net, mark>>,
           NEW n \in net.nodes, NEW e \in Event, NEW R, Stored(n, e, R)
    PROVE  CoversHeld'
  <1>1. net.nodes \subseteq Nodes /\ e.sku \in SKUs
    BY ClusterFacts DEF Event
  <1>2. R \in SUBSET Event /\ IsFiniteSet(R) /\ rows' = [rows EXCEPT ![n] = R]
    BY DEF Stored
  <1>3. PICK new \in Snapshot : new = NewSnapshot(n, e.sku, R)
    BY <1>1, <1>2, NewSnapshotFacts DEF Extends
  <1>4. Extends(new, snap[n][e.sku], Folded(n, e.sku, R))
    BY <1>1, <1>2, <1>3, NewSnapshotFacts
  <1>5. ASSUME NEW a \in Nodes PROVE new.covers[a] <= VersionVector(n)'[a]
    <2>1. CASE new.covers[a] = snap[n][e.sku].covers[a]
      <3>1. snap[n][e.sku] \in Snapshot /\ Within(snap[n][e.sku], n)
        BY <1>1 DEF CoversHeld, TypeInv, SnapshotsFit
      <3>. QED
        BY <1>1, <2>1, <3>1, WithinStays
    <2>2. ASSUME NEW f \in Folded(n, e.sku, R), f.node = a, f.seq = new.covers[a]
          PROVE  new.covers[a] <= VersionVector(n)'[a]
      <3>1. f.seq <= Frontier(R, mark[n], a)
        BY <2>2 DEF Folded
      <3>2. rows'[n] = R /\ mark'[n] = mark[n]
        BY <1>1, <1>2 DEF TypeInv, LogFits
      <3>. QED
        BY <1>1, <2>2, <3>1, <3>2, VectorIs
    <2>. QED
      BY <1>4, <2>1, <2>2 DEF Extends
  <1>6. ASSUME NEW p \in net.nodes, NEW t \in saving[p], NEW a \in Nodes
        PROVE  t.snapshot.covers[a] <= VersionVector(p)'[a]
    <2>1. t.snapshot \in Snapshot /\ Within(t.snapshot, p)
      BY <1>1 DEF CoversHeld, TypeInv, SnapshotsFit, Saving
    <2>. QED
      BY <1>1, <2>1, WithinStays
  <1>7. ASSUME NEW p \in net.nodes, NEW s \in SKUs, NEW a \in Nodes
        PROVE  snap[p][s].covers[a] <= VersionVector(p)'[a]
    <2>1. snap[p][s] \in Snapshot /\ Within(snap[p][s], p)
      BY <1>1 DEF CoversHeld, TypeInv, SnapshotsFit
    <2>. QED
      BY <1>1, <2>1, WithinStays
  <1>8. \/ UNCHANGED <<snap, saving>>
        \/ snap' = [snap EXCEPT ![n][e.sku] = new] /\ UNCHANGED saving
        \/ /\ saving' = [saving EXCEPT ![n] = @ \cup {[sku |-> e.sku, snapshot |-> new]}]
           /\ UNCHANGED snap
    BY <1>3 DEF Stored
  <1>9. ASSUME NEW p \in net.nodes, NEW s \in SKUs
        PROVE  snap'[p][s] = snap[p][s] \/ (p = n /\ snap'[p][s] = new)
    BY <1>1, <1>8 DEF TypeInv, SnapshotsFit
  <1>10. ASSUME NEW p \in net.nodes, NEW t \in saving'[p]
         PROVE  t \in saving[p] \/ (p = n /\ t.snapshot = new)
    BY <1>1, <1>8 DEF TypeInv, SnapshotsFit
  <1>11. ASSUME NEW p \in net.nodes, NEW s \in SKUs, NEW a \in Nodes
         PROVE  snap'[p][s].covers[a] <= VersionVector(p)'[a]
    BY <1>5, <1>7, <1>9
  <1>12. ASSUME NEW p \in net.nodes, NEW t \in saving'[p], NEW a \in Nodes
         PROVE  t.snapshot.covers[a] <= VersionVector(p)'[a]
    BY <1>5, <1>6, <1>10
  <1>. QED
    BY <1>11, <1>12 DEF CoversHeld, Within

\* An author's own frontier is the last number it gave.
LEMMA OwnFrontier ==
    ASSUME TypeInv, LogInv, NEW n \in net.nodes
    PROVE  VersionVector(n)[n] = NextSeq(n) - 1
  <1>1. n \in Nodes
    BY ClusterFacts
  <1>2. rows[n] \in SUBSET Event /\ IsFiniteSet(rows[n]) /\ mark[n] \in Vector /\ mark[n][n] \in Nat
    BY <1>1 DEF TypeInv, LogFits, Vector
  <1>3. PICK f \in Nat : f = VersionVector(n)[n]
    BY <1>1, VectorsFit DEF Vector
  <1>4. f >= mark[n][n] /\ f \in Seqs(By(rows[n], n)) \cup {mark[n][n]}
    BY <1>1, <1>2, <1>3, FrontierFacts, VectorIs
  <1>5. PICK k \in Nat \ {0} : k = NextSeq(n)
    BY <1>1, NextSeqFacts
  <1>6. f < k
    <2>1. \A i \in Seqs(By(rows[n], n)) : i < k
      BY <1>1, <1>5, NextSeqFacts DEF Seqs
    <2>2. mark[n][n] < k
      BY <1>1, <1>2, <1>5, NextSeqFacts
    <2>. QED
      BY <1>4, <2>1, <2>2
  <1>7. k - 1 <= f
    <2>1. CASE k - 1 = mark[n][n]
      BY <1>4, <2>1
    <2>2. CASE k - 1 \in Seqs(By(rows[n], n))
      <3>1. PICK r \in rows[n] : r.node = n /\ r.seq = k - 1
        BY <2>2 DEF Seqs, By
      <3>2. r \in written
        BY <1>1, <3>1 DEF LogInv, RowsWritten
      <3>. QED
        BY <1>3, <3>1, <3>2 DEF LogInv, OwnHeld
    <2>. QED
      BY <1>1, <1>5, <2>1, <2>2, NextSeqFacts
  <1>. QED
    BY <1>3, <1>5, <1>6, <1>7

\* What an author writes nobody has, and it holds at once.
LEMMA EmitOwn ==
    ASSUME TypeInv, LogInv, TypeInv', Advances, NEW n \in net.nodes, NEW e, Emitted(n, e),
           NEW R, Stored(n, e, R)
    PROVE  /\ R = rows[n] \cup {e}
           /\ VersionVector(n)'[n] = e.seq
           /\ \A f \in written : f.node = n => f.seq < e.seq
  <1>1. n \in Nodes
    BY ClusterFacts
  <1>2. e \in Event /\ e.node = n /\ e.seq = NextSeq(n) /\ UNCHANGED mark
    BY DEF Emitted
  <1>3. PICK k \in Nat \ {0} : k = e.seq
    BY <1>2 DEF Event
  <1>4. R = rows[n] \cup {e}
    <2>1. \A r \in rows[n] : r.node = n => r.seq < k
      BY <1>1, <1>2, <1>3, NextSeqFacts DEF By
    <2>2. ASSUME NEW r \in rows[n], r.node = e.node, r.seq = e.seq PROVE FALSE
      <3>1. k < k
        BY <1>2, <1>3, <2>1, <2>2
      <3>. QED
        BY <3>1
    <2>. QED
      BY <2>2 DEF Stored
  <1>5. \A f \in written : f.node = n => f.seq < k
    <2>1. VersionVector(n)[n] = k - 1
      BY <1>2, <1>3, OwnFrontier
    <2>. SUFFICES ASSUME NEW f \in written, f.node = n PROVE f.seq < k
      OBVIOUS
    <2>2. f.seq \in Nat /\ f.seq <= k - 1
      BY <2>1 DEF LogInv, OwnHeld, TypeInv, LogFits, Event
    <2>. QED
      BY <2>2
  <1>6. VersionVector(n)'[n] = k
    <2>1. rows'[n] = R /\ mark'[n] = mark[n]
      BY <1>1, <1>2 DEF Stored, TypeInv, LogFits
    <2>2. R \in SUBSET Event /\ IsFiniteSet(R) /\ mark[n] \in Vector
      BY <1>1 DEF Stored, TypeInv, LogFits
    <2>3. k >= mark[n][n]
      BY <1>1, <1>2, <1>3, NextSeqFacts DEF TypeInv, LogFits, Vector
    <2>4. k + 1 \notin Seqs(By(R, n))
      <3>. SUFFICES ASSUME NEW r \in R, r.node = n, r.seq = k + 1 PROVE FALSE
        BY DEF Seqs, By
      <3>1. r \in rows[n]
        BY <1>3, <1>4
      <3>2. r.seq < k
        BY <1>1, <1>2, <1>3, <3>1, NextSeqFacts DEF By
      <3>. QED
        BY <3>2
    <2>5. \A i \in (mark[n][n] + 1)..k : i \in Seqs(By(R, n))
      <3>. SUFFICES ASSUME NEW i \in (mark[n][n] + 1)..k PROVE i \in Seqs(By(R, n))
        OBVIOUS
      <3>1. CASE i = k
        BY <1>2, <1>3, <1>4, <3>1 DEF Seqs, By
      <3>2. CASE i # k
        <4>1. Frontier(rows[n], mark[n], n) = k - 1
          BY <1>1, <1>2, <1>3, OwnFrontier, VectorIs
        <4>2. rows[n] \in SUBSET Event /\ IsFiniteSet(rows[n]) /\ mark[n][n] \in Nat
          BY <1>1 DEF TypeInv, LogFits, Vector
        <4>3. i \in (mark[n][n] + 1)..(k - 1)
          BY <3>2, <4>2
        <4>4. i \in Seqs(By(rows[n], n))
          BY <1>1, <2>2, <4>1, <4>2, <4>3, FrontierFacts
        <4>. QED
          BY <1>4, <4>4 DEF Seqs, By
      <3>. QED
        BY <3>1, <3>2
    <2>6. Frontier(R, mark[n], n) = k
      BY <1>1, <2>2, <2>3, <2>4, <2>5, FrontierIs
    <2>. QED
      BY <1>1, <2>1, <2>6, VectorIs
  <1>. QED
    BY <1>3, <1>4, <1>5, <1>6

LEMMA EmitLog ==
    ASSUME TypeInv, LogInv, TypeInv', Advances, NEW n \in net.nodes, Emit(n)
    PROVE  LogInv'
  <1>1. PICK e \in Event : Emitted(n, e)
    BY EmitFacts
  <1>2. n \in Nodes
    BY ClusterFacts
  <1>3. PICK R : Stored(n, e, R)
    BY <1>1, <1>2, StoreFacts DEF Emitted
  <1>4. /\ R = rows[n] \cup {e} /\ VersionVector(n)'[n] = e.seq
        /\ \A f \in written : f.node = n => f.seq < e.seq
    BY <1>1, <1>3, EmitOwn
  <1>5. /\ e.node = n /\ written' = written \cup {e} /\ UNCHANGED <<net, mark, session>>
        /\ rows' = [rows EXCEPT ![n] = R]
    BY <1>1, <1>3 DEF Emitted, Stored
  <1>6. RowsWritten'
    <2>1. \A p \in Nodes : rows'[p] \subseteq written'
      BY <1>2, <1>4, <1>5 DEF LogInv, RowsWritten, TypeInv, LogFits
    <2>2. \A c \in Nodes : \A x \in session'[c] : x.frames \subseteq written'
      BY <1>5 DEF LogInv, RowsWritten
    <2>. QED
      BY <2>1, <2>2 DEF RowsWritten
  <1>7. Apart(written)'
    <2>1. e.seq \in Nat /\ \A f \in written : f.seq \in Nat
      BY DEF Event, TypeInv, LogFits
    <2>2. \A f \in written : ~ (f.node = e.node /\ f.seq = e.seq)
      BY <1>4, <1>5, <2>1
    <2>. QED
      BY <1>5, <2>2 DEF LogInv, Apart
  <1>8. OwnHeld'
    <2>1. ASSUME NEW f \in written
          PROVE  f.node \in net.nodes /\ f.seq <= VersionVector(f.node)'[f.node]
      <3>1. /\ f.node \in net.nodes /\ f.node \in Nodes /\ f.seq \in Nat
            /\ f.seq <= VersionVector(f.node)[f.node]
        BY DEF LogInv, OwnHeld, TypeInv, LogFits, Event
      <3>2. PICK i \in Nat : i = VersionVector(f.node)[f.node]
        BY <3>1, VectorTypes
      <3>3. PICK k \in Nat : k = VersionVector(f.node)'[f.node]
        BY <3>1, VectorTypes
      <3>4. i <= k
        BY <3>1, <3>2, <3>3 DEF Advances
      <3>. QED
        BY <3>1, <3>2, <3>3, <3>4
    <2>2. e.node \in net.nodes /\ e.seq <= VersionVector(e.node)'[e.node]
      BY <1>4, <1>5 DEF Event
    <2>. QED
      BY <1>5, <2>1, <2>2 DEF OwnHeld
  <1>9. MarksHeld'
    BY <1>5, MarksKept DEF LogInv
  <1>10. CoversHeld'
    BY <1>3, <1>5, StoredCovers DEF LogInv
  <1>11. Outside'
    BY <1>2, <1>5 DEF LogInv, Outside, TypeInv, LogFits
  <1>. QED
    BY <1>6, <1>7, <1>8, <1>9, <1>10, <1>11 DEF LogInv

LEMMA MergeLog ==
    ASSUME TypeInv, LogInv, TypeInv', Advances, NEW c \in Nodes, Merge(c)
    PROVE  LogInv'
  <1>1. PICK x \in session[c] : \E e, n : Merged(c, x, e, n)
    BY MergeFacts
  <1>2. PICK e, n : Merged(c, x, e, n)
    BY <1>1
  <1>3. /\ e \in Event /\ n \in Nodes /\ n \in net.nodes /\ e \in x.frames
        /\ session' = [session EXCEPT ![c] = {[x EXCEPT !.frames = @ \ {e}]}]
        /\ UNCHANGED <<net, mark, written>>
    BY <1>2, ClusterFacts DEF Merged
  <1>4. PICK R : Stored(n, e, R)
    BY <1>2, <1>3, StoreFacts DEF Merged
  <1>5. RowsWritten'
    <2>1. x.frames \subseteq written /\ x \in Session
      BY LinkedFacts DEF LogInv, RowsWritten
    <2>2. R \subseteq written
      BY <1>3, <1>4, <2>1 DEF Stored, LogInv, RowsWritten
    <2>3. \A p \in Nodes : rows'[p] \subseteq written
      BY <1>3, <1>4, <2>2 DEF Stored, LogInv, RowsWritten, TypeInv, LogFits
    <2>4. \A y \in {[x EXCEPT !.frames = @ \ {e}]} : y.frames \subseteq written
      BY <2>1 DEF Session
    <2>5. ASSUME NEW d \in Nodes, NEW y \in session'[d] PROVE y.frames \subseteq written
      <3>1. CASE d = c
        <4>1. session'[c] = {[x EXCEPT !.frames = @ \ {e}]}
          BY <1>3 DEF TypeInv, SessionsFit
        <4>. QED
          BY <2>4, <3>1, <4>1
      <3>2. CASE d # c
        <4>1. session'[d] = session[d]
          BY <1>3, <3>2 DEF TypeInv, SessionsFit
        <4>. QED
          BY <4>1 DEF LogInv, RowsWritten
      <3>. QED
        BY <3>1, <3>2
    <2>. QED
      BY <1>3, <2>3, <2>5 DEF RowsWritten
  <1>6. OwnHeld' /\ Apart(written)'
    BY <1>3, OwnKept DEF LogInv
  <1>7. MarksHeld'
    BY <1>3, MarksKept DEF LogInv
  <1>8. CoversHeld'
    BY <1>3, <1>4, StoredCovers DEF LogInv
  <1>9. Outside'
    BY <1>3, <1>4 DEF LogInv, Outside, TypeInv, LogFits, Stored
  <1>. QED
    BY <1>5, <1>6, <1>7, <1>8, <1>9 DEF LogInv

LEMMA CompactLog ==
    ASSUME TypeInv, LogInv, TypeInv', Advances, NEW n \in net.nodes, Compact(n)
    PROVE  LogInv'
  <1>1. PICK log : Compacted(n, log)
    BY CompactFacts
  <1>2. n \in Nodes /\ net.nodes \subseteq Nodes
    BY ClusterFacts
  <1>3. /\ log.rows \subseteq rows[n]
        /\ rows' = [rows EXCEPT ![n] = log.rows] /\ mark' = [mark EXCEPT ![n] = log.mark]
        /\ UNCHANGED <<net, snap, saving, session, written>>
    BY <1>1 DEF Compacted, Shrinks
  <1>4. RowsWritten'
    BY <1>2, <1>3 DEF LogInv, RowsWritten, TypeInv, LogFits
  <1>5. OwnHeld' /\ Apart(written)'
    BY <1>3, OwnKept DEF LogInv
  <1>6. MarksHeld'
    <2>1. ASSUME NEW m \in net.nodes, NEW p \in net.nodes, NEW a \in Nodes
          PROVE  mark'[m][a] <= VersionVector(p)'[a]
      <3>1. m \in Nodes /\ p \in Nodes
        BY <1>2
      <3>2. PICK i \in Nat : i = VersionVector(p)[a]
        BY <3>1, VectorTypes
      <3>3. PICK k \in Nat : k = VersionVector(p)'[a]
        BY <3>1, VectorTypes
      <3>4. i <= k
        BY <3>1, <3>2, <3>3 DEF Advances
      <3>5. mark'[m][a] \in Nat /\ mark[m][a] \in Nat /\ mark[m][a] <= i
        BY <3>1, <3>2 DEF TypeInv, LogFits, Vector, LogInv, MarksHeld
      <3>6. CASE m # n
        BY <1>3, <3>1, <3>3, <3>4, <3>5, <3>6 DEF TypeInv, LogFits
      <3>7. CASE m = n /\ p # n
        <4>1. mark'[m][a] = mark[n][a] \/ mark'[m][a] <= AckedFloor(n)[a]
          BY <1>1, <1>2, <1>3, <3>7 DEF Compacted, Shrinks, TypeInv, LogFits
        <4>2. AckedFloor(n)[a] \in Nat /\ AckedFloor(n)[a] <= i
          BY <3>2, <3>7, FloorFacts DEF Vector
        <4>. QED
          BY <3>3, <3>4, <3>5, <3>7, <4>1, <4>2
      <3>8. CASE m = n /\ p = n
        <4>1. rows'[n] \in SUBSET Event /\ IsFiniteSet(rows'[n]) /\ mark'[n] \in Vector
          BY <1>2 DEF TypeInv, LogFits
        <4>2. Frontier(rows'[n], mark'[n], a) >= mark'[n][a]
          BY <4>1, FrontierFacts
        <4>3. k >= mark'[n][a]
          BY <1>2, <3>3, <3>8, <4>2, VectorIs
        <4>. QED
          BY <3>3, <3>5, <3>8, <4>3
      <3>. QED
        BY <3>6, <3>7, <3>8
    <2>. QED
      BY <1>3, <2>1 DEF MarksHeld
  <1>7. CoversHeld'
    BY <1>3, CoversKept DEF LogInv
  <1>8. Outside'
    BY <1>2, <1>3 DEF LogInv, Outside, TypeInv, LogFits
  <1>. QED
    BY <1>4, <1>5, <1>6, <1>7, <1>8 DEF LogInv

LEMMA SaveLog ==
    ASSUME TypeInv, LogInv, TypeInv', Advances, NEW n \in net.nodes, SaveSnapshot(n)
    PROVE  LogInv'
  <1>1. PICK t \in saving[n] :
          /\ snap' = [snap EXCEPT ![n][t.sku] = t.snapshot]
          /\ saving' = [saving EXCEPT ![n] = @ \ {t}]
          /\ UNCHANGED <<net, rows, mark, session, written>>
    BY DEF SaveSnapshot
  <1>2. n \in Nodes /\ net.nodes \subseteq Nodes
    BY ClusterFacts
  <1>3. t \in Saving
    BY <1>2 DEF TypeInv, SnapshotsFit
  <1>4. RowsWritten' /\ Outside'
    BY <1>1 DEF LogInv, RowsWritten, Outside
  <1>5. OwnHeld' /\ Apart(written)'
    BY <1>1, OwnKept DEF LogInv
  <1>6. MarksHeld'
    BY <1>1, MarksKept DEF LogInv
  <1>7. CoversHeld'
    <2>1. ASSUME NEW p \in net.nodes, NEW s \in SKUs
          PROVE  snap'[p][s] = snap[p][s] \/ \E u \in saving[p] : snap'[p][s] = u.snapshot
      <3>1. CASE p = n /\ s = t.sku
        <4>1. snap'[p][s] = t.snapshot
          BY <1>1, <1>2, <1>3, <3>1 DEF TypeInv, SnapshotsFit
        <4>. QED
          BY <1>1, <3>1, <4>1
      <3>2. CASE ~ (p = n /\ s = t.sku)
        BY <1>1, <1>2, <1>3, <3>2 DEF TypeInv, SnapshotsFit
      <3>. QED
        BY <3>1, <3>2
    <2>2. \A p \in net.nodes : saving'[p] \subseteq saving[p]
      BY <1>1, <1>2 DEF TypeInv, SnapshotsFit
    <2>. QED
      BY <1>1, <2>1, <2>2, CoversKept DEF LogInv
  <1>. QED
    BY <1>4, <1>5, <1>6, <1>7 DEF LogInv

\* Whatever only ends sessions, drops snapshots under way or fills a session with events
\* that were acknowledged.
LEMMA SessionLog ==
    ASSUME TypeInv, LogInv, TypeInv', Advances, UNCHANGED <<net, rows, mark, snap, written>>,
           \A n \in Nodes : saving'[n] \subseteq saving[n],
           \A c \in Nodes : \A x \in session'[c] : x.frames \subseteq written
    PROVE  LogInv'
  <1>1. RowsWritten' /\ Outside'
    BY DEF LogInv, RowsWritten, Outside
  <1>2. OwnHeld' /\ Apart(written)'
    BY OwnKept DEF LogInv
  <1>3. MarksHeld'
    BY MarksKept DEF LogInv
  <1>4. CoversHeld'
    <2>1. \A n \in net.nodes : saving'[n] \subseteq saving[n]
      BY ClusterFacts
    <2>. QED
      BY <2>1, CoversKept DEF LogInv
  <1>. QED
    BY <1>1, <1>2, <1>3, <1>4 DEF LogInv

\* A session that takes the place of another, or of none.
LEMMA FramesWritten ==
    ASSUME TypeInv, LogInv, NEW c \in Nodes, NEW y, y.frames \subseteq written,
           session' = [session EXCEPT ![c] = {y}]
    PROVE  \A d \in Nodes : \A x \in session'[d] : x.frames \subseteq written
  <1>. SUFFICES ASSUME NEW d \in Nodes, NEW x \in session'[d] PROVE x.frames \subseteq written
    OBVIOUS
  <1>1. CASE d = c
    <2>1. session'[c] = {y}
      BY DEF TypeInv, SessionsFit
    <2>. QED
      BY <1>1, <2>1
  <1>2. CASE d # c
    <2>1. session'[d] = session[d]
      BY <1>2 DEF TypeInv, SessionsFit
    <2>. QED
      BY <2>1 DEF LogInv, RowsWritten
  <1>. QED
    BY <1>1, <1>2

LEMMA RestartLog ==
    ASSUME TypeInv, LogInv, TypeInv', Advances, NEW n \in net.nodes, Restart(n)
    PROVE  LogInv'
  <1>1. /\ UNCHANGED <<net, rows, mark, snap, written>>
        /\ saving' = [saving EXCEPT ![n] = {}]
        /\ session' = [c \in Nodes |-> {x \in session[c] : n \notin {c, x.server}}]
    BY DEF Restart
  <1>2. \A p \in Nodes : saving'[p] \subseteq saving[p]
    BY <1>1 DEF TypeInv, SnapshotsFit
  <1>3. \A c \in Nodes : \A x \in session'[c] : x.frames \subseteq written
    BY <1>1 DEF LogInv, RowsWritten
  <1>. QED
    BY <1>1, <1>2, <1>3, SessionLog

LEMMA OpenLog ==
    ASSUME TypeInv, LogInv, TypeInv', Advances, NEW l \in Links, Open(l[1], l[2])
    PROVE  LogInv'
  <1>. DEFINE c == l[1]
              s == l[2]
  <1>1. c \in Nodes /\ s \in Nodes
    BY ClusterFacts DEF Open
  <1>2. PICK F \in Arriving(Since(s, VersionVector(c)), s, c) :
          session' = [session EXCEPT ![c] =
              {[server |-> s, pc |-> "down", vv |-> VersionVector(s), frames |-> F]}]
    BY DEF Open
  <1>3. UNCHANGED <<net, rows, mark, snap, saving, written>>
    BY DEF Open, logVars
  <1>4. F \subseteq written
    <2>1. Since(s, VersionVector(c)) \subseteq written
      BY <1>1 DEF Since, LogInv, RowsWritten
    <2>. QED
      BY <2>1, ArrivingFacts
  <1>. DEFINE y == [server |-> s, pc |-> "down", vv |-> VersionVector(s), frames |-> F]
  <1>5. y.frames \subseteq written /\ session' = [session EXCEPT ![c] = {y}]
    BY <1>2, <1>4
  <1>. HIDE DEF y
  <1>6. \A d \in Nodes : \A x \in session'[d] : x.frames \subseteq written
    BY <1>1, <1>5, FramesWritten
  <1>. QED
    BY <1>3, <1>6, SessionLog

LEMMA PushLog ==
    ASSUME TypeInv, LogInv, TypeInv', Advances, NEW c \in Nodes, Push(c)
    PROVE  LogInv'
  <1>1. PICK x \in session[c], F \in SUBSET Event :
          /\ F \subseteq rows[c] \cup written
          /\ session' = [session EXCEPT ![c] =
                {[x EXCEPT !.pc = "up", !.vv = Zero, !.frames = F]}]
          /\ UNCHANGED <<net, logVars, clk, healed, written>>
    BY PushFacts
  <1>2. UNCHANGED <<net, rows, mark, snap, saving, written>>
    BY <1>1 DEF logVars
  <1>. DEFINE y == [x EXCEPT !.pc = "up", !.vv = Zero, !.frames = F]
  <1>3. y.frames \subseteq written /\ session' = [session EXCEPT ![c] = {y}]
    BY <1>1, LinkedFacts DEF Session, LogInv, RowsWritten
  <1>. HIDE DEF y
  <1>4. \A d \in Nodes : \A z \in session'[d] : z.frames \subseteq written
    BY <1>3, FramesWritten
  <1>. QED
    BY <1>2, <1>4, SessionLog

LEMMA EndLog ==
    ASSUME TypeInv, LogInv, TypeInv', Advances, NEW c \in Nodes, Close(c) \/ Fail(c)
    PROVE  LogInv'
  <1>1. session' = [session EXCEPT ![c] = {}] /\ UNCHANGED <<net, rows, mark, snap, saving, written>>
    BY DEF Close, Fail, logVars
  <1>2. \A d \in Nodes : session'[d] \subseteq session[d]
    BY <1>1 DEF TypeInv, SessionsFit
  <1>3. \A d \in Nodes : \A x \in session'[d] : x.frames \subseteq written
    BY <1>2 DEF LogInv, RowsWritten
  <1>. QED
    BY <1>1, <1>3, SessionLog

LEMMA LogNext == TypeInv /\ LogInv /\ [Next]_vars => LogInv'
  <1>. SUFFICES ASSUME TypeInv, LogInv, [Next]_vars PROVE LogInv'
    OBVIOUS
  <1>1. TypeInv' /\ Advances
    BY TypeNext, VectorsAdvance
  <1>2. ASSUME NEW n \in net.nodes, Emit(n) \/ SaveSnapshot(n) \/ Compact(n) \/ Restart(n)
        PROVE  LogInv'
    BY <1>1, <1>2, EmitLog, SaveLog, CompactLog, RestartLog
  <1>3. ASSUME NEW l \in Links, Open(l[1], l[2]) PROVE LogInv'
    BY <1>1, <1>3, OpenLog
  <1>4. ASSUME NEW c \in Nodes, Merge(c) \/ Push(c) \/ Close(c) \/ Fail(c) PROVE LogInv'
    BY <1>1, <1>4, MergeLog, PushLog, EndLog
  <1>5. ASSUME Heal \/ UNCHANGED vars PROVE LogInv'
    <2>1. UNCHANGED <<net, rows, mark, snap, saving, session, written>>
      BY <1>5 DEF Heal, vars, logVars
    <2>2. \A c \in Nodes : \A x \in session'[c] : x.frames \subseteq written
      BY <2>1 DEF LogInv, RowsWritten
    <2>. QED
      BY <1>1, <2>1, <2>2, SessionLog
  <1>. QED
    BY <1>2, <1>3, <1>4, <1>5 DEF Next

LEMMA LogInvariant == Spec => [](TypeInv /\ LogInv)
  <1>1. Init => TypeInv /\ LogInv
    BY TypeInit, LogInit
  <1>2. TypeInv /\ LogInv /\ [Next]_vars => (TypeInv /\ LogInv)'
    BY TypeNext, LogNext
  <1>. QED
    BY <1>1, <1>2, PTL DEF Spec

\* A row that Compact deleted at one node is held by every node: what no snapshot ever
\* brings to a peer, no peer will ask for (AckedFloor), whatever was compacted where, in
\* which order, and while snapshots were under way.
THEOREM DeletedHeldCorrect == Spec => []DeletedHeldByAll
  <1>1. TypeInv /\ LogInv => DeletedHeldByAll
    <2>. SUFFICES ASSUME TypeInv, LogInv, NEW n \in net.nodes, NEW p \in net.nodes,
                         NEW e \in Claimed(n) \ rows[n]
                  PROVE  e \in Claimed(p)
      BY DEF DeletedHeldByAll
    <2>1. /\ n \in Nodes /\ p \in Nodes /\ e \in written /\ e \in Event /\ e.node \in Nodes
          /\ e.seq \in Nat /\ e \notin rows[n] /\ e.seq <= VersionVector(n)[e.node]
      BY ClusterFacts DEF Claimed, TypeInv, LogFits, Event
    <2>2. e.seq <= mark[n][e.node]
      <3>1. /\ rows[n] \in SUBSET Event /\ IsFiniteSet(rows[n]) /\ mark[n] \in Vector
            /\ written \in SUBSET Event /\ rows[n] \subseteq written /\ Apart(written)
        BY <2>1 DEF TypeInv, LogFits, LogInv, RowsWritten
      <3>2. e.seq <= Frontier(rows[n], mark[n], e.node)
        BY <2>1, VectorsFit
      <3>. QED
        BY <2>1, <3>1, <3>2, ClaimedRow
    <2>3. PICK m \in Nat : m = mark[n][e.node]
      BY <2>1 DEF TypeInv, LogFits, Vector
    <2>4. PICK k \in Nat : k = VersionVector(p)[e.node]
      BY <2>1, VectorsFit DEF Vector
    <2>5. m <= k
      BY <2>1, <2>3, <2>4 DEF LogInv, MarksHeld
    <2>6. e.seq <= VersionVector(p)[e.node]
      BY <2>1, <2>2, <2>3, <2>4, <2>5
    <2>. QED
      BY <2>1, <2>6 DEF Claimed
  <1>. QED
    BY <1>1, LogInvariant, PTL

-----------------------------------------------------------------------------
(* The clock *)

\* A clock is at or past the stamp of every row at its node.
ClockInv == \A n \in Nodes : \A r \in rows[n] : r.at <= clk[n]

\* More rows, all stamped by the new reading of a clock that has not gone back.
LEMMA ClockAdvances ==
    ASSUME TypeInv, ClockInv, NEW n \in Nodes, NEW e \in Event, NEW R, Stored(n, e, R),
           NEW k \in Nat, clk[n] <= k, e.at <= k, clk' = [clk EXCEPT ![n] = k]
    PROVE  ClockInv'
  <1>1. ASSUME NEW p \in Nodes, NEW r \in rows'[p] PROVE r.at <= clk'[p]
    <2>1. CASE p # n
      <3>1. rows'[p] = rows[p] /\ clk'[p] = clk[p]
        BY <2>1 DEF Stored, TypeInv, LogFits
      <3>. QED
        BY <3>1 DEF ClockInv
    <2>2. CASE p = n
      <3>1. rows'[n] = R /\ clk'[n] = k /\ clk[n] \in Nat
        BY DEF Stored, TypeInv, LogFits
      <3>2. r \in rows[n] \/ r = e
        BY <2>2, <3>1 DEF Stored
      <3>3. ASSUME r \in rows[n] PROVE r.at <= k
        <4>1. r.at \in Nat /\ r.at <= clk[n]
          BY <3>3 DEF ClockInv, TypeInv, LogFits, Event
        <4>. QED
          BY <3>1, <4>1
      <3>. QED
        BY <2>2, <3>1, <3>2, <3>3
    <2>. QED
      BY <2>1, <2>2
  <1>. QED
    BY <1>1 DEF ClockInv

LEMMA ClockNext == TypeInv /\ ClockInv /\ [Next]_vars => ClockInv'
  <1>. SUFFICES ASSUME TypeInv, ClockInv, [Next]_vars PROVE ClockInv'
    OBVIOUS
  <1>0. net.nodes \subseteq Nodes
    BY ClusterFacts
  <1>1. ASSUME NEW n \in net.nodes, Emit(n) PROVE ClockInv'
    <2>1. PICK e \in Event : Emitted(n, e)
      BY <1>1, EmitFacts
    <2>2. PICK R : Stored(n, e, R)
      BY <1>0, <2>1, StoreFacts DEF Emitted
    <2>3. n \in Nodes /\ clk[n] \in Nat /\ Wall[n] \in Nat
      BY <1>0, CompactingAssumption DEF TypeInv
    <2>4. PICK k \in Nat : k = Now(n) /\ clk[n] <= k
      BY <2>3 DEF Now, Later
    <2>5. e.at <= k /\ clk' = [clk EXCEPT ![n] = k]
      BY <2>1, <2>4 DEF Emitted
    <2>. QED
      BY <2>2, <2>3, <2>4, <2>5, ClockAdvances
  <1>2. ASSUME NEW c \in Nodes, Merge(c) PROVE ClockInv'
    <2>1. PICK x \in session[c] : \E e, n : Merged(c, x, e, n)
      BY <1>2, MergeFacts
    <2>2. PICK e, n : Merged(c, x, e, n)
      BY <2>1
    <2>3. e \in Event /\ n \in Nodes /\ e.at \in Nat /\ clk[n] \in Nat
      BY <1>0, <2>2 DEF Merged, TypeInv, Event
    <2>4. PICK R : Stored(n, e, R)
      BY <2>2, <2>3, StoreFacts DEF Merged
    <2>5. PICK k \in Nat : k = Later(clk[n], e.at)
      BY <2>3 DEF Later
    <2>6. clk[n] <= k /\ e.at <= k
      BY <2>3, <2>5 DEF Later
    <2>7. clk' = [clk EXCEPT ![n] = k]
      BY <2>2, <2>3, <2>5 DEF Merged, Observe, TypeInv
    <2>. QED
      BY <2>3, <2>4, <2>6, <2>7, ClockAdvances
  <1>3. ASSUME NEW n \in net.nodes, Compact(n) PROVE ClockInv'
    <2>1. PICK log : Compacted(n, log)
      BY <1>3, CompactFacts
    <2>2. \A p \in Nodes : rows'[p] \subseteq rows[p]
      BY <2>1 DEF Compacted, Shrinks, TypeInv, LogFits
    <2>. QED
      BY <2>1, <2>2 DEF Compacted, ClockInv
  <1>4. ASSUME NEW n \in net.nodes, Restart(n) PROVE ClockInv'
    <2>1. UNCHANGED rows /\ clk' = [clk EXCEPT ![n] = Max({0} \cup Stamps(rows[n]))]
      BY <1>4 DEF Restart, Stamps
    <2>2. rows[n] \in SUBSET Event /\ IsFiniteSet(rows[n])
      BY <1>0 DEF TypeInv, LogFits
    <2>3. \A r \in rows[n] : r.at <= Max({0} \cup Stamps(rows[n]))
      BY <2>2, MaxStamp DEF Stamps
    <2>. QED
      BY <2>1, <2>3 DEF ClockInv, TypeInv
  <1>5. ASSUME UNCHANGED <<rows, clk>> PROVE ClockInv'
    BY <1>5 DEF ClockInv
  <1>6. ASSUME NEW n \in net.nodes, SaveSnapshot(n) PROVE ClockInv'
    BY <1>5, <1>6 DEF SaveSnapshot
  <1>7. ASSUME NEW l \in Links, Open(l[1], l[2]) PROVE ClockInv'
    BY <1>5, <1>7 DEF Open, logVars
  <1>8. ASSUME NEW c \in Nodes, Push(c) \/ Close(c) \/ Fail(c) PROVE ClockInv'
    BY <1>5, <1>8 DEF Push, Close, Fail, logVars
  <1>9. ASSUME Heal \/ UNCHANGED vars PROVE ClockInv'
    BY <1>5, <1>9 DEF Heal, vars, logVars
  <1>. QED
    BY <1>1, <1>2, <1>3, <1>4, <1>6, <1>7, <1>8, <1>9 DEF Next

\* What is acknowledged in a step, its author wrote in that step.
LEMMA WrittenBy ==
    ASSUME TypeInv, [Next]_vars, NEW e \in written' \ written
    PROVE  \E n \in net.nodes : Emitted(n, e)
  <1>1. ASSUME NEW n \in net.nodes, Emit(n) PROVE Emitted(n, e)
    <2>1. PICK f \in Event : Emitted(n, f)
      BY <1>1, EmitFacts
    <2>2. e = f
      BY <2>1 DEF Emitted
    <2>. QED
      BY <2>1, <2>2
  <1>2. ASSUME UNCHANGED written PROVE FALSE
    BY <1>2
  <1>3. ASSUME NEW n \in net.nodes, SaveSnapshot(n) \/ Compact(n) \/ Restart(n) PROVE FALSE
    BY <1>2, <1>3 DEF SaveSnapshot, Compact, Restart
  <1>4. ASSUME NEW l \in Links, Open(l[1], l[2]) PROVE FALSE
    BY <1>2, <1>4 DEF Open
  <1>5. ASSUME NEW c \in Nodes, Merge(c) \/ Push(c) \/ Close(c) \/ Fail(c) PROVE FALSE
    BY <1>2, <1>5 DEF Merge, Push, Close, Fail
  <1>6. ASSUME Heal \/ UNCHANGED vars PROVE FALSE
    BY <1>2, <1>6 DEF Heal, vars
  <1>. QED
    BY <1>1, <1>3, <1>4, <1>5, <1>6 DEF Next

\* A write is stamped after all its node has a row of, its own and what it merged, however
\* far back the wall clock reads and also after a restart (Clock.Now, Observe,
\* recoverClock): the last writer wins.
THEOREM WriteSortsLastCorrect == Spec => WriteSortsLast
  <1>1. Init => ClockInv
    BY DEF Init, ClockInv
  <1>2. TypeInv /\ ClockInv /\ [Next]_vars =>
          [\A e \in written' \ written : \A f \in rows[e.node] :
              f.at < e.at \/ (f.at = e.at /\ f.node < e.node)]_vars
    <2>. SUFFICES ASSUME TypeInv, ClockInv, [Next]_vars, NEW e \in written' \ written,
                         NEW f \in rows[e.node]
                  PROVE  f.at < e.at
      OBVIOUS
    <2>1. PICK n \in net.nodes : Emitted(n, e)
      BY WrittenBy
    <2>2. e.node = n /\ n \in Nodes /\ e.at = Now(n)
      BY <2>1, ClusterFacts DEF Emitted
    <2>3. f.at \in Nat /\ clk[n] \in Nat /\ f.at <= clk[n] /\ Wall[n] \in Nat
      BY <2>2, CompactingAssumption DEF ClockInv, TypeInv, LogFits, Event
    <2>. QED
      BY <2>2, <2>3 DEF Now, Later
  <1>. QED
    BY <1>1, <1>2, TypeInvariant, ClockNext, PTL DEF Spec, WriteSortsLast

-----------------------------------------------------------------------------
(* The snapshots *)

\* The events of a SKU that a vector covers.
Below(W, s, covers) == {e \in W : e.sku = s /\ e.seq <= covers[e.node]}

\* A snapshot has folded what it covers once each, and covers what has no row any more.
SoundAt(p, s, R, m, W) ==
    /\ p.state = SetToBag(Below(W, s, p.covers))
    /\ \A e \in W : e.sku = s /\ e.seq <= m[e.node] /\ e \notin R => e.seq <= p.covers[e.node]

SoundInv ==
    \A n \in net.nodes :
       /\ \A s \in SKUs : SoundAt(snap[n][s], s, rows[n], mark[n], written)
       /\ \A t \in saving[n] : SoundAt(t.snapshot, t.sku, rows[n], mark[n], written)

LEMMA FoldOnce ==
    ASSUME NEW S, NEW T, S \cap T = {}
    PROVE  Fold(SetToBag(S), T) = SetToBag(S \cup T)
  BY DEF Fold, SetToBag, (+), BagToSet, BagIn

\* Rows that come, and events of numbers that no snapshot covers, leave a snapshot sound.
LEMMA SoundGrows ==
    ASSUME NEW W \in SUBSET Event, NEW W2 \in SUBSET Event, W \subseteq W2,
           NEW R, NEW R2, R \subseteq R2, NEW m \in Vector, NEW p \in Snapshot, NEW s,
           SoundAt(p, s, R, m, W),
           \A e \in W2 \ W : ~ (e.seq <= p.covers[e.node]) /\ ~ (e.seq <= m[e.node])
    PROVE  SoundAt(p, s, R2, m, W2)
  <1>1. Below(W2, s, p.covers) = Below(W, s, p.covers)
    BY DEF Below
  <1>2. ASSUME NEW e \in W2, e.sku = s, e.seq <= m[e.node], e \notin R2
        PROVE  e.seq <= p.covers[e.node]
    BY <1>2 DEF SoundAt
  <1>. QED
    BY <1>1, <1>2 DEF SoundAt

\* The next snapshot is sound where the last one was.
LEMMA NextSound ==
    ASSUME NEW W \in SUBSET Event, Apart(W), NEW R \in SUBSET W, IsFiniteSet(R), NEW m \in Vector,
           NEW s, NEW old \in Snapshot, NEW new, NEW S,
           S = {e \in Uncovered(R, s, old.covers) : e.seq <= Frontier(R, m, e.node)},
           Extends(new, old, S), SoundAt(old, s, R, m, W)
    PROVE  SoundAt(new, s, R, m, W)
  <1>1. R \in SUBSET Event /\ S \subseteq W
    BY DEF Uncovered
  <1>2. \A a \in Nodes : old.covers[a] \in Nat /\ new.covers[a] \in Nat
    BY DEF Extends, Snapshot, Vector
  <1>3. \A a \in Nodes : Frontier(R, m, a) \in Nat
    BY <1>1, FrontierFacts
  <1>4. \A e \in W : e.node \in Nodes /\ e.seq \in Nat
    BY DEF Event
  <1>5. ASSUME NEW e \in Below(W, s, new.covers), ~ (e.seq <= old.covers[e.node])
        PROVE  e \in S
    <2>1. /\ e \in W /\ e.sku = s /\ e.node \in Nodes /\ e.seq \in Nat
          /\ e.seq <= new.covers[e.node]
      BY <1>4, <1>5 DEF Below
    <2>2. PICK f \in S : f.node = e.node /\ f.seq = new.covers[e.node]
      BY <1>5, <2>1 DEF Extends
    <2>3. f.seq <= Frontier(R, m, e.node)
      BY <2>2
    <2>4. e.seq <= Frontier(R, m, e.node)
      BY <1>2, <1>3, <2>1, <2>2, <2>3
    <2>5. e \in R \/ e.seq <= m[e.node]
      BY <1>1, <2>1, <2>4, ClaimedRow
    <2>6. e \in R
      BY <1>5, <2>1, <2>5 DEF SoundAt
    <2>7. e.seq > old.covers[e.node]
      BY <1>2, <1>5, <2>1
    <2>. QED
      BY <2>1, <2>4, <2>6, <2>7 DEF Uncovered
  <1>6. ASSUME NEW e \in Below(W, s, old.covers) PROVE e \in Below(W, s, new.covers)
    <2>1. e \in W /\ e.sku = s /\ e.seq <= old.covers[e.node] /\ e.node \in Nodes /\ e.seq \in Nat
      BY <1>4 DEF Below
    <2>2. old.covers[e.node] <= new.covers[e.node]
      BY <2>1 DEF Extends
    <2>. QED
      BY <1>2, <2>1, <2>2 DEF Below
  <1>7. ASSUME NEW e \in S PROVE e \in Below(W, s, new.covers) /\ ~ (e.seq <= old.covers[e.node])
    <2>1. e \in W /\ e.sku = s /\ e.seq > old.covers[e.node] /\ e.node \in Nodes /\ e.seq \in Nat
      BY <1>4 DEF Uncovered
    <2>2. e.seq <= new.covers[e.node]
      BY DEF Extends
    <2>. QED
      BY <1>2, <2>1, <2>2 DEF Below
  <1>8. Below(W, s, new.covers) = Below(W, s, old.covers) \cup S
    <2>1. ASSUME NEW e \in Below(W, s, new.covers), e.seq <= old.covers[e.node]
          PROVE  e \in Below(W, s, old.covers)
      BY <2>1 DEF Below
    <2>. QED
      BY <1>5, <1>6, <1>7, <2>1
  <1>9. Below(W, s, old.covers) \cap S = {}
    BY <1>7 DEF Below
  <1>10. new.state = SetToBag(Below(W, s, new.covers))
    BY <1>8, <1>9, FoldOnce DEF Extends, SoundAt
  <1>11. ASSUME NEW e \in W, e.sku = s, e.seq <= m[e.node], e \notin R
         PROVE  e.seq <= new.covers[e.node]
    <2>1. e.seq <= old.covers[e.node] /\ old.covers[e.node] <= new.covers[e.node]
      BY <1>4, <1>11 DEF SoundAt, Extends
    <2>. QED
      BY <1>2, <1>4, <2>1
  <1>. QED
    BY <1>10, <1>11 DEF SoundAt

LEMMA SoundTypes ==
    ASSUME TypeInv, LogInv, NEW n \in net.nodes
    PROVE  /\ n \in Nodes /\ rows[n] \in SUBSET Event /\ IsFiniteSet(rows[n]) /\ mark[n] \in Vector
           /\ written \in SUBSET Event /\ rows[n] \in SUBSET written /\ Apart(written)
           /\ \A s \in SKUs : snap[n][s] \in Snapshot
           /\ \A t \in saving[n] : t.snapshot \in Snapshot /\ t.sku \in SKUs
  <1>1. n \in Nodes
    BY ClusterFacts
  <1>. QED
    BY <1>1 DEF TypeInv, LogFits, SnapshotsFit, Saving, LogInv, RowsWritten

\* What is stored at one node, and maybe acknowledged in the same step.
LEMMA StoredSound ==
    ASSUME TypeInv, LogInv, SoundInv, TypeInv', LogInv', UNCHANGED <<net, mark>>,
           NEW n \in net.nodes, NEW e \in Event, NEW R, Stored(n, e, R), written \subseteq written',
           \A p \in net.nodes : \A f \in written' \ written :
              /\ ~ (f.seq <= mark[p][f.node])
              /\ \A s \in SKUs : ~ (f.seq <= snap[p][s].covers[f.node])
              /\ \A t \in saving[p] : ~ (f.seq <= t.snapshot.covers[f.node])
    PROVE  SoundInv'
  <1>1. n \in Nodes /\ e.sku \in SKUs /\ net.nodes \subseteq Nodes
    BY ClusterFacts DEF Event
  <1>2. written' \in SUBSET Event /\ Apart(written')
    BY DEF TypeInv, LogFits, LogInv, Apart
  <1>3. \A p \in net.nodes : rows[p] \subseteq rows'[p] /\ mark'[p] = mark[p]
    BY <1>1 DEF Stored, TypeInv, LogFits
  <1>4. ASSUME NEW p \in net.nodes, NEW s \in SKUs
        PROVE  SoundAt(snap[p][s], s, rows'[p], mark[p], written')
    <2>1. SoundAt(snap[p][s], s, rows[p], mark[p], written)
      BY DEF SoundInv
    <2>. QED
      BY <1>2, <1>3, <2>1, SoundTypes, SoundGrows
  <1>5. ASSUME NEW p \in net.nodes, NEW t \in saving[p]
        PROVE  SoundAt(t.snapshot, t.sku, rows'[p], mark[p], written')
    <2>1. SoundAt(t.snapshot, t.sku, rows[p], mark[p], written)
      BY DEF SoundInv
    <2>. QED
      BY <1>2, <1>3, <2>1, SoundTypes, SoundGrows
  <1>6. R \in SUBSET Event /\ IsFiniteSet(R) /\ rows'[n] = R
    BY <1>1 DEF Stored, TypeInv, LogFits
  <1>7. R \in SUBSET written'
    BY <1>1, <1>6 DEF LogInv, RowsWritten
  <1>8. PICK new : new = NewSnapshot(n, e.sku, R)
    OBVIOUS
  <1>9. SoundAt(new, e.sku, R, mark[n], written')
    <2>1. Extends(new, snap[n][e.sku], Folded(n, e.sku, R))
      BY <1>1, <1>6, <1>8, NewSnapshotFacts
    <2>2. SoundAt(snap[n][e.sku], e.sku, R, mark[n], written')
      BY <1>1, <1>4, <1>6
    <2>3. snap[n][e.sku] \in Snapshot /\ mark[n] \in Vector
      BY <1>1, SoundTypes
    <2>. QED
      BY <1>2, <1>6, <1>7, <2>1, <2>2, <2>3, NextSound DEF Folded
  <1>10. \/ UNCHANGED <<snap, saving>>
         \/ snap' = [snap EXCEPT ![n][e.sku] = new] /\ UNCHANGED saving
         \/ /\ saving' = [saving EXCEPT ![n] = @ \cup {[sku |-> e.sku, snapshot |-> new]}]
            /\ UNCHANGED snap
    BY <1>8 DEF Stored
  <1>11. ASSUME NEW p \in net.nodes, NEW s \in SKUs
         PROVE  snap'[p][s] = snap[p][s] \/ (p = n /\ s = e.sku /\ snap'[p][s] = new)
    BY <1>1, <1>10 DEF TypeInv, SnapshotsFit
  <1>12. ASSUME NEW p \in net.nodes, NEW t \in saving'[p]
         PROVE  t \in saving[p] \/ (p = n /\ t.sku = e.sku /\ t.snapshot = new)
    BY <1>1, <1>10 DEF TypeInv, SnapshotsFit
  <1>13. ASSUME NEW p \in net.nodes, NEW s \in SKUs
         PROVE  SoundAt(snap'[p][s], s, rows'[p], mark'[p], written')
    <2>1. CASE snap'[p][s] = snap[p][s]
      BY <1>3, <1>4, <2>1
    <2>2. CASE p = n /\ s = e.sku /\ snap'[p][s] = new
      BY <1>3, <1>6, <1>9, <2>2
    <2>. QED
      BY <1>11, <2>1, <2>2
  <1>14. ASSUME NEW p \in net.nodes, NEW t \in saving'[p]
         PROVE  SoundAt(t.snapshot, t.sku, rows'[p], mark'[p], written')
    <2>1. CASE t \in saving[p]
      BY <1>3, <1>5, <2>1
    <2>2. CASE p = n /\ t.sku = e.sku /\ t.snapshot = new
      BY <1>3, <1>6, <1>9, <2>2
    <2>. QED
      BY <1>12, <2>1, <2>2
  <1>. QED
    BY <1>13, <1>14 DEF SoundInv

LEMMA EmitSound ==
    ASSUME TypeInv, LogInv, SoundInv, TypeInv', LogInv', Advances, NEW n \in net.nodes, Emit(n)
    PROVE  SoundInv'
  <1>1. PICK e \in Event : Emitted(n, e)
    BY EmitFacts
  <1>2. n \in Nodes /\ net.nodes \subseteq Nodes
    BY ClusterFacts
  <1>3. PICK R : Stored(n, e, R)
    BY <1>1, <1>2, StoreFacts DEF Emitted
  <1>4. e.node = n /\ written' = written \cup {e} /\ UNCHANGED <<net, mark>> /\ e.seq = NextSeq(n)
    BY <1>1 DEF Emitted
  <1>5. PICK k \in Nat \ {0} : k = e.seq
    BY DEF Event
  <1>6. ASSUME NEW p \in net.nodes PROVE \E f \in Nat : f = VersionVector(p)[n] /\ f < k
    <2>1. VersionVector(n)[n] = k - 1 /\ VersionVector(p)[n] <= VersionVector(n)[n]
      BY <1>4, <1>5, OwnFrontier, AuthorHoldsMost
    <2>2. VersionVector(p)[n] \in Nat
      BY <1>2, VectorsFit DEF Vector
    <2>. QED
      BY <2>1, <2>2
  <1>7. ASSUME NEW p \in net.nodes, NEW j \in Nat, j <= VersionVector(p)[n] PROVE ~ (k <= j)
    BY <1>6, <1>7
  <1>8. ASSUME NEW p \in net.nodes
        PROVE  /\ ~ (k <= mark[p][n])
               /\ \A s \in SKUs : ~ (k <= snap[p][s].covers[n])
               /\ \A t \in saving[p] : ~ (k <= t.snapshot.covers[n])
    <2>1. mark[p][n] \in Nat /\ mark[p][n] <= VersionVector(p)[n]
      BY <1>2, SoundTypes DEF LogInv, MarksHeld, Vector
    <2>2. ASSUME NEW s \in SKUs
          PROVE  snap[p][s].covers[n] \in Nat /\ snap[p][s].covers[n] <= VersionVector(p)[n]
      BY <1>2, SoundTypes DEF Snapshot, Vector, LogInv, CoversHeld, Within
    <2>3. ASSUME NEW t \in saving[p]
          PROVE  t.snapshot.covers[n] \in Nat /\ t.snapshot.covers[n] <= VersionVector(p)[n]
      BY <1>2, SoundTypes DEF Snapshot, Vector, LogInv, CoversHeld, Within
    <2>. QED
      BY <1>7, <2>1, <2>2, <2>3
  <1>9. \A f \in written' \ written : f.node = n /\ f.seq = k
    BY <1>4, <1>5
  <1>. QED
    BY <1>3, <1>4, <1>8, <1>9, StoredSound

LEMMA MergeSound ==
    ASSUME TypeInv, LogInv, SoundInv, TypeInv', LogInv', NEW c \in Nodes, Merge(c)
    PROVE  SoundInv'
  <1>1. PICK x \in session[c] : \E e, n : Merged(c, x, e, n)
    BY MergeFacts
  <1>2. PICK e, n : Merged(c, x, e, n)
    BY <1>1
  <1>3. e \in Event /\ n \in Nodes /\ n \in net.nodes /\ UNCHANGED <<net, mark, written>>
    BY <1>2, ClusterFacts DEF Merged
  <1>4. PICK R : Stored(n, e, R)
    BY <1>2, <1>3, StoreFacts DEF Merged
  <1>5. written \subseteq written' /\ written' \ written = {}
    BY <1>3
  <1>. QED
    BY <1>3, <1>4, <1>5, StoredSound

LEMMA SaveSound ==
    ASSUME TypeInv, LogInv, SoundInv, NEW n \in net.nodes, SaveSnapshot(n)
    PROVE  SoundInv'
  <1>1. PICK t \in saving[n] :
          /\ snap' = [snap EXCEPT ![n][t.sku] = t.snapshot]
          /\ saving' = [saving EXCEPT ![n] = @ \ {t}]
          /\ UNCHANGED <<net, rows, mark, session, written>>
    BY DEF SaveSnapshot
  <1>2. n \in Nodes /\ net.nodes \subseteq Nodes /\ t.sku \in SKUs
    BY <1>1, ClusterFacts, SoundTypes
  <1>3. ASSUME NEW p \in net.nodes, NEW s \in SKUs
        PROVE  SoundAt(snap'[p][s], s, rows[p], mark[p], written)
    <2>1. CASE p = n /\ s = t.sku
      <3>1. snap'[p][s] = t.snapshot
        BY <1>1, <1>2, <2>1 DEF TypeInv, SnapshotsFit
      <3>. QED
        BY <2>1, <3>1 DEF SoundInv
    <2>2. CASE ~ (p = n /\ s = t.sku)
      <3>1. snap'[p][s] = snap[p][s]
        BY <1>1, <1>2, <2>2 DEF TypeInv, SnapshotsFit
      <3>. QED
        BY <3>1 DEF SoundInv
    <2>. QED
      BY <2>1, <2>2
  <1>4. \A p \in net.nodes : saving'[p] \subseteq saving[p]
    BY <1>1, <1>2 DEF TypeInv, SnapshotsFit
  <1>. QED
    BY <1>1, <1>3, <1>4 DEF SoundInv

\* Rows are deleted only while no snapshot is under way, and the snapshot covers them.
LEMMA CompactSound ==
    ASSUME Exclusive, TypeInv, LogInv, SoundInv, NEW n \in net.nodes, Compact(n)
    PROVE  SoundInv'
  <1>1. PICK log : Compacted(n, log)
    BY CompactFacts
  <1>2. /\ n \in Nodes /\ net.nodes \subseteq Nodes
        /\ rows' = [rows EXCEPT ![n] = log.rows] /\ mark' = [mark EXCEPT ![n] = log.mark]
        /\ saving[n] = {} /\ UNCHANGED <<net, snap, saving, written>>
    BY <1>1, ClusterFacts DEF Compacted
  <1>3. /\ rows'[n] = log.rows /\ mark'[n] = log.mark
        /\ \A p \in net.nodes : p # n => rows'[p] = rows[p] /\ mark'[p] = mark[p]
    BY <1>2 DEF TypeInv, LogFits
  <1>4. ASSUME NEW s \in SKUs PROVE SoundAt(snap[n][s], s, log.rows, log.mark, written)
    <2>1. SoundAt(snap[n][s], s, rows[n], mark[n], written)
      BY DEF SoundInv
    <2>2. ASSUME NEW e \in written, e.sku = s, e.seq <= log.mark[e.node], e \notin log.rows,
                 ~ (e.seq <= snap[n][s].covers[e.node])
          PROVE  FALSE
      <3>1. e \notin rows[n]
        BY <1>1, <2>2 DEF Compacted, Shrinks
      <3>2. ~ (e.seq <= mark[n][e.node])
        BY <2>1, <2>2, <3>1 DEF SoundAt
      <3>3. e \in Event /\ e.node \in Nodes /\ e.seq \in Nat
        BY SoundTypes DEF Event
      <3>4. log.mark[e.node] # mark[n][e.node]
        BY <2>2, <3>2
      <3>5. PICK t \in SKUs : log.mark[e.node] <= snap[n][t].covers[e.node]
        BY <1>1, <3>3, <3>4 DEF Compacted, Shrinks
      <3>6. PICK c \in Nat : c = snap[n][t].covers[e.node]
        BY <1>2, <3>3, SoundTypes DEF Snapshot, Vector
      <3>7. PICK f \in Nat : f = Frontier(rows[n], mark[n], e.node)
        BY <1>2, <3>3, SoundTypes, FrontierFacts
      <3>8. c <= f
        BY <1>2, <3>3, <3>6, <3>7, VectorsFit DEF LogInv, CoversHeld, Within
      <3>9. PICK m \in Nat : m = log.mark[e.node]
        BY <1>1, <3>3 DEF Compacted, Shrinks, Vector
      <3>10. e.seq <= f
        BY <2>2, <3>3, <3>5, <3>6, <3>8, <3>9
      <3>11. e \in rows[n] \/ e.seq <= mark[n][e.node]
        BY <1>2, <3>7, <3>10, SoundTypes, ClaimedRow
      <3>. QED
        BY <3>1, <3>2, <3>11
    <2>. QED
      BY <2>1, <2>2 DEF SoundAt
  <1>5. ASSUME NEW p \in net.nodes, NEW s \in SKUs
        PROVE  SoundAt(snap'[p][s], s, rows'[p], mark'[p], written')
    <2>1. CASE p = n
      BY <1>2, <1>3, <1>4, <2>1
    <2>2. CASE p # n
      BY <1>2, <1>3, <2>2 DEF SoundInv
    <2>. QED
      BY <2>1, <2>2
  <1>6. ASSUME NEW p \in net.nodes, NEW t \in saving'[p]
        PROVE  SoundAt(t.snapshot, t.sku, rows'[p], mark'[p], written')
    BY <1>2, <1>3 DEF SoundInv
  <1>. QED
    BY <1>2, <1>5, <1>6 DEF SoundInv

LEMMA SoundNext == Exclusive /\ TypeInv /\ LogInv /\ SoundInv /\ [Next]_vars => SoundInv'
  <1>. SUFFICES ASSUME Exclusive, TypeInv, LogInv, SoundInv, [Next]_vars PROVE SoundInv'
    OBVIOUS
  <1>1. TypeInv' /\ LogInv' /\ Advances
    BY TypeNext, LogNext, VectorsAdvance
  <1>2. ASSUME UNCHANGED <<net, rows, mark, snap, written>>,
               \A p \in net.nodes : saving'[p] \subseteq saving[p]
        PROVE  SoundInv'
    BY <1>2 DEF SoundInv
  <1>3. ASSUME UNCHANGED <<net, rows, mark, snap, saving, written>> PROVE SoundInv'
    BY <1>3 DEF SoundInv
  <1>4. ASSUME NEW n \in net.nodes, Emit(n) \/ SaveSnapshot(n) \/ Compact(n) PROVE SoundInv'
    BY <1>1, <1>4, EmitSound, SaveSound, CompactSound
  <1>5. ASSUME NEW n \in net.nodes, Restart(n) PROVE SoundInv'
    <2>1. \A p \in net.nodes : saving'[p] \subseteq saving[p]
      BY <1>5, ClusterFacts DEF Restart, TypeInv, SnapshotsFit
    <2>. QED
      BY <1>2, <1>5, <2>1 DEF Restart
  <1>6. ASSUME NEW l \in Links, Open(l[1], l[2]) PROVE SoundInv'
    BY <1>3, <1>6 DEF Open, logVars
  <1>7. ASSUME NEW c \in Nodes, Merge(c) PROVE SoundInv'
    BY <1>1, <1>7, MergeSound
  <1>8. ASSUME NEW c \in Nodes, Push(c) \/ Close(c) \/ Fail(c) PROVE SoundInv'
    BY <1>3, <1>8 DEF Push, Close, Fail, logVars
  <1>9. ASSUME Heal \/ UNCHANGED vars PROVE SoundInv'
    BY <1>3, <1>9 DEF Heal, vars, logVars
  <1>. QED
    BY <1>4, <1>5, <1>6, <1>7, <1>8, <1>9 DEF Next

\* A read of a node's log: the snapshot, and the rows it does not cover.
LEMMA ReadsAll ==
    ASSUME TypeInv, LogInv, SoundInv, NEW n \in net.nodes, NEW s \in SKUs
    PROVE  Project(n, s) = SetToBag({e \in Claimed(n) \cup rows[n] : e.sku = s})
  <1>. DEFINE p == snap[n][s]
              B == Below(written, s, p.covers)
              U == Uncovered(rows[n], s, p.covers)
              T == {e \in Claimed(n) \cup rows[n] : e.sku = s}
  <1>1. n \in Nodes /\ p \in Snapshot /\ rows[n] \in SUBSET written /\ written \in SUBSET Event
    BY SoundTypes
  <1>2. SoundAt(p, s, rows[n], mark[n], written)
    BY DEF SoundInv
  <1>3. \A a \in Nodes :
          /\ p.covers[a] \in Nat /\ VersionVector(n)[a] \in Nat
          /\ p.covers[a] <= VersionVector(n)[a]
    BY <1>1, VectorsFit DEF Snapshot, Vector, LogInv, CoversHeld, Within
  <1>4. \A e \in written : e.node \in Nodes /\ e.seq \in Nat
    BY <1>1 DEF Event
  <1>5. B \cap U = {}
    <2>. SUFFICES ASSUME NEW e \in B, e \in U PROVE FALSE
      OBVIOUS
    <2>1. e \in written /\ e.seq <= p.covers[e.node] /\ e.seq > p.covers[e.node]
      BY DEF Below, Uncovered
    <2>. QED
      BY <1>3, <1>4, <2>1
  <1>6. ASSUME NEW e \in B PROVE e \in T
    <2>1. e \in written /\ e.sku = s /\ e.seq <= p.covers[e.node]
      BY DEF Below
    <2>2. e.seq <= VersionVector(n)[e.node]
      BY <1>3, <1>4, <2>1
    <2>. QED
      BY <2>1, <2>2 DEF Claimed
  <1>7. U \subseteq T
    BY DEF Uncovered
  <1>8. ASSUME NEW e \in T PROVE e \in B \cup U
    <2>1. e \in written /\ e.sku = s
      BY <1>1 DEF Claimed
    <2>2. CASE e.seq <= p.covers[e.node]
      BY <2>1, <2>2 DEF Below
    <2>3. CASE ~ (e.seq <= p.covers[e.node])
      <3>1. e.seq > p.covers[e.node]
        BY <1>3, <1>4, <2>1, <2>3
      <3>2. CASE e \in rows[n]
        BY <2>1, <3>1, <3>2 DEF Uncovered
      <3>3. CASE e \notin rows[n]
        <4>1. e.seq <= VersionVector(n)[e.node]
          BY <3>3 DEF Claimed
        <4>2. e.seq <= Frontier(rows[n], mark[n], e.node)
          BY <1>1, <1>4, <2>1, <4>1, VectorsFit
        <4>3. e.seq <= mark[n][e.node]
          BY <2>1, <3>3, <4>2, SoundTypes, ClaimedRow
        <4>. QED
          BY <1>2, <2>1, <2>3, <3>3, <4>3 DEF SoundAt
      <3>. QED
        BY <3>2, <3>3
    <2>. QED
      BY <2>2, <2>3
  <1>9. B \cup U = T
    BY <1>6, <1>7, <1>8
  <1>10. Project(n, s) = Fold(SetToBag(B), U)
    BY <1>2 DEF Project, SoundAt
  <1>. HIDE DEF B, U, T
  <1>11. Project(n, s) = SetToBag(T)
    BY <1>5, <1>9, <1>10, FoldOnce
  <1>. QED
    BY <1>11 DEF T

LEMMA SoundInit == Init => SoundInv
  <1>. SUFFICES ASSUME Init PROVE SoundInv
    OBVIOUS
  <1>1. \A s : Below({}, s, Zero) = {}
    BY DEF Below
  <1>2. \A s : SoundAt(NoSnapshot, s, {}, Zero, {})
    BY <1>1 DEF SoundAt, NoSnapshot, EmptyBag
  <1>3. net.nodes \subseteq Nodes
    BY TypeInit, ClusterFacts
  <1>. QED
    BY <1>2, <1>3 DEF Init, SoundInv

LEMMA SoundInvariant == ASSUME Exclusive PROVE Spec => [](TypeInv /\ LogInv /\ SoundInv)
  <1>1. Init => TypeInv /\ LogInv /\ SoundInv
    BY TypeInit, LogInit, SoundInit
  <1>2. TypeInv /\ LogInv /\ SoundInv /\ [Next]_vars => (TypeInv /\ LogInv /\ SoundInv)'
    BY TypeNext, LogNext, SoundNext
  <1>. QED
    BY <1>1, <1>2, PTL DEF Spec

\* Where no compaction runs while a snapshot is under way, a read folds what the node holds
\* once each: through any order of arrival, duplicates, snapshots taken from snapshots,
\* deleted rows and restarts (Projector.Project, MaybeSnapshot, Compact).
THEOREM ReadsAllHeldOnceCorrect == ASSUME Exclusive PROVE Spec => []ReadsAllHeldOnce
  <1>1. TypeInv /\ LogInv /\ SoundInv => ReadsAllHeldOnce
    BY ReadsAll DEF ReadsAllHeldOnce
  <1>. QED
    BY <1>1, SoundInvariant, PTL

-----------------------------------------------------------------------------
(* One replicated log *)

\* The beginning of an author's part of the log: per number the events given it, once each.
Beginning(W, a, k) == [i \in 1..k |-> SetToBag({e \in W : e.node = a /\ e.seq = i})]

LEMMA BeginningFacts ==
    ASSUME NEW W, NEW a, NEW k \in Nat, NEW j \in 0..k
    PROVE  /\ Len(Beginning(W, a, k)) = k
           /\ SubSeq(Beginning(W, a, k), 1, j) = Beginning(W, a, j)
  <1>. DEFINE V == {SetToBag({e \in W : e.node = a /\ e.seq = i}) : i \in Nat}
  <1>1. \A i \in Nat : SetToBag({e \in W : e.node = a /\ e.seq = i}) \in V
    OBVIOUS
  <1>. HIDE DEF V
  <1>2. Beginning(W, a, k) \in Seq(V) /\ Len(Beginning(W, a, k)) = k
    BY <1>1 DEF Beginning
  <1>3. \A i \in 1..j : i \in 1..k /\ Beginning(W, a, k)[i] = Beginning(W, a, j)[i]
    BY DEF Beginning
  <1>4. Beginning(W, a, j) \in Seq(V) /\ Len(Beginning(W, a, j)) = j
    BY <1>1 DEF Beginning
  <1>5. SubSeq(Beginning(W, a, k), 1, j) = [i \in 1..j |-> Beginning(W, a, k)[i]]
    BY <1>2
  <1>6. SubSeq(Beginning(W, a, k), 1, j) = [i \in 1..j |-> Beginning(W, a, j)[i]]
    BY <1>3, <1>5
  <1>. QED
    BY <1>2, <1>4, <1>6 DEF Beginning

\* What a reader sees of an author is a beginning of what the author wrote.
Exact == \A n, a \in Nodes : View(n, a) = Beginning(written, a, VersionVector(n)[a])

LEMMA OutsideVector ==
    ASSUME TypeInv, LogInv, NEW n \in Nodes \ net.nodes, NEW a \in Nodes
    PROVE  VersionVector(n)[a] = 0
  <1>1. rows[n] = {} /\ mark[n] = Zero
    BY DEF LogInv, Outside
  <1>2. rows[n] \in SUBSET Event /\ IsFiniteSet(rows[n]) /\ mark[n] \in Vector
    BY DEF TypeInv, LogFits
  <1>3. Frontier(rows[n], mark[n], a) \in Seqs(By(rows[n], a)) \cup {mark[n][a]}
    BY <1>2, FrontierFacts
  <1>. QED
    BY <1>1, <1>3, VectorsFit DEF Seqs, By, Zero

LEMMA ViewsExact == TypeInv /\ LogInv /\ SoundInv => Exact
  <1>. SUFFICES ASSUME TypeInv, LogInv, SoundInv, NEW n \in Nodes, NEW a \in Nodes
                PROVE  View(n, a) = Beginning(written, a, VersionVector(n)[a])
    BY DEF Exact
  <1>1. PICK k \in Nat : k = VersionVector(n)[a]
    BY VectorsFit DEF Vector
  <1>2. ASSUME NEW i \in 1..k, NEW e \in written, e.node = a, e.seq = i
        PROVE  Copies(n, e.sku, e) = 1
    <2>1. n \in net.nodes
      BY <1>1, OutsideVector
    <2>2. e.sku \in SKUs /\ e \in Claimed(n)
      BY <1>1, <1>2 DEF Claimed, TypeInv, LogFits, Event
    <2>3. PICK T : e \in T /\ Project(n, e.sku) = SetToBag(T)
      BY <2>1, <2>2, ReadsAll
    <2>. QED
      BY <2>3 DEF Copies, BagIn, BagToSet, SetToBag
  <1>3. ASSUME NEW i \in 1..k
        PROVE  [e \in {f \in written : f.node = a /\ f.seq = i} |-> Copies(n, e.sku, e)]
                 = SetToBag({f \in written : f.node = a /\ f.seq = i})
    BY <1>2 DEF SetToBag
  <1>4. View(n, a) = [i \in 1..k |->
          [e \in {f \in written : f.node = a /\ f.seq = i} |-> Copies(n, e.sku, e)]]
    BY <1>1 DEF View
  <1>. QED
    BY <1>1, <1>3, <1>4 DEF Beginning

\* A compaction deletes nothing that its node claims to hold.
LEMMA CompactStands ==
    ASSUME TypeInv, LogInv, TypeInv', Advances, NEW n \in net.nodes, Compact(n)
    PROVE  \A p, a \in Nodes : VersionVector(p)'[a] = VersionVector(p)[a]
  <1>1. PICK log : Compacted(n, log)
    BY CompactFacts
  <1>2. n \in Nodes /\ net.nodes \subseteq Nodes
    BY ClusterFacts
  <1>3. /\ rows' = [rows EXCEPT ![n] = log.rows] /\ mark' = [mark EXCEPT ![n] = log.mark]
        /\ log.rows \subseteq rows[n]
    BY <1>1 DEF Compacted, Shrinks
  <1>. SUFFICES ASSUME NEW p \in Nodes, NEW a \in Nodes
                PROVE  VersionVector(p)'[a] = VersionVector(p)[a]
    OBVIOUS
  <1>4. CASE p # n
    <2>1. rows'[p] = rows[p] /\ mark'[p] = mark[p]
      BY <1>3, <1>4 DEF TypeInv, LogFits
    <2>. QED
      BY <2>1, VectorIs
  <1>5. CASE p = n
    <2>1. rows'[n] = log.rows /\ mark'[n] = log.mark
      BY <1>2, <1>3 DEF TypeInv, LogFits
    <2>2. /\ rows[n] \in SUBSET Event /\ IsFiniteSet(rows[n]) /\ mark[n] \in Vector
          /\ log.rows \in SUBSET Event /\ IsFiniteSet(log.rows) /\ log.mark \in Vector
      BY <1>2, <2>1 DEF TypeInv, LogFits
    <2>3. PICK f \in Nat : f = Frontier(rows[n], mark[n], a)
      BY <2>2, FrontierFacts
    <2>4. PICK k \in Nat : k = Frontier(log.rows, log.mark, a)
      BY <2>2, FrontierFacts
    <2>5. f <= k
      <3>1. VersionVector(n)[a] <= VersionVector(n)'[a]
        BY <1>2 DEF Advances
      <3>. QED
        BY <1>2, <2>1, <2>3, <2>4, <3>1, VectorIs
    <2>6. log.mark[a] \in Nat /\ log.mark[a] <= f
      <3>1. CASE log.mark[a] = mark[n][a]
        BY <2>2, <2>3, <3>1, FrontierFacts DEF Vector
      <3>2. CASE log.mark[a] # mark[n][a]
        <4>1. PICK t \in SKUs : log.mark[a] <= snap[n][t].covers[a]
          BY <1>1, <3>2 DEF Compacted, Shrinks
        <4>2. snap[n][t].covers[a] \in Nat
          BY SoundTypes DEF Snapshot, Vector
        <4>3. snap[n][t].covers[a] <= f
          BY <1>2, <2>3, VectorsFit DEF LogInv, CoversHeld, Within
        <4>. QED
          BY <2>2, <4>1, <4>2, <4>3 DEF Vector
      <3>. QED
        BY <3>1, <3>2
    <2>7. ASSUME f < k PROVE FALSE
      <3>1. f + 1 \in (log.mark[a] + 1)..k
        BY <2>6, <2>7
      <3>2. f + 1 \in Seqs(By(log.rows, a))
        BY <2>2, <2>4, <3>1, FrontierFacts
      <3>3. f + 1 \in Seqs(By(rows[n], a))
        BY <1>3, <3>2 DEF Seqs, By
      <3>. QED
        BY <2>2, <2>3, <3>3, FrontierFacts
    <2>8. f = k
      BY <2>5, <2>7
    <2>9. VersionVector(p)[a] = f /\ VersionVector(p)'[a] = k
      <3>1. rows[p] = rows[n] /\ mark[p] = mark[n] /\ rows'[p] = log.rows /\ mark'[p] = log.mark
        BY <1>5, <2>1
      <3>. QED
        BY <2>3, <2>4, <3>1, VectorIs
    <2>. QED
      BY <2>8, <2>9
  <1>. QED
    BY <1>4, <1>5

LEMMA FrontierOfAuthor ==
    ASSUME NEW R, NEW S, NEW m, NEW a, By(R, a) = By(S, a)
    PROVE  Frontier(R, m, a) = Frontier(S, m, a)
  BY DEF Frontier, By

LEMMA BeginningStays ==
    ASSUME NEW W, NEW e, NEW a, NEW k \in Nat, e.node = a => e.seq \notin 1..k
    PROVE  Beginning(W \cup {e}, a, k) = Beginning(W, a, k)
  <1>1. \A i \in 1..k : {f \in W \cup {e} : f.node = a /\ f.seq = i}
                          = {f \in W : f.node = a /\ f.seq = i}
    OBVIOUS
  <1>. QED
    BY <1>1 DEF Beginning

Views == [n \in Nodes |-> [a \in Nodes |-> View(n, a)]]

\* Where one node's view of one author is all that may change.
LEMMA ViewsChange ==
    ASSUME Exact, Exact', NEW n \in Nodes, NEW a \in Nodes,
           \A p, b \in Nodes : p # n \/ b # a =>
              Beginning(written', b, VersionVector(p)'[b])
                = Beginning(written, b, VersionVector(p)[b])
    PROVE  /\ \A p, b \in Nodes : Views[p][b] = Beginning(written, b, VersionVector(p)[b])
           /\ Views'[n][a] = Beginning(written', a, VersionVector(n)'[a])
           /\ Views' = [Views EXCEPT ![n][a] = Views'[n][a]]
  <1>1. \A p, b \in Nodes : View(p, b) = Beginning(written, b, VersionVector(p)[b])
    BY DEF Exact
  <1>2. \A p, b \in Nodes : View(p, b)' = Beginning(written', b, VersionVector(p)'[b])
    BY DEF Exact
  <1>3. \A p, b \in Nodes : Views[p][b] = View(p, b) /\ Views'[p][b] = View(p, b)'
    BY DEF Views
  <1>4. \A p, b \in Nodes : p # n \/ b # a => View(p, b)' = View(p, b)
    BY <1>1, <1>2
  <1>5. PICK v : v = Views'[n][a]
    OBVIOUS
  <1>6. Views' = [p \in Nodes |-> [b \in Nodes |-> IF p = n /\ b = a THEN v ELSE View(p, b)]]
    <2>1. Views' = [p \in Nodes |-> [b \in Nodes |-> View(p, b)']]
      BY DEF Views
    <2>2. \A p, b \in Nodes : View(p, b)' = IF p = n /\ b = a THEN v ELSE View(p, b)
      BY <1>3, <1>4, <1>5
    <2>. QED
      BY <2>1, <2>2
  <1>7. Views' = [Views EXCEPT ![n][a] = v]
    BY <1>6 DEF Views
  <1>. QED
    BY <1>1, <1>2, <1>3, <1>5, <1>7

LEMMA EmitWrites ==
    ASSUME TypeInv, LogInv, TypeInv', Advances, Exact, Exact', NEW n \in net.nodes, Emit(n)
    PROVE  Log!Write(n)
  <1>1. PICK e \in Event : Emitted(n, e)
    BY EmitFacts
  <1>2. n \in Nodes /\ net.nodes \subseteq Nodes
    BY ClusterFacts
  <1>3. PICK R : Stored(n, e, R)
    BY <1>1, <1>2, StoreFacts DEF Emitted
  <1>4. /\ e.node = n /\ e.seq = NextSeq(n) /\ written' = written \cup {e} /\ UNCHANGED mark
        /\ rows' = [rows EXCEPT ![n] = R]
    BY <1>1, <1>3 DEF Emitted, Stored
  <1>5. R = rows[n] \cup {e} /\ VersionVector(n)'[n] = e.seq
    BY <1>1, <1>3, EmitOwn
  <1>6. PICK k \in Nat : k + 1 = e.seq
    <2>1. PICK q \in Nat \ {0} : q = e.seq
      BY DEF Event
    <2>2. q - 1 \in Nat /\ (q - 1) + 1 = q
      OBVIOUS
    <2>. QED
      BY <2>1, <2>2
  <1>7. VersionVector(n)[n] = k /\ VersionVector(n)'[n] = k + 1
    BY <1>4, <1>5, <1>6, OwnFrontier
  <1>8. ASSUME NEW p \in Nodes PROVE \E j \in Nat : j = VersionVector(p)[n] /\ j <= k
    <2>1. CASE p \in net.nodes
      BY <1>2, <1>7, <2>1, AuthorHoldsMost, VectorTypes
    <2>2. CASE p \notin net.nodes
      BY <1>2, <2>2, OutsideVector
    <2>. QED
      BY <2>1, <2>2
  <1>9. ASSUME NEW p \in Nodes, NEW a \in Nodes, p # n \/ a # n
        PROVE  VersionVector(p)'[a] = VersionVector(p)[a]
    <2>1. CASE p # n
      <3>1. rows'[p] = rows[p] /\ mark'[p] = mark[p]
        BY <1>4, <2>1 DEF TypeInv, LogFits
      <3>. QED
        BY <3>1, VectorIs
    <2>2. CASE p = n /\ a # n
      <3>1. rows'[p] = rows[p] \cup {e} /\ mark'[p] = mark[p]
        BY <1>2, <1>4, <1>5, <2>2 DEF TypeInv, LogFits
      <3>2. By(rows'[p], a) = By(rows[p], a)
        BY <1>4, <2>2, <3>1 DEF By
      <3>3. Frontier(rows'[p], mark[p], a) = Frontier(rows[p], mark[p], a)
        BY <3>2, FrontierOfAuthor
      <3>. QED
        BY <3>1, <3>3, VectorIs
    <2>. QED
      BY <1>9, <2>1, <2>2
  <1>10. ASSUME NEW p \in Nodes, NEW a \in Nodes, p # n \/ a # n
         PROVE  Beginning(written', a, VersionVector(p)'[a])
                  = Beginning(written, a, VersionVector(p)[a])
    <2>1. PICK j \in Nat : j = VersionVector(p)[a]
      BY VectorTypes
    <2>2. e.node = a => e.seq \notin 1..j
      BY <1>4, <1>6, <1>8, <2>1
    <2>3. VersionVector(p)'[a] = j
      BY <1>9, <1>10, <2>1
    <2>4. Beginning(written \cup {e}, a, j) = Beginning(written, a, j)
      BY <2>2, BeginningStays
    <2>. QED
      BY <1>4, <2>1, <2>3, <2>4
  <1>11. /\ Views[n][n] = Beginning(written, n, k)
         /\ Views'[n][n] = Beginning(written', n, k + 1)
         /\ Views' = [Views EXCEPT ![n][n] = Views'[n][n]]
    BY <1>2, <1>7, <1>10, ViewsChange
  <1>12. Beginning(written', n, k) = Beginning(written, n, k)
    <2>1. e.seq \notin 1..k
      BY <1>6
    <2>2. Beginning(written \cup {e}, n, k) = Beginning(written, n, k)
      BY <2>1, BeginningStays
    <2>. QED
      BY <1>4, <2>2
  <1>13. /\ Len(Views[n][n]) = k /\ Len(Views'[n][n]) = k + 1
         /\ SubSeq(Views'[n][n], 1, k) = Views[n][n]
    <2>1. k \in 0..k /\ k \in 0..(k + 1) /\ k + 1 \in Nat
      OBVIOUS
    <2>. QED
      BY <1>11, <1>12, <2>1, BeginningFacts
  <1>14. /\ Len(Views'[n][n]) = Len(Views[n][n]) + 1
         /\ SubSeq(Views'[n][n], 1, Len(Views[n][n])) = Views[n][n]
         /\ Views' = [Views EXCEPT ![n][n] = Views'[n][n]]
    BY <1>11, <1>13
  <1>. QED
    BY <1>14 DEF Log!Write, Views

LEMMA MergeLearns ==
    ASSUME TypeInv, LogInv, TypeInv', Advances, Exact, Exact', NEW c \in Nodes, Merge(c)
    PROVE  UNCHANGED Views \/ \E n, a \in Nodes : Log!Learn(n, a)
  <1>1. PICK x \in session[c] : \E e, n : Merged(c, x, e, n)
    BY MergeFacts
  <1>2. PICK e, n : Merged(c, x, e, n)
    BY <1>1
  <1>3. e \in Event /\ n \in Nodes /\ n \in net.nodes /\ UNCHANGED <<net, mark, written>>
    BY <1>2, ClusterFacts DEF Merged
  <1>4. PICK R : Stored(n, e, R)
    BY <1>2, <1>3, StoreFacts DEF Merged
  <1>5. e \in written /\ e.node \in net.nodes
    BY <1>2, <1>3 DEF Merged, LogInv, RowsWritten, OwnHeld
  <1>6. PICK a \in Nodes : a = e.node
    BY <1>3 DEF Event
  <1>7. /\ rows'[n] = R /\ mark'[n] = mark[n] /\ R \subseteq rows[n] \cup {e}
        /\ rows[n] \subseteq R /\ \A p \in Nodes : p # n => rows'[p] = rows[p]
    BY <1>3, <1>4 DEF Stored, TypeInv, LogFits
  <1>8. ASSUME NEW p \in Nodes, NEW b \in Nodes, p # n \/ b # a
        PROVE  VersionVector(p)'[b] = VersionVector(p)[b]
    <2>1. CASE p # n
      <3>1. rows'[p] = rows[p] /\ mark'[p] = mark[p]
        BY <1>3, <1>7, <2>1
      <3>. QED
        BY <3>1, VectorIs
    <2>2. CASE p = n /\ b # a
      <3>1. rows'[p] = R /\ mark'[p] = mark[p]
        BY <1>7, <2>2
      <3>2. By(rows'[p], b) = By(rows[p], b)
        BY <1>6, <1>7, <2>2, <3>1 DEF By
      <3>3. Frontier(rows'[p], mark[p], b) = Frontier(rows[p], mark[p], b)
        BY <3>2, FrontierOfAuthor
      <3>. QED
        BY <3>1, <3>3, VectorIs
    <2>. QED
      BY <1>8, <2>1, <2>2
  <1>9. PICK i \in Nat, j \in Nat, k \in Nat :
          /\ i = VersionVector(n)[a] /\ j = VersionVector(n)'[a] /\ k = VersionVector(a)[a]
    BY <1>3, <1>6, VectorTypes
  <1>10. i <= j
    BY <1>3, <1>6, <1>9 DEF Advances
  <1>11. j <= k
    <2>1. R \in SUBSET Event /\ IsFiniteSet(R) /\ mark[n] \in Vector /\ R \subseteq written
      BY <1>3, <1>4, <1>5, <1>7, SoundTypes DEF Stored
    <2>2. j = Frontier(R, mark[n], a)
      BY <1>3, <1>6, <1>7, <1>9, VectorIs
    <2>3. j \in Seqs(By(R, a)) \cup {mark[n][a]}
      BY <1>6, <2>1, <2>2, FrontierFacts
    <2>4. CASE j = mark[n][a]
      BY <1>3, <1>5, <1>6, <1>9, <2>4 DEF LogInv, MarksHeld
    <2>5. CASE j \in Seqs(By(R, a))
      BY <1>9, <2>1, <2>5 DEF LogInv, OwnHeld, Seqs, By
    <2>. QED
      BY <2>3, <2>4, <2>5
  <1>12. ASSUME NEW p \in Nodes, NEW b \in Nodes, p # n \/ b # a
         PROVE  Beginning(written', b, VersionVector(p)'[b])
                  = Beginning(written, b, VersionVector(p)[b])
    BY <1>3, <1>8, <1>12
  <1>13. /\ Views[n][a] = Beginning(written, a, i) /\ Views[a][a] = Beginning(written, a, k)
         /\ Views'[n][a] = Beginning(written, a, j)
         /\ Views' = [Views EXCEPT ![n][a] = Views'[n][a]]
    BY <1>3, <1>6, <1>9, <1>12, ViewsChange
  <1>14. CASE i = j
    <2>1. Views \in [Nodes -> [Nodes -> {View(p, b) : p, b \in Nodes}]]
      BY DEF Views
    <2>2. PICK v : v = Views'[n][a] /\ v = Views[n][a]
      BY <1>13, <1>14
    <2>3. Views' = [Views EXCEPT ![n][a] = v]
      BY <1>13, <2>2
    <2>4. Views' = Views
      BY <1>3, <1>6, <2>1, <2>2, <2>3
    <2>. QED
      BY <2>4
  <1>15. CASE i # j
    <2>1. i \in 0..i /\ j \in 0..k /\ j \in 0..j /\ j \in (i + 1)..k /\ k \in 0..k
      BY <1>10, <1>11, <1>15
    <2>2. /\ Len(Views[n][a]) = i /\ Len(Views[a][a]) = k /\ Len(Views'[n][a]) = j
          /\ SubSeq(Views[a][a], 1, j) = Views'[n][a]
      BY <1>13, <2>1, BeginningFacts
    <2>3. /\ Len(Views'[n][a]) \in Len(Views[n][a]) + 1 .. Len(Views[a][a])
          /\ Views' = [Views EXCEPT ![n][a] = SubSeq(Views[a][a], 1, Len(Views'[n][a]))]
      BY <1>13, <2>1, <2>2
    <2>4. Log!Learn(n, a)
      BY <2>3 DEF Log!Learn, Views
    <2>. QED
      BY <1>3, <1>6, <2>4
  <1>. QED
    BY <1>14, <1>15

LEMMA ViewsStand ==
    ASSUME Exact, Exact', UNCHANGED written,
           \A p, a \in Nodes : VersionVector(p)'[a] = VersionVector(p)[a]
    PROVE  UNCHANGED Views
  <1>1. \A p, a \in Nodes : View(p, a)' = View(p, a)
    BY DEF Exact
  <1>. QED
    BY <1>1 DEF Views

\* Where no compaction runs while a snapshot is under way, the logs together are one
\* replicated log: what a reader sees of an author at any node is a beginning of what the
\* author wrote, each event once, and it only grows, at its author by a write and elsewhere
\* by what the author holds (VersionVector, Projector.Project, Compact).
THEOREM LogRefinedCorrect == ASSUME Exclusive PROVE Spec => LogRefined
  <1>1. TypeInv /\ LogInv /\ SoundInv => Exact
    BY ViewsExact
  <1>2. Init => Log!Init
    <2>. SUFFICES ASSUME Init PROVE Views = [s \in Nodes |-> [a \in Nodes |-> <<>>]]
      BY DEF Log!Init, Views
    <2>1. TypeInv /\ LogInv /\ Exact
      BY TypeInit, LogInit, SoundInit, ViewsExact
    <2>2. ASSUME NEW n \in Nodes, NEW a \in Nodes PROVE View(n, a) = <<>>
      <3>1. rows[n] \in SUBSET Event /\ IsFiniteSet(rows[n]) /\ mark[n] \in Vector
        BY <2>1 DEF TypeInv, LogFits
      <3>2. Frontier(rows[n], mark[n], a) \in Seqs(By(rows[n], a)) \cup {mark[n][a]}
        BY <3>1, FrontierFacts
      <3>3. VersionVector(n)[a] = 0
        BY <3>2, VectorIs DEF Init, Zero, Seqs, By
      <3>4. View(n, a) = Beginning(written, a, 0)
        BY <2>1, <3>3 DEF Exact
      <3>. QED
        BY <3>4 DEF Beginning
    <2>. QED
      BY <2>2 DEF Views
  <1>3. TypeInv /\ LogInv /\ TypeInv' /\ Exact /\ Exact' /\ [Next]_vars
          => [Log!Next]_([n \in Nodes |-> [a \in Nodes |-> View(n, a)]])
    <2>. SUFFICES ASSUME TypeInv, LogInv, TypeInv', Exact, Exact', [Next]_vars
                  PROVE  Log!Next \/ UNCHANGED Views
      BY DEF Views
    <2>0. Advances /\ net.nodes \subseteq Nodes
      BY VectorsAdvance, ClusterFacts
    <2>1. ASSUME NEW n \in net.nodes, Emit(n) PROVE Log!Next
      BY <2>0, <2>1, EmitWrites DEF Log!Next
    <2>2. ASSUME NEW c \in Nodes, Merge(c) PROVE Log!Next \/ UNCHANGED Views
      BY <2>0, <2>2, MergeLearns DEF Log!Next
    <2>3. ASSUME NEW n \in net.nodes, Compact(n) PROVE UNCHANGED Views
      BY <2>0, <2>3, CompactStands, ViewsStand DEF Compact
    <2>4. ASSUME UNCHANGED <<rows, mark, written>> PROVE UNCHANGED Views
      <3>1. \A p, a \in Nodes : VersionVector(p)'[a] = VersionVector(p)[a]
        BY <2>4, VectorIs
      <3>. QED
        BY <2>4, <3>1, ViewsStand
    <2>5. ASSUME NEW n \in net.nodes, SaveSnapshot(n) \/ Restart(n) PROVE UNCHANGED Views
      BY <2>4, <2>5 DEF SaveSnapshot, Restart
    <2>6. ASSUME NEW l \in Links, Open(l[1], l[2]) PROVE UNCHANGED Views
      BY <2>4, <2>6 DEF Open, logVars
    <2>7. ASSUME NEW c \in Nodes, Push(c) \/ Close(c) \/ Fail(c) PROVE UNCHANGED Views
      BY <2>4, <2>7 DEF Push, Close, Fail, logVars
    <2>8. ASSUME Heal \/ UNCHANGED vars PROVE UNCHANGED Views
      BY <2>4, <2>8 DEF Heal, vars, logVars
    <2>. QED
      BY <2>1, <2>2, <2>3, <2>5, <2>6, <2>7, <2>8 DEF Next
  <1>. QED
    BY <1>1, <1>2, <1>3, SoundInvariant, PTL DEF Spec, LogRefined, Log!Spec
=============================================================================
