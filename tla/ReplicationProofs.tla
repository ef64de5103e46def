-------------------------- MODULE ReplicationProofs --------------------------
(***************************************************************************)
(* Proofs about the replication of the logs, for every set of nodes, links *)
(* and commands, any number of exchanges at once and any batch size.       *)
(***************************************************************************)
EXTENDS ReplicationProperties, TLAPS, FiniteSetTheorems, FunctionTheorems,
        WellFoundedInduction

-----------------------------------------------------------------------------
(* Numbers and finite sets *)

\* A non-empty set of naturals has a least element, and a greatest if it is bounded.
LEMMA LeastNumber ==
    ASSUME NEW T \in SUBSET Nat, T # {}
    PROVE  \E m \in T : \A n \in T : m <= n
  <1>1. PICK m \in T : \A n \in T : <<n, m>> \notin OpToRel(<, Nat)
    BY NatLessThanWellFounded, WFMin
  <1>2. \A n \in T : ~ (n < m)
    BY <1>1 DEF OpToRel
  <1>. QED
    BY <1>2

LEMMA GreatestNumber ==
    ASSUME NEW T \in SUBSET Nat, T # {}, NEW b \in Nat, \A n \in T : n <= b
    PROVE  \E m \in T : \A n \in T : n <= m
  <1>. DEFINE U == {b - n : n \in T}
  <1>1. U \subseteq Nat /\ U # {}
    <2>1. \A n \in T : b - n \in Nat
      OBVIOUS
    <2>. QED
      BY <2>1
  <1>2. PICK u \in U : \A n \in U : u <= n
    BY <1>1, LeastNumber
  <1>3. PICK m \in T : u = b - m
    OBVIOUS
  <1>4. \A n \in T : b - m <= b - n
    BY <1>2, <1>3
  <1>. QED
    BY <1>4

LEMMA HighestFacts ==
    ASSUME NEW T \in SUBSET Nat, T # {}, NEW b \in Nat, \A n \in T : n <= b
    PROVE  /\ Highest(T) \in T
           /\ \A n \in T : n <= Highest(T)
  BY GreatestNumber DEF Highest

\* The sequence numbers of a finite log are bounded.
LEMMA SeqsBounded ==
    ASSUME NEW S \in SUBSET Record, IsFiniteSet(S)
    PROVE  \E b \in Nat : \A r \in S : r.seq <= b
  <1>. DEFINE Bounded(T) == \E b \in Nat : \A r \in T : r.seq <= b
              Bad == {k \in Nat : \E T \in SUBSET S : Cardinality(T) = k /\ ~ Bounded(T)}
  <1>1. ASSUME Bad # {} PROVE FALSE
    <2>1. PICK k \in Bad : \A j \in Bad : k <= j
      BY <1>1, LeastNumber
    <2>2. PICK T \in SUBSET S : Cardinality(T) = k /\ ~ Bounded(T)
      OBVIOUS
    <2>3. T # {}
      <3>1. Bounded({})
        OBVIOUS
      <3>. QED
        BY <2>2, <3>1
    <2>4. PICK r : r \in T
      BY <2>3
    <2>5. /\ IsFiniteSet(T) /\ Cardinality(T \ {r}) = k - 1 /\ T \ {r} \in SUBSET S
          /\ Cardinality(T \ {r}) \in Nat
      BY <2>2, <2>4, FS_Subset, FS_RemoveElement, FS_CardinalityType
    <2>6. Bounded(T \ {r})
      <3>1. k - 1 \notin Bad
        BY <2>1
      <3>. QED
        BY <2>5, <3>1
    <2>7. PICK b \in Nat : \A q \in T \ {r} : q.seq <= b
      BY <2>6
    <2>8. r.seq \in Nat
      BY <2>4 DEF Record
    <2>9. PICK c \in Nat : c >= b /\ c >= r.seq
      BY <2>8
    <2>10. \A q \in T : q.seq <= c
      <3>. SUFFICES ASSUME NEW q \in T PROVE q.seq <= c
        OBVIOUS
      <3>1. q.seq \in Nat
        BY DEF Record
      <3>. QED
        BY <2>7, <2>8, <2>9, <3>1
    <2>. QED
      BY <2>2, <2>10
  <1>2. Cardinality(S) \in Nat
    BY FS_CardinalityType
  <1>. QED
    BY <1>1, <1>2

-----------------------------------------------------------------------------
(* Records in order *)

\* A log holds one record of an author with a number.
Apart(S) == \A r, q \in S : r.author = q.author /\ r.seq = q.seq => r = q

\* The records of S that come before r.
Below(r, S) == {q \in S : Less(q, r)}

LEMMA LessFacts ==
    ASSUME NEW S \in SUBSET Record, Apart(S)
    PROVE  /\ \A r \in S : ~ Less(r, r)
           /\ \A r, q \in S : r = q \/ Less(r, q) \/ Less(q, r)
           /\ \A r, q, p \in S : Less(r, q) /\ Less(q, p) => Less(r, p)
  <1>0. \A r \in S : r.at.wall \in Nat /\ r.at.logical \in Nat /\ r.author \in Nat /\ r.seq \in Nat
    BY ReplicationAssumption DEF Record, HLC
  <1>1. ASSUME NEW r \in S PROVE ~ Less(r, r)
    BY <1>0 DEF Less, Before
  <1>2. ASSUME NEW r \in S, NEW q \in S PROVE r = q \/ Less(r, q) \/ Less(q, r)
    <2>1. CASE r.at = q.at
      <3>1. \/ r.author < q.author \/ q.author < r.author \/ r.seq < q.seq \/ q.seq < r.seq
            \/ r.author = q.author /\ r.seq = q.seq
        BY <1>0
      <3>. QED
        BY <1>0, <2>1, <3>1 DEF Less, Apart
    <2>2. CASE r.at # q.at
      <3>1. r.at.wall # q.at.wall \/ r.at.logical # q.at.logical
        BY <2>2 DEF Record, HLC
      <3>. QED
        BY <1>0, <3>1 DEF Less, Before
    <2>. QED
      BY <2>1, <2>2
  <1>3. ASSUME NEW r \in S, NEW q \in S, NEW p \in S, Less(r, q), Less(q, p) PROVE Less(r, p)
    <2>1. CASE r.at = q.at
      BY <1>0, <1>3, <2>1 DEF Less, Before
    <2>2. CASE q.at = p.at
      BY <1>0, <1>3, <2>2 DEF Less, Before
    <2>3. CASE Before(r.at, q.at) /\ Before(q.at, p.at)
      BY <1>0, <2>3 DEF Less, Before
    <2>. QED
      BY <1>3, <2>1, <2>2, <2>3 DEF Less
  <1>. QED
    BY <1>1, <1>2, <1>3

\* As many records come before one as its place says, and each has a place.
LEMMA Places ==
    ASSUME NEW S \in SUBSET Record, IsFiniteSet(S), Apart(S)
    PROVE  /\ \A r \in S : Cardinality(Below(r, S)) \in 0..(Cardinality(S) - 1)
           /\ \A r, q \in S : Less(q, r) => Cardinality(Below(q, S)) < Cardinality(Below(r, S))
           /\ \A i \in 0..(Cardinality(S) - 1) : \E r \in S : Cardinality(Below(r, S)) = i
  <1>. DEFINE n == Cardinality(S)
              place == [r \in S |-> Cardinality(Below(r, S))]
  <1>0. n \in Nat /\ \A r \in S : IsFiniteSet(Below(r, S)) /\ Cardinality(Below(r, S)) \in Nat
    BY FS_CardinalityType, FS_Subset DEF Below
  <1>1. ASSUME NEW r \in S PROVE Cardinality(Below(r, S)) \in 0..(n - 1)
    <2>1. r \notin Below(r, S) /\ Below(r, S) \in SUBSET S
      BY LessFacts DEF Below
    <2>2. Cardinality(Below(r, S)) <= n /\ Cardinality(Below(r, S)) # n
      BY <2>1, FS_Subset
    <2>. QED
      BY <1>0, <2>2
  <1>2. ASSUME NEW r \in S, NEW q \in S, Less(q, r)
        PROVE  Cardinality(Below(q, S)) < Cardinality(Below(r, S))
    <2>1. Below(q, S) \in SUBSET Below(r, S) /\ q \in Below(r, S) /\ q \notin Below(q, S)
      BY <1>2, LessFacts DEF Below
    <2>2. /\ Cardinality(Below(q, S)) <= Cardinality(Below(r, S))
          /\ Cardinality(Below(q, S)) # Cardinality(Below(r, S))
      BY <1>0, <2>1, FS_Subset
    <2>. QED
      BY <1>0, <2>2
  <1>3. place \in Injection(S, 0..(n - 1))
    <2>1. place \in [S -> 0..(n - 1)]
      BY <1>1
    <2>2. ASSUME NEW r \in S, NEW q \in S, place[r] = place[q] PROVE r = q
      <3>1. Cardinality(Below(r, S)) = Cardinality(Below(q, S))
        BY <2>2
      <3>2. Cardinality(Below(r, S)) \in Nat
        BY <1>0
      <3>. QED
        BY <1>2, <3>1, <3>2, LessFacts
    <2>. QED
      BY <2>1, <2>2 DEF Injection, IsInjective
  <1>4. IsFiniteSet(0..(n - 1)) /\ Cardinality(0..(n - 1)) = n
    BY SMTT(30), <1>0, FS_Interval
  <1>5. place \in Surjection(S, 0..(n - 1))
    BY <1>3, <1>4, FS_Injection
  <1>6. \A i \in 0..(n - 1) : \E r \in S : place[r] = i
    BY <1>5 DEF Surjection
  <1>. QED
    BY <1>1, <1>2, <1>6

\* Sorted lists the set, each record after those before it.
LEMMA SortedFacts ==
    ASSUME NEW S \in SUBSET Record, IsFiniteSet(S), Apart(S)
    PROVE  /\ Sorted(S) \in Seq(S) /\ Len(Sorted(S)) = Cardinality(S)
           /\ \A r \in S : \E i \in 1..Len(Sorted(S)) : Sorted(S)[i] = r
           /\ \A r, q \in S : \A i \in 1..Len(Sorted(S)) :
                 Sorted(S)[i] = r /\ Less(q, r) => \E j \in 1..(i - 1) : Sorted(S)[j] = q
  <1>. DEFINE n == Cardinality(S)
              At(i) == CHOOSE r \in S : Cardinality(Below(r, S)) = i - 1
  <1>0. n \in Nat
    BY FS_CardinalityType
  <1>1. Sorted(S) = [i \in 1..n |-> At(i)]
    BY DEF Sorted, Below
  <1>2. ASSUME NEW i \in 1..n PROVE At(i) \in S /\ Cardinality(Below(At(i), S)) = i - 1
    <2>1. i - 1 \in 0..(n - 1)
      BY <1>0
    <2>2. \E r \in S : Cardinality(Below(r, S)) = i - 1
      BY <2>1, Places
    <2>. QED
      BY <2>2
  <1>3. Sorted(S) \in Seq(S) /\ Len(Sorted(S)) = n
    BY <1>0, <1>1, <1>2
  <1>4. ASSUME NEW r \in S, NEW i \in 1..n, Cardinality(Below(r, S)) = i - 1 PROVE Sorted(S)[i] = r
    <2>1. Sorted(S)[i] = At(i)
      BY <1>1
    <2>2. /\ At(i) \in S /\ Cardinality(Below(At(i), S)) = i - 1
      BY <1>2
    <2>3. ~ Less(At(i), r) /\ ~ Less(r, At(i))
      <3>1. /\ Less(At(i), r) => Cardinality(Below(At(i), S)) < Cardinality(Below(r, S))
            /\ Less(r, At(i)) => Cardinality(Below(r, S)) < Cardinality(Below(At(i), S))
        BY <2>2, Places
      <3>. HIDE DEF At
      <3>. QED
        BY <1>0, <1>4, <2>2, <3>1
    <2>. QED
      BY <2>1, <2>2, <2>3, LessFacts
  <1>5. ASSUME NEW r \in S PROVE Sorted(S)[Cardinality(Below(r, S)) + 1] = r
                                 /\ Cardinality(Below(r, S)) + 1 \in 1..n
    <2>1. Cardinality(Below(r, S)) \in 0..(n - 1)
      BY Places
    <2>. QED
      BY <1>0, <1>4, <2>1
  <1>6. ASSUME NEW r \in S, NEW q \in S, NEW i \in 1..n, Sorted(S)[i] = r, Less(q, r)
        PROVE  \E j \in 1..(i - 1) : Sorted(S)[j] = q
    <2>1. Cardinality(Below(r, S)) = i - 1
      BY <1>1, <1>2, <1>6
    <2>2. Cardinality(Below(q, S)) < i - 1 /\ Cardinality(Below(q, S)) \in 0..(n - 1)
      BY <1>6, <2>1, Places
    <2>3. Cardinality(Below(q, S)) + 1 \in 1..(i - 1)
      BY <1>0, <2>2
    <2>. QED
      BY <1>5, <2>3
  <1>. QED
    BY <1>3, <1>5, <1>6

-----------------------------------------------------------------------------
(* Batches *)

LEMMA Quotient ==
    ASSUME NEW x \in Nat, NEW b \in Nat \ {0}
    PROVE  /\ x \div b \in Nat
           /\ (x \div b) * b <= x /\ x < (x \div b) * b + b
  OBVIOUS

LEMMA Products ==
    ASSUME NEW i \in Nat, NEW j \in Nat, NEW b \in Nat, i <= j
    PROVE  i * b <= j * b /\ i * b \in Nat /\ j * b \in Nat
  OBVIOUS

\* The i-th batch holds the records from (i - 1) * BatchSize + 1, and is not empty.
LEMMA BatchFacts ==
    ASSUME NEW S, NEW recs \in Seq(S)
    PROVE  LET n == (Len(recs) + BatchSize - 1) \div BatchSize
           IN /\ n \in Nat /\ Len(Batches(recs)) = n
              /\ Batches(recs) \in Seq(Seq(S))
              /\ \A i \in 1..n :
                    /\ Batches(recs)[i] # <<>>
                    /\ (i - 1) * BatchSize \in Nat
                    /\ Len(Batches(recs)[i]) \in 1..BatchSize
                    /\ (i - 1) * BatchSize + Len(Batches(recs)[i]) <= Len(recs)
                    /\ (i - 1) * BatchSize + Len(Batches(recs)[i]) < Len(recs)
                          => Len(Batches(recs)[i]) = BatchSize
                    /\ \A j \in 1..Len(Batches(recs)[i]) :
                          Batches(recs)[i][j] = recs[(i - 1) * BatchSize + j]
  <1>. DEFINE b == BatchSize
              len == Len(recs)
              n == (len + b - 1) \div b
              end(i) == IF i * b < len THEN i * b ELSE len
              part(i) == SubSeq(recs, (i - 1) * b + 1, end(i))
  <1>0. b \in Nat \ {0} /\ len \in Nat
    BY ReplicationAssumption
  <1>1. n \in Nat /\ n * b <= len + b - 1
    <2>1. len + b - 1 \in Nat
      BY <1>0
    <2>. QED
      BY <1>0, <2>1, Quotient
  <1>2. ASSUME NEW i \in 1..n
        PROVE  /\ i * b \in Nat /\ (i - 1) * b = i * b - b /\ (i - 1) * b \in Nat
               /\ (i - 1) * b + 1 <= len
               /\ end(i) \in Nat /\ end(i) <= len /\ end(i) >= (i - 1) * b + 1
               /\ end(i) <= (i - 1) * b + b /\ (end(i) < len => end(i) = (i - 1) * b + b)
    <2>1. i * b <= n * b /\ i * b \in Nat /\ (i - 1) * b \in Nat
      BY <1>0, <1>1, Products
    <2>2. (i - 1) * b = i * b - b
      BY <1>0
    <2>3. n * b \in Nat
      BY <1>0, <1>1, Products
    <2>4. PICK p \in Nat : p = i * b
      BY <2>1
    <2>5. (i - 1) * b + 1 <= len
      BY <1>0, <1>1, <2>1, <2>2, <2>3, <2>4
    <2>. QED
      BY <1>0, <2>1, <2>2, <2>4, <2>5
  <1>. HIDE DEF n
  <1>3. Batches(recs) = [i \in 1..n |-> part(i)]
    BY DEF Batches, n
  <1>4. ASSUME NEW i \in 1..n
        PROVE  /\ part(i) \in Seq(S) /\ Len(part(i)) = end(i) - (i - 1) * b
               /\ \A j \in 1..(end(i) - (i - 1) * b) : part(i)[j] = recs[(i - 1) * b + j]
    <2>1. PICK lo \in Nat : lo = (i - 1) * b
      BY <1>2
    <2>2. PICK hi \in Nat : hi = end(i)
      BY <1>2
    <2>3. lo + 1 <= len /\ hi <= len /\ lo + 1 <= hi
      BY <1>2, <2>1, <2>2
    <2>4. /\ SubSeq(recs, lo + 1, hi) \in Seq(S)
          /\ Len(SubSeq(recs, lo + 1, hi)) = hi - lo
          /\ \A j \in 1..(hi - lo) : SubSeq(recs, lo + 1, hi)[j] = recs[lo + j]
      BY <1>0, <2>3
    <2>. QED
      BY <2>1, <2>2, <2>4
  <1>5. /\ Batches(recs) \in Seq(Seq(S)) /\ Len(Batches(recs)) = n
        /\ \A i \in 1..n : Batches(recs)[i] = part(i)
    <2>. HIDE DEF part
    <2>1. n \in Nat /\ \A i \in 1..n : part(i) \in Seq(S)
      BY <1>1, <1>4
    <2>. QED
      BY <1>3, <2>1
  <1>6. ASSUME NEW i \in 1..n
        PROVE  /\ Batches(recs)[i] # <<>>
               /\ (i - 1) * b \in Nat
               /\ Len(Batches(recs)[i]) \in 1..b
               /\ (i - 1) * b + Len(Batches(recs)[i]) <= len
               /\ (i - 1) * b + Len(Batches(recs)[i]) < len => Len(Batches(recs)[i]) = b
               /\ \A j \in 1..Len(Batches(recs)[i]) :
                     Batches(recs)[i][j] = recs[(i - 1) * b + j]
    <2>1. PICK lo \in Nat : lo = (i - 1) * b
      BY <1>2
    <2>2. PICK hi \in Nat : hi = end(i)
      BY <1>2
    <2>3. PICK batch \in Seq(S) : batch = Batches(recs)[i]
      BY <1>4, <1>5
    <2>4. Len(batch) = hi - lo /\ \A j \in 1..(hi - lo) : batch[j] = recs[lo + j]
      <3>. HIDE DEF part, end
      <3>. QED
        BY <1>4, <1>5, <2>1, <2>2, <2>3
    <2>5. hi <= len /\ hi >= lo + 1 /\ hi <= lo + b /\ (hi < len => hi = lo + b)
      BY <1>2, <2>1, <2>2
    <2>6. /\ batch # <<>> /\ Len(batch) \in 1..b /\ lo + Len(batch) <= len
          /\ lo + Len(batch) < len => Len(batch) = b
          /\ \A j \in 1..Len(batch) : batch[j] = recs[lo + j]
      BY <1>0, <2>4, <2>5
    <2>. QED
      BY <2>1, <2>3, <2>6
  <1>. QED
    BY <1>1, <1>5, <1>6 DEF n

\* Each record is in some batch, behind those before it in the order sent.
LEMMA BatchedAll ==
    ASSUME NEW S, NEW recs \in Seq(S), NEW k \in 1..Len(recs)
    PROVE  \E i \in 1..Len(Batches(recs)) : \E j \in 1..Len(Batches(recs)[i]) :
              k = (i - 1) * BatchSize + j
  <1>. DEFINE b == BatchSize
              len == Len(recs)
              n == (len + b - 1) \div b
              q == (k - 1) \div b
  <1>0. b \in Nat \ {0} /\ len \in Nat
    BY ReplicationAssumption
  <1>1. q \in Nat /\ q * b \in Nat /\ q * b <= k - 1 /\ k - 1 < q * b + b
    BY <1>0, Quotient, Products
  <1>2. n \in Nat /\ n * b \in Nat /\ len + b - 1 < n * b + b
    BY <1>0, Quotient, Products
  <1>. HIDE DEF n, q
  <1>3. q + 1 \in 1..n
    <2>1. ASSUME n <= q PROVE FALSE
      <3>1. n * b <= q * b
        BY <1>0, <1>1, <1>2, <2>1, Products
      <3>2. PICK x \in Nat : x = q * b
        BY <1>1
      <3>3. PICK y \in Nat : y = n * b
        BY <1>2
      <3>. QED
        BY <1>0, <1>1, <1>2, <3>1, <3>2, <3>3
    <2>. QED
      BY <1>1, <1>2, <2>1
  <1>4. PICK x \in Nat : x = q * b
    BY <1>1
  <1>5. PICK i \in 1..n : (i - 1) * b = x
    <2>1. PICK i \in 1..n : i = q + 1
      BY <1>3
    <2>2. i - 1 = q
      BY <1>1, <2>1
    <2>. QED
      BY <1>4, <2>2
  <1>6. /\ Len(Batches(recs)) = n
        /\ (i - 1) * b + Len(Batches(recs)[i]) < len => Len(Batches(recs)[i]) = b
        /\ Len(Batches(recs)[i]) \in 1..b
    BY BatchFacts DEF n
  <1>7. PICK m \in Nat : m = Len(Batches(recs)[i])
    BY <1>0, <1>6
  <1>8. x + m < len => m = b
    BY <1>5, <1>6, <1>7
  <1>9. k - x \in 1..m
    BY <1>0, <1>1, <1>4, <1>6, <1>7, <1>8
  <1>10. k = x + (k - x)
    BY <1>0
  <1>11. \E j \in 1..Len(Batches(recs)[i]) : k = (i - 1) * b + j
    BY <1>5, <1>7, <1>9, <1>10
  <1>. QED
    BY <1>6, <1>11

-----------------------------------------------------------------------------
(* The clock *)

LEMMA BeforeFacts ==
    ASSUME NEW f \in HLC, NEW g \in HLC, NEW h \in HLC
    PROVE  /\ ~ Before(f, f)
           /\ Before(f, g) /\ Before(g, h) => Before(f, h)
           /\ Before(f, g) \/ f = g \/ Before(g, f)
  <1>1. /\ f.wall \in Nat /\ f.logical \in Nat /\ g.wall \in Nat /\ g.logical \in Nat
        /\ h.wall \in Nat /\ h.logical \in Nat
        /\ f.wall = g.wall /\ f.logical = g.logical => f = g
    BY DEF HLC
  <1>. QED
    BY <1>1 DEF Before

\* A stamp that was issued or observed comes after all that the clock had seen, and is
\* no later than the latest of them and the physical time.
LEMMA Advanced ==
    ASSUME NEW physical \in Nat, NEW g \in HLC, NEW h \in HLC
    PROVE  LET at == Advance(physical, {g, h})
           IN /\ at \in HLC
              /\ Before(g, at) /\ Before(h, at)
              /\ at.wall >= physical
              /\ at.wall \in {physical, g.wall, h.wall}
  <1>. DEFINE seen == {g, h}
              walls == {physical} \cup {e.wall : e \in seen}
              wall == Highest(walls)
              ticks == {e.logical : e \in {f \in seen : f.wall = wall}}
              at == Advance(physical, seen)
  <1>1. /\ g.wall \in Nat /\ g.logical \in Nat /\ h.wall \in Nat /\ h.logical \in Nat
    BY DEF HLC
  <1>2. /\ walls = {physical, g.wall, h.wall}
    OBVIOUS
  <1>3. PICK b \in Nat : b >= physical /\ b >= g.wall /\ b >= h.wall
    <2>1. /\ physical + g.wall + h.wall \in Nat
          /\ physical + g.wall + h.wall >= physical
          /\ physical + g.wall + h.wall >= g.wall
          /\ physical + g.wall + h.wall >= h.wall
      BY <1>1
    <2>. QED
      BY <2>1
  <1>4. /\ wall \in walls /\ \A n \in walls : n <= wall
    <2>1. walls \in SUBSET Nat /\ walls # {} /\ \A n \in walls : n <= b
      BY <1>1, <1>2, <1>3
    <2>. HIDE DEF walls
    <2>. QED
      BY <2>1, HighestFacts
  <1>. HIDE DEF walls
  <1>5. /\ wall \in Nat /\ wall >= physical /\ wall >= g.wall /\ wall >= h.wall
        /\ wall \in {physical, g.wall, h.wall}
    BY <1>1, <1>2, <1>4
  <1>6. at = [wall |-> wall, logical |-> IF ticks = {} THEN 0 ELSE 1 + Highest(ticks)]
    BY DEF Advance, walls
  <1>. HIDE DEF wall
  <1>7. /\ ticks \in SUBSET Nat
        /\ g.wall = wall => g.logical \in ticks
        /\ h.wall = wall => h.logical \in ticks
        /\ \A n \in ticks : n <= g.logical + h.logical
    BY <1>1
  <1>8. ticks # {} => Highest(ticks) \in Nat /\ \A n \in ticks : n <= Highest(ticks)
    <2>1. g.logical + h.logical \in Nat
      BY <1>1
    <2>. HIDE DEF ticks
    <2>2. ASSUME ticks # {} PROVE Highest(ticks) \in ticks /\ \A n \in ticks : n <= Highest(ticks)
      BY <1>7, <2>1, <2>2, HighestFacts
    <2>. QED
      BY <1>7, <2>2
  <1>. HIDE DEF ticks, at
  <1>9. /\ at.wall = wall /\ at.logical \in Nat
        /\ g.wall = wall => g.logical < at.logical
        /\ h.wall = wall => h.logical < at.logical
    BY <1>1, <1>6, <1>7, <1>8
  <1>10. at \in HLC
    BY <1>5, <1>6, <1>8 DEF HLC
  <1>11. Before(g, at) /\ Before(h, at)
    BY <1>1, <1>5, <1>9 DEF Before
  <1>. QED
    BY <1>5, <1>9, <1>10, <1>11 DEF at

LEMMA Observed ==
    ASSUME TypeOK, NEW n \in Nodes, NEW at \in HLC
    PROVE  /\ Physical(n) \in Nat /\ clk[n] \in HLC
           /\ Observe(n, at) \in HLC
           /\ Before(at, Observe(n, at)) /\ Before(clk[n], Observe(n, at))
           /\ Observe(n, at).wall >= Physical(n)
           /\ Observe(n, at).wall \in {Physical(n), at.wall, clk[n].wall}
  <1>1. Physical(n) \in Nat /\ clk[n] \in HLC
    BY ReplicationAssumption DEF Physical, TypeOK
  <1>. QED
    BY <1>1, Advanced DEF Observe

LEMMA Stamped ==
    ASSUME TypeOK, NEW n \in Nodes
    PROVE  LET at == Advance(Physical(n), {clk[n]})
           IN /\ at \in HLC /\ Before(clk[n], at) /\ at.wall >= Physical(n)
              /\ at.wall \in {Physical(n), clk[n].wall}
  <1>1. Physical(n) \in Nat /\ clk[n] \in HLC
    BY ReplicationAssumption DEF Physical, TypeOK
  <1>2. {clk[n]} = {clk[n], clk[n]}
    OBVIOUS
  <1>3. PICK h \in HLC : h = clk[n]
    BY <1>1
  <1>. QED
    BY <1>1, <1>2, <1>3, Advanced

-----------------------------------------------------------------------------
(* Version vectors *)

LEMMA VersionFacts ==
    ASSUME NEW S \in SUBSET Record, IsFiniteSet(S)
    PROVE  /\ VersionOf(S) \in Vector
           /\ \A r \in S : r.seq <= VersionOf(S)[r.author]
           /\ \A a \in Nodes : VersionOf(S)[a] # 0 =>
                 \E r \in S : r.author = a /\ r.seq = VersionOf(S)[a]
  <1>1. PICK b \in Nat : \A r \in S : r.seq <= b
    BY SeqsBounded
  <1>. DEFINE seqs(a) == {0} \cup {r.seq : r \in Of(a, S)}
  <1>2. ASSUME NEW a \in Nodes
        PROVE  Highest(seqs(a)) \in seqs(a) /\ \A n \in seqs(a) : n <= Highest(seqs(a))
    <2>1. seqs(a) \in SUBSET Nat /\ seqs(a) # {} /\ \A n \in seqs(a) : n <= b
      BY <1>1 DEF Of, Record
    <2>. HIDE DEF seqs
    <2>. QED
      BY <1>1, <2>1, HighestFacts
  <1>3. VersionOf(S) = [a \in Nodes |-> Highest(seqs(a))]
    BY DEF VersionOf
  <1>4. \A a \in Nodes : seqs(a) \subseteq Nat
    BY DEF Of, Record
  <1>5. \A r \in S : r.author \in Nodes /\ r.seq \in seqs(r.author)
    BY DEF Of, Record
  <1>6. \A a \in Nodes : \A n \in seqs(a) : n # 0 => \E r \in S : r.author = a /\ r.seq = n
    BY DEF Of
  <1>. HIDE DEF seqs
  <1>. QED
    BY <1>2, <1>3, <1>4, <1>5, <1>6 DEF Vector

-----------------------------------------------------------------------------
(* Balances *)

LEMMA FoldFacts ==
    ASSUME NEW S \in SUBSET Record, IsFiniteSet(S)
    PROVE  /\ Fold(S) \in [Nodes -> Int]
           /\ \A r \in Record : r \notin S => Fold(S \cup {r}) = Apply(Fold(S), r.op)
  <1>. DEFINE in(T, l) == {r \in T : r.op.to = l}
              out(T, l) == {r \in T : r.op.from = l}
  <1>1. \A l : /\ IsFiniteSet(in(S, l)) /\ Cardinality(in(S, l)) \in Nat
               /\ IsFiniteSet(out(S, l)) /\ Cardinality(out(S, l)) \in Nat
    BY FS_Subset, FS_CardinalityType
  <1>2. Fold(S) \in [Nodes -> Int]
    <2>1. Fold(S) = [l \in Nodes |-> Cardinality(in(S, l)) - Cardinality(out(S, l))]
      BY DEF Fold
    <2>. HIDE DEF in, out
    <2>2. \A l : Cardinality(in(S, l)) - Cardinality(out(S, l)) \in Int
      BY <1>1
    <2>. QED
      BY <2>1, <2>2
  <1>3. ASSUME NEW r \in Record, r \notin S PROVE Fold(S \cup {r}) = Apply(Fold(S), r.op)
    <2>1. ASSUME NEW l
          PROVE  /\ Cardinality(in(S \cup {r}, l)) =
                        Cardinality(in(S, l)) + IF r.op.to = l THEN 1 ELSE 0
                 /\ Cardinality(out(S \cup {r}, l)) =
                        Cardinality(out(S, l)) + IF r.op.from = l THEN 1 ELSE 0
      <3>1. /\ in(S \cup {r}, l) = IF r.op.to = l THEN in(S, l) \cup {r} ELSE in(S, l)
            /\ out(S \cup {r}, l) = IF r.op.from = l THEN out(S, l) \cup {r} ELSE out(S, l)
            /\ r \notin in(S, l) /\ r \notin out(S, l)
        BY <1>3
      <3>. HIDE DEF in, out
      <3>2. /\ Cardinality(in(S, l) \cup {r}) = Cardinality(in(S, l)) + 1
            /\ Cardinality(out(S, l) \cup {r}) = Cardinality(out(S, l)) + 1
        BY <1>1, <3>1, FS_AddElement
      <3>. QED
        BY <1>1, <3>1, <3>2
    <2>2. \A T : Fold(T) = [l \in Nodes |-> Cardinality(in(T, l)) - Cardinality(out(T, l))]
      BY DEF Fold
    <2>. HIDE DEF in, out
    <2>3. ASSUME NEW l \in Nodes PROVE Fold(S \cup {r})[l] = Apply(Fold(S), r.op)[l]
      <3>1. /\ Fold(S)[l] = Cardinality(in(S, l)) - Cardinality(out(S, l))
            /\ Fold(S \cup {r})[l] =
                 Cardinality(in(S \cup {r}, l)) - Cardinality(out(S \cup {r}, l))
        BY <2>2
      <3>2. Apply(Fold(S), r.op)[l] = Fold(S)[l] + (IF r.op.to = l THEN 1 ELSE 0)
                                                 - (IF r.op.from = l THEN 1 ELSE 0)
        BY DEF Apply
      <3>3. PICK i \in Nat, o \in Nat : i = Cardinality(in(S, l)) /\ o = Cardinality(out(S, l))
        BY <1>1
      <3>4. /\ Cardinality(in(S \cup {r}, l)) = i + IF r.op.to = l THEN 1 ELSE 0
            /\ Cardinality(out(S \cup {r}, l)) = o + IF r.op.from = l THEN 1 ELSE 0
        BY <2>1, <3>3
      <3>. QED
        BY <3>1, <3>2, <3>3, <3>4
    <2>4. /\ Fold(S \cup {r}) = [l \in Nodes |-> Fold(S \cup {r})[l]]
          /\ Apply(Fold(S), r.op) = [l \in Nodes |-> Apply(Fold(S), r.op)[l]]
      BY DEF Fold, Apply
    <2>. QED
      BY <2>3, <2>4
  <1>. QED
    BY <1>2, <1>3

-----------------------------------------------------------------------------
(* The types *)

\* A record moves what its author's commands move.
LawfulRecord == {r \in Record : r.op \in Commands(r.author)}
Batch == Seq(LawfulRecord) \ {<<>>}

\* The batch that is merged holds no record of the site that merges it.
Fits(s) ==
    /\ s \in Session
    /\ s.frames \in Seq(Batch)
    /\ s.pc = "merge" => s.frames # <<>> /\ Valid(Head(s.frames), Draining(s))

SitesFit ==
    /\ held \in [Sites -> SUBSET LawfulRecord]
    /\ \A s \in Sites : IsFiniteSet(held[s]) /\ Apart(held[s])
    /\ balance \in [Nodes -> [Nodes -> Int]]
    /\ clk \in [Nodes -> HLC]
    /\ pending \in [Nodes -> SUBSET Command]
    /\ \A n \in Nodes : \A c \in pending[n] : c.op \in Commands(n)

SessionsFit ==
    /\ session \in [Sessions -> SUBSET Session]
    /\ \A x \in Sessions : \A s \in session[x] : session[x] = {s} /\ Fits(s)

CountersFit ==
    /\ net \in Topologies
    /\ cursor \in [Links -> Nat]
    /\ now \in Nat /\ failures \in Nat

TypeInv == SitesFit /\ SessionsFit /\ CountersFit

LEMMA TypeInvTypes == TypeInv => TypeOK
  <1>. SUFFICES ASSUME TypeInv PROVE TypeOK
    OBVIOUS
  <1>1. LawfulRecord \subseteq Record
    BY DEF LawfulRecord
  <1>2. held \in [Sites -> SUBSET Record]
    BY <1>1 DEF TypeInv, SitesFit
  <1>3. \A x \in Sessions : session[x] = {} \/ \E s \in session[x] :
          session[x] = {s} /\ s \in Session
    BY DEF TypeInv, SessionsFit
  <1>. QED
    BY <1>2, <1>3 DEF TypeInv, TypeOK, SitesFit, CountersFit

LEMMA LinkFacts ==
    ASSUME NEW l \in Links
    PROVE  l[1] \in Nodes /\ l[1] \in Sites /\ l[2] \in Sites
  BY ReplicationAssumption DEF Links, Sites

LEMMA DrainingFacts ==
    ASSUME NEW s \in Session
    PROVE  /\ Draining(s) \in {s.link[1], s.link[2]} /\ Draining(s) \in Sites
           /\ s.link \in Links
           /\ s.link[1] \in Nodes /\ s.link[1] \in Sites /\ s.link[2] \in Sites
           /\ Draining(s) # Central => Draining(s) \in Nodes
           /\ Draining(s) \in Nodes => Draining(s) # Central
  <1>1. s.link \in Links
    BY DEF Session
  <1>. QED
    BY <1>1, LinkFacts, ReplicationAssumption DEF Draining, Sites

LEMMA CommandFacts ==
    /\ \A n \in Nodes : \A op \in Commands(n) :
          /\ op \in Effect
          /\ op.from = Outside => op.to = n
          /\ op.from # Outside => op.from = n
    /\ LawfulRecord \subseteq Record
    /\ Outside \notin Nodes
  <1>1. Outside \notin Nodes
    BY ReplicationAssumption DEF Outside
  <1>. QED
    BY <1>1, ReplicationAssumption DEF Commands, LawfulRecord

LEMMA SiteVersion ==
    ASSUME SitesFit, NEW s \in Sites
    PROVE  /\ Version(s) \in Vector
           /\ \A r \in held[s] : r.seq <= Version(s)[r.author]
           /\ \A a \in Nodes : Version(s)[a] # 0 =>
                 \E r \in held[s] : r.author = a /\ r.seq = Version(s)[a]
  <1>1. held[s] \in SUBSET Record /\ IsFiniteSet(held[s])
    BY CommandFacts DEF SitesFit
  <1>. QED
    BY <1>1, VersionFacts DEF Version

LEMMA TypeInvInit == Init => TypeInv
  <1>. SUFFICES ASSUME Init PROVE TypeInv
    OBVIOUS
  <1>1. SitesFit
    <2>1. \A s \in Sites : IsFiniteSet(held[s]) /\ Apart(held[s])
      BY FS_EmptySet DEF Init, Apart
    <2>. QED
      BY <2>1 DEF Init, SitesFit, Nothing, HLC
  <1>2. SessionsFit
    BY DEF Init, SessionsFit
  <1>3. CountersFit
    BY DEF Init, CountersFit
  <1>. QED
    BY <1>1, <1>2, <1>3 DEF TypeInv

-----------------------------------------------------------------------------
(* What a step leaves alone *)

LEMMA SitesStay == SitesFit /\ UNCHANGED <<held, balance, clk, pending>> => SitesFit'
  BY DEF SitesFit

LEMMA SessionsStay == SessionsFit /\ UNCHANGED session => SessionsFit'
  BY DEF SessionsFit

LEMMA CountersStay ==
    CountersFit /\ UNCHANGED <<net, cursor>> /\ now' \in {now, now + 1}
                /\ failures' \in {failures, failures + 1} => CountersFit'
  BY DEF CountersFit

LEMMA SessionAfter ==
    ASSUME SessionsFit, NEW x \in Sessions,
           \/ Close(x)
           \/ \E t : Set(x, t) /\ Fits(t)
    PROVE  SessionsFit'
  <1>1. CASE Close(x)
    BY <1>1 DEF Close, SessionsFit
  <1>2. ASSUME NEW t, Set(x, t), Fits(t) PROVE SessionsFit'
    <2>1. t \in Session
      BY <1>2 DEF Fits
    <2>2. \A y \in Sessions : session'[y] = IF y = x THEN {t} ELSE session[y]
      BY <1>2 DEF Set, SessionsFit
    <2>3. session' \in [Sessions -> SUBSET Session]
      BY <1>2, <2>1 DEF Set, SessionsFit
    <2>. QED
      BY <1>2, <2>2, <2>3 DEF SessionsFit
  <1>. QED
    BY <1>1, <1>2

\* A site's log with one more record.
LEMMA LogGrows ==
    ASSUME SitesFit, NEW s \in Sites, NEW r \in LawfulRecord,
           \A q \in held[s] : q.author = r.author => q.seq # r.seq,
           held' = [held EXCEPT ![s] = @ \cup {r}]
    PROVE  /\ held' \in [Sites -> SUBSET LawfulRecord]
           /\ \A p \in Sites : IsFiniteSet(held'[p]) /\ Apart(held'[p])
  <1>1. held' \in [Sites -> SUBSET LawfulRecord]
    BY DEF SitesFit
  <1>2. \A p \in Sites : held'[p] = IF p = s THEN held[s] \cup {r} ELSE held[p]
    BY DEF SitesFit
  <1>3. IsFiniteSet(held[s] \cup {r})
    BY FS_AddElement DEF SitesFit
  <1>4. Apart(held[s] \cup {r})
    BY DEF SitesFit, Apart
  <1>. QED
    BY <1>1, <1>2, <1>3, <1>4 DEF SitesFit

LEMMA Applied ==
    ASSUME NEW state \in [Nodes -> Int], NEW op
    PROVE  Apply(state, op) \in [Nodes -> Int]
  <1>1. \A l \in Nodes : state[l] + (IF op.to = l THEN 1 ELSE 0)
                                  - (IF op.from = l THEN 1 ELSE 0) \in Int
    OBVIOUS
  <1>. QED
    BY <1>1 DEF Apply

-----------------------------------------------------------------------------
(* The steps of a node *)

LEMMA StampCommandType ==
    ASSUME TypeInv, NEW n \in Nodes, StampCommand(n) PROVE TypeInv'
  <1>1. PICK at \in HLC : /\ clk' = [clk EXCEPT ![n] = at]
                          /\ \E op \in Commands(n) :
                                pending' = [pending EXCEPT ![n] = {[at |-> at, op |-> op]}]
    BY TypeInvTypes, Stamped DEF StampCommand
  <1>2. PICK op \in Commands(n) : pending' = [pending EXCEPT ![n] = {[at |-> at, op |-> op]}]
    BY <1>1
  <1>3. [at |-> at, op |-> op] \in Command
    BY CommandFacts DEF Command
  <1>4. SitesFit'
    <2>1. /\ \A m \in Nodes : pending'[m] = IF m = n THEN {[at |-> at, op |-> op]} ELSE pending[m]
          /\ pending' \in [Nodes -> SUBSET Command]
      BY <1>2, <1>3 DEF TypeInv, SitesFit
    <2>2. clk' \in [Nodes -> HLC]
      BY <1>1 DEF TypeInv, SitesFit
    <2>3. UNCHANGED <<held, balance>>
      BY DEF StampCommand
    <2>. QED
      BY <2>1, <2>2, <2>3 DEF TypeInv, SitesFit
  <1>5. SessionsFit' /\ CountersFit'
    BY SessionsStay, CountersStay DEF TypeInv, StampCommand
  <1>. QED
    BY <1>4, <1>5 DEF TypeInv

\* The record that is appended has a number of its own.
LEMMA Appended ==
    ASSUME TypeInv, NEW n \in Nodes, NEW c \in pending[n],
           NEW r, r = [author |-> n, seq |-> NextSeq(n), at |-> c.at, op |-> c.op]
    PROVE  /\ r \in LawfulRecord
           /\ \A q \in held[n] : q.author = n => q.seq < r.seq
           /\ r \notin held[n]
  <1>1. Version(n) \in Vector /\ \A q \in held[n] : q.seq <= Version(n)[q.author]
    BY SiteVersion DEF TypeInv, Sites
  <1>2. c \in Command /\ c.op \in Commands(n)
    BY DEF TypeInv, SitesFit
  <1>3. NextSeq(n) \in Nat \ {0} /\ NextSeq(n) = Version(n)[n] + 1 /\ Version(n)[n] \in Nat
    BY <1>1 DEF NextSeq, Vector
  <1>4. r \in Record
    BY <1>2, <1>3, CommandFacts DEF Record, Command
  <1>5. r \in LawfulRecord
    BY <1>2, <1>4 DEF LawfulRecord
  <1>6. \A q \in held[n] : q.seq \in Nat
    BY CommandFacts DEF TypeInv, SitesFit, Sites, Record
  <1>7. \A q \in held[n] : q.author = n => q.seq < r.seq
    BY <1>1, <1>3, <1>6
  <1>8. r \notin held[n]
    BY <1>3, <1>7
  <1>. QED
    BY <1>5, <1>7, <1>8

LEMMA AppendRecordType ==
    ASSUME TypeInv, NEW n \in Nodes, AppendRecord(n) PROVE TypeInv'
  <1>1. PICK c \in pending[n] :
          /\ held' = [held EXCEPT ![n] = @ \cup
                {[author |-> n, seq |-> NextSeq(n), at |-> c.at, op |-> c.op]}]
          /\ balance' = [balance EXCEPT ![n] = Apply(@, c.op)]
          /\ clk' = [clk EXCEPT ![n] = Observe(n, c.at)]
          /\ pending' = [pending EXCEPT ![n] = {}]
          /\ UNCHANGED <<cursor, session, now, failures, net>>
    BY DEF AppendRecord
  <1>2. PICK r : r = [author |-> n, seq |-> NextSeq(n), at |-> c.at, op |-> c.op]
    OBVIOUS
  <1>3. /\ r \in LawfulRecord /\ r.author = n
        /\ \A q \in held[n] : q.author = n => q.seq < r.seq
    BY <1>2, Appended
  <1>4. \A q \in held[n] : q.author = r.author => q.seq # r.seq
    BY <1>3, CommandFacts DEF TypeInv, SitesFit, Record
  <1>5. /\ held' \in [Sites -> SUBSET LawfulRecord]
        /\ \A p \in Sites : IsFiniteSet(held'[p]) /\ Apart(held'[p])
    <2>1. held' = [held EXCEPT ![n] = @ \cup {r}]
      BY <1>1, <1>2
    <2>2. SitesFit /\ n \in Sites
      BY DEF TypeInv, Sites
    <2>. QED
      BY <1>3, <1>4, <2>1, <2>2, LogGrows
  <1>6. c.at \in HLC
    BY DEF TypeInv, SitesFit, Command
  <1>7. clk' \in [Nodes -> HLC]
    BY <1>1, <1>6, TypeInvTypes, Observed DEF TypeInv, SitesFit
  <1>8. balance' \in [Nodes -> [Nodes -> Int]]
    BY <1>1, Applied DEF TypeInv, SitesFit
  <1>9. /\ pending' \in [Nodes -> SUBSET Command]
        /\ \A m \in Nodes : \A d \in pending'[m] : d.op \in Commands(m)
    BY <1>1 DEF TypeInv, SitesFit
  <1>10. SitesFit'
    BY <1>5, <1>7, <1>8, <1>9 DEF SitesFit
  <1>11. SessionsFit' /\ CountersFit'
    BY <1>1, SessionsStay, CountersStay DEF TypeInv
  <1>. QED
    BY <1>10, <1>11 DEF TypeInv

LEMMA RefuseType ==
    ASSUME TypeInv, NEW n \in Nodes, Refuse(n) PROVE TypeInv'
  <1>1. PICK c \in pending[n] :
          /\ failures' = failures + 1
          /\ UNCHANGED clk \/ clk' = [clk EXCEPT ![n] = Observe(n, c.at)]
          /\ pending' = [pending EXCEPT ![n] = {}]
          /\ UNCHANGED <<held, balance, cursor, session, now, net>>
    BY DEF Refuse
  <1>2. c.at \in HLC
    BY DEF TypeInv, SitesFit, Command
  <1>3. clk' \in [Nodes -> HLC]
    <2>1. Observe(n, c.at) \in HLC
      BY <1>2, TypeInvTypes, Observed
    <2>. QED
      BY <1>1, <2>1 DEF TypeInv, SitesFit
  <1>4. SitesFit'
    BY <1>1, <1>3 DEF TypeInv, SitesFit
  <1>5. SessionsFit' /\ CountersFit'
    BY <1>1, SessionsStay, CountersStay DEF TypeInv
  <1>. QED
    BY <1>4, <1>5 DEF TypeInv

\* What a failure leaves of an exchange is as it was.
LEMMA RemainsFits ==
    ASSUME NEW s, Fits(s), NEW site
    PROVE  \A t \in Remains(s, site) : Remains(s, site) = {t} /\ Fits(t)
  <1>. DEFINE t == [s EXCEPT !.broken = TRUE, !.vv = [p \in Sites |-> Nothing],
                             !.snapshot = Nothing]
  <1>1. Nothing \in Vector
    BY DEF Nothing, Vector
  <1>2. t \in Session
    BY <1>1 DEF Fits, Session
  <1>3. t.frames = s.frames /\ t.pc = s.pc /\ t.link = s.link /\ t.pusher = s.pusher
    BY DEF Fits, Session
  <1>4. Remains(s, site) = {} \/ Remains(s, site) = {t}
    BY DEF Remains
  <1>. HIDE DEF t
  <1>5. Fits(t)
    BY <1>2, <1>3 DEF Fits, Draining
  <1>. QED
    BY <1>4, <1>5

LEMMA RestartType ==
    ASSUME TypeInv, NEW n \in Nodes, Restart(n) PROVE TypeInv'
  <1>1. SitesFit'
    <2>1. held[n] \in SUBSET Record /\ IsFiniteSet(held[n])
      BY CommandFacts DEF TypeInv, SitesFit, Sites
    <2>2. balance' \in [Nodes -> [Nodes -> Int]]
      BY <2>1, FoldFacts DEF Restart, TypeInv, SitesFit
    <2>3. clk' \in [Nodes -> HLC]
      BY DEF Restart, TypeInv, SitesFit, HLC
    <2>4. /\ pending' \in [Nodes -> SUBSET Command]
          /\ \A m \in Nodes : \A d \in pending'[m] : d.op \in Commands(m)
      BY DEF Restart, TypeInv, SitesFit
    <2>. QED
      BY <2>2, <2>3, <2>4 DEF Restart, TypeInv, SitesFit
  <1>2. SessionsFit'
    <2>. DEFINE left(s) == IF n \in {s.link[1], s.link[2]} THEN Remains(s, n) ELSE {s}
    <2>1. ASSUME NEW x \in Sessions, NEW t \in session'[x]
          PROVE  session'[x] = {t} /\ Fits(t)
      <3>1. session'[x] = UNION {left(s) : s \in session[x]}
        BY DEF Restart
      <3>2. PICK s \in session[x] : t \in left(s)
        BY <3>1
      <3>3. session[x] = {s} /\ Fits(s)
        BY DEF TypeInv, SessionsFit
      <3>4. session'[x] = left(s)
        BY <3>1, <3>3
      <3>5. left(s) = {t} /\ Fits(t)
        BY <3>2, <3>3, RemainsFits
      <3>. QED
        BY <3>4, <3>5
    <2>2. session' \in [Sessions -> SUBSET Session]
      <3>1. \A x \in Sessions : session'[x] \subseteq Session
        BY <2>1 DEF Fits
      <3>2. session' = [x \in Sessions |-> session'[x]]
        BY DEF Restart
      <3>. QED
        BY <3>1, <3>2
    <2>. QED
      BY <2>1, <2>2 DEF SessionsFit
  <1>3. CountersFit'
    BY CountersStay DEF TypeInv, Restart
  <1>. QED
    BY <1>1, <1>2, <1>3 DEF TypeInv

-----------------------------------------------------------------------------
(* The steps of an exchange *)

LEMMA DialType ==
    ASSUME TypeInv, NEW l \in Links, Dial(l) PROVE TypeInv'
  <1>. DEFINE free == {x \in Sessions : session[x] = {}}
              t == [link |-> l, pusher |-> l[2], pc |-> "hello",
                    vv |-> [s \in Sites |-> IF s = l[1] THEN Version(s) ELSE Nothing],
                    snapshot |-> Nothing, frames |-> <<>>, broken |-> FALSE]
  <1>1. PICK x \in Sessions : Set(x, t)
    BY DEF Dial
  <1>2. Fits(t)
    <2>1. Nothing \in Vector
      BY DEF Nothing, Vector
    <2>2. \A s \in Sites : Version(s) \in Vector
      BY SiteVersion DEF TypeInv
    <2>3. [s \in Sites |-> IF s = l[1] THEN Version(s) ELSE Nothing] \in [Sites -> Vector]
      BY <2>1, <2>2
    <2>4. t \in Session
      BY <2>1, <2>3, LinkFacts DEF Session
    <2>. QED
      BY <2>4 DEF Fits
  <1>3. SessionsFit'
    BY <1>1, <1>2, SessionAfter DEF TypeInv
  <1>4. SitesFit' /\ CountersFit'
    BY SitesStay, CountersStay DEF TypeInv, Dial, LogFrame
  <1>. QED
    BY <1>3, <1>4 DEF TypeInv

LEMMA HelloType ==
    ASSUME TypeInv, NEW x \in Sessions, Hello(x) PROVE TypeInv'
  <1>1. PICK s \in session[x] :
          /\ s.pc = "hello"
          /\ Set(x, [s EXCEPT !.pc = "snapshot", !.vv[s.pusher] = Version(s.pusher)])
          /\ LogFrame /\ UNCHANGED <<cursor, now, failures, net>>
    BY DEF Hello
  <1>2. Fits(s)
    BY DEF TypeInv, SessionsFit
  <1>3. Version(s.pusher) \in Vector
    BY <1>2, SiteVersion DEF TypeInv, Fits, Session
  <1>4. Fits([s EXCEPT !.pc = "snapshot", !.vv[s.pusher] = Version(s.pusher)])
    BY <1>2, <1>3 DEF Fits, Session
  <1>5. SessionsFit'
    BY <1>1, <1>4, SessionAfter DEF TypeInv
  <1>6. SitesFit' /\ CountersFit'
    BY <1>1, SitesStay, CountersStay DEF TypeInv, LogFrame
  <1>. QED
    BY <1>5, <1>6 DEF TypeInv

LEMMA SnapshotType ==
    ASSUME TypeInv, NEW x \in Sessions, Snapshot(x) PROVE TypeInv'
  <1>1. PICK s \in session[x] :
          /\ s.pc = "snapshot"
          /\ Set(x, [s EXCEPT !.pc = "collect", !.snapshot = Version(s.pusher)])
          /\ LogFrame /\ UNCHANGED <<cursor, now, failures, net>>
    BY DEF Snapshot
  <1>2. Fits(s)
    BY DEF TypeInv, SessionsFit
  <1>3. Version(s.pusher) \in Vector
    BY <1>2, SiteVersion DEF TypeInv, Fits, Session
  <1>4. Fits([s EXCEPT !.pc = "collect", !.snapshot = Version(s.pusher)])
    BY <1>2, <1>3 DEF Fits, Session
  <1>5. SessionsFit'
    BY <1>1, <1>4, SessionAfter DEF TypeInv
  <1>6. SitesFit' /\ CountersFit'
    BY <1>1, SitesStay, CountersStay DEF TypeInv, LogFrame
  <1>. QED
    BY <1>5, <1>6 DEF TypeInv

\* The records that a party is about to send.
ToSend(s) == {r \in Since(s.pusher, s.vv[Draining(s)]) : r.seq <= s.snapshot[r.author]}

LEMMA ToSendFacts ==
    ASSUME TypeInv, NEW s \in Session
    PROVE  /\ Missing(s) = Sorted(ToSend(s))
           /\ ToSend(s) \subseteq held[s.pusher]
           /\ ToSend(s) \in SUBSET LawfulRecord /\ ToSend(s) \in SUBSET Record
           /\ IsFiniteSet(ToSend(s)) /\ Apart(ToSend(s))
           /\ Missing(s) \in Seq(ToSend(s)) /\ Missing(s) \in Seq(LawfulRecord)
  <1>1. Missing(s) = Sorted(ToSend(s)) /\ ToSend(s) \subseteq held[s.pusher]
    BY DEF Missing, ToSend, Since
  <1>2. s.pusher \in Sites
    BY DEF Session
  <1>3. /\ IsFiniteSet(held[s.pusher]) /\ Apart(held[s.pusher])
        /\ held[s.pusher] \in SUBSET LawfulRecord
    BY <1>2 DEF TypeInv, SitesFit
  <1>4. ToSend(s) \in SUBSET Record /\ IsFiniteSet(ToSend(s)) /\ Apart(ToSend(s))
    <2>1. IsFiniteSet(ToSend(s))
      BY <1>1, <1>3, FS_Subset
    <2>. QED
      BY <1>1, <1>3, <2>1, CommandFacts DEF Apart
  <1>5. Sorted(ToSend(s)) \in Seq(ToSend(s))
    BY <1>4, SortedFacts
  <1>6. Sorted(ToSend(s)) \in Seq(LawfulRecord)
    BY <1>1, <1>3, <1>5
  <1>. QED
    BY <1>1, <1>3, <1>4, <1>5, <1>6

LEMMA BatchesFit ==
    ASSUME NEW recs \in Seq(LawfulRecord) PROVE Batches(recs) \in Seq(Batch)
  <1>1. /\ Batches(recs) \in Seq(Seq(LawfulRecord))
        /\ \A i \in 1..Len(Batches(recs)) : Batches(recs)[i] # <<>>
    BY BatchFacts
  <1>2. \A i \in 1..Len(Batches(recs)) : Batches(recs)[i] \in Batch
    BY <1>1 DEF Batch
  <1>. QED
    BY SMTT(30), <1>1, <1>2

LEMMA CollectType ==
    ASSUME TypeInv, NEW x \in Sessions, Collect(x) PROVE TypeInv'
  <1>1. PICK s \in session[x] :
          /\ s.pc = "collect"
          /\ Set(x, [s EXCEPT !.pc = "drain", !.frames = Batches(Missing(s)),
                              !.vv[Draining(s)] = Nothing,
                              !.snapshot = IF s.pusher = s.link[1] THEN @ ELSE Nothing])
          /\ LogFrame /\ UNCHANGED <<cursor, now, failures, net>>
    BY DEF Collect
  <1>2. Fits(s)
    BY DEF TypeInv, SessionsFit
  <1>3. Nothing \in Vector
    BY DEF Nothing, Vector
  <1>4. PICK f \in Seq(Batch) : f = Batches(Missing(s))
    BY <1>2, ToSendFacts, BatchesFit DEF Fits
  <1>5. f \in Seq(Seq(Record))
    BY <1>4, CommandFacts DEF Batch
  <1>. DEFINE t == [s EXCEPT !.pc = "drain", !.frames = f, !.vv[Draining(s)] = Nothing,
                             !.snapshot = IF s.pusher = s.link[1] THEN @ ELSE Nothing]
  <1>6. Fits(t)
    BY <1>2, <1>3, <1>4, <1>5 DEF Fits, Session
  <1>7. SessionsFit'
    <2>1. Set(x, t)
      BY <1>1, <1>4
    <2>. QED
      BY <1>6, <2>1, SessionAfter DEF TypeInv
  <1>8. SitesFit' /\ CountersFit'
    BY <1>1, SitesStay, CountersStay DEF TypeInv, LogFrame
  <1>. QED
    BY <1>7, <1>8 DEF TypeInv

LEMMA ReceiveType ==
    ASSUME TypeInv, NEW x \in Sessions, Receive(x) PROVE TypeInv'
  <1>1. PICK s \in session[x] :
          /\ s.frames # <<>>
          /\ \/ Valid(Head(s.frames), Draining(s)) /\ Set(x, [s EXCEPT !.pc = "merge"])
             \/ Close(x)
          /\ LogFrame /\ UNCHANGED <<cursor, now, failures, net>>
    BY DEF Receive
  <1>2. Fits(s)
    BY DEF TypeInv, SessionsFit
  <1>3. Valid(Head(s.frames), Draining(s)) => Fits([s EXCEPT !.pc = "merge"])
    BY <1>1, <1>2 DEF Fits, Session, Draining
  <1>4. SessionsFit'
    BY <1>1, <1>3, SessionAfter DEF TypeInv
  <1>5. SitesFit' /\ CountersFit'
    BY <1>1, SitesStay, CountersStay DEF TypeInv, LogFrame
  <1>. QED
    BY <1>4, <1>5 DEF TypeInv

\* The frames without the record that is merged.
LEMMA TakenFacts ==
    ASSUME NEW s, Fits(s), s.pc = "merge"
    PROVE  LET batch == Head(s.frames)
           IN /\ batch \in Batch /\ Len(batch) \in Nat \ {0}
              /\ Head(batch) \in LawfulRecord
              /\ Head(batch).author # Draining(s)
              /\ Len(batch) = 1 => Taken(s) = [s EXCEPT !.pc = "drain", !.frames = Tail(@)]
              /\ Len(batch) # 1 => Taken(s) = [s EXCEPT !.pc = "merge",
                                                 !.frames = <<Tail(batch)>> \o Tail(@)]
              /\ Fits(Taken(s))
  <1>1. PICK batch \in Batch : batch = Head(s.frames)
    BY DEF Fits
  <1>2. PICK rest \in Seq(Batch) : rest = Tail(s.frames)
    <2>1. s.frames \in Seq(Batch) /\ s.frames # <<>>
      BY DEF Fits
    <2>2. Tail(s.frames) \in Seq(Batch)
      BY <2>1
    <2>. QED
      BY <2>2
  <1>3. /\ batch \in Seq(LawfulRecord) /\ Len(batch) \in Nat \ {0}
        /\ Head(batch) = batch[1] /\ batch[1] \in LawfulRecord
    BY DEF Batch
  <1>4. batch[1].author # Draining(s)
    BY <1>1, <1>3 DEF Fits, Valid
  <1>5. s \in Session
    BY DEF Fits
  <1>6. rest \in Seq(Seq(Record))
    BY CommandFacts DEF Batch
  <1>7. CASE Len(batch) = 1
    <2>1. <<>> \o rest = rest
      OBVIOUS
    <2>2. Taken(s) = [s EXCEPT !.pc = "drain", !.frames = rest]
      BY <1>1, <1>2, <1>7, <2>1 DEF Taken
    <2>3. Fits([s EXCEPT !.pc = "drain", !.frames = rest])
      BY <1>5, <1>6 DEF Fits, Session
    <2>. QED
      BY <1>1, <1>2, <1>3, <1>4, <1>7, <2>2, <2>3
  <1>8. CASE Len(batch) # 1
    <2>1. PICK left \in Batch : left = Tail(batch)
      <3>1. Tail(batch) \in Seq(LawfulRecord) /\ Len(Tail(batch)) = Len(batch) - 1
        BY <1>3
      <3>2. Tail(batch) # <<>>
        <4>1. Len(Tail(batch)) # 0 /\ Len(<<>>) = 0
          BY <1>3, <1>8, <3>1
        <4>. QED
          BY <4>1
      <3>. QED
        BY <3>1, <3>2 DEF Batch
    <2>2. \A i \in DOMAIN left : left[i] = batch[i + 1] /\ i + 1 \in DOMAIN batch
      BY <1>3, <2>1
    <2>3. Valid(left, Draining(s))
      BY <1>1, <2>2 DEF Fits, Valid
    <2>4. PICK f \in Seq(Batch) : f = <<left>> \o rest
      <3>1. <<left>> \in Seq(Batch)
        OBVIOUS
      <3>2. <<left>> \o rest \in Seq(Batch)
        BY <3>1
      <3>. QED
        BY <3>2
    <2>5. f # <<>> /\ Head(f) = left
      BY <2>4
    <2>6. Taken(s) = [s EXCEPT !.pc = "merge", !.frames = f]
      BY <1>1, <1>2, <1>8, <2>1, <2>4 DEF Taken
    <2>7. f \in Seq(Seq(Record))
      BY CommandFacts DEF Batch
    <2>8. Fits([s EXCEPT !.pc = "merge", !.frames = f])
      <3>1. [s EXCEPT !.pc = "merge", !.frames = f] \in Session
        BY <1>5, <2>7 DEF Session
      <3>2. Draining([s EXCEPT !.pc = "merge", !.frames = f]) = Draining(s)
        BY <1>5 DEF Draining, Session
      <3>. QED
        BY <1>5, <2>3, <2>5, <3>1, <3>2 DEF Fits, Session
    <2>. QED
      BY <1>1, <1>2, <1>3, <1>4, <1>8, <2>1, <2>4, <2>6, <2>8
  <1>. QED
    BY <1>7, <1>8

\* A site takes up a record that it does not hold, or nothing happens to it.
LEMMA MergeFacts ==
    ASSUME TypeInv, NEW x \in Sessions, Merge(x)
    PROVE  \E s \in session[x] : \E r \in LawfulRecord :
             /\ s.pc = "merge" /\ Fits(s) /\ Set(x, Taken(s))
             /\ r = Head(Head(s.frames)) /\ r.author # Draining(s) /\ Draining(s) \in Sites
             /\ \/ Stored(Draining(s), r) /\ UNCHANGED <<held, balance, clk>>
                \/ /\ ~ Stored(Draining(s), r)
                   /\ held' = [held EXCEPT ![Draining(s)] = @ \cup {r}]
                   /\ \/ /\ Draining(s) = Central
                         /\ UNCHANGED <<balance, clk>>
                      \/ /\ Draining(s) \in Nodes
                         /\ balance' = [balance EXCEPT ![Draining(s)] = Apply(@, r.op)]
                         /\ clk' = [clk EXCEPT ![Draining(s)] = Observe(Draining(s), r.at)]
             /\ UNCHANGED <<pending, cursor, now, failures, net>>
  <1>1. PICK s \in session[x] :
          /\ s.pc = "merge"
          /\ Set(x, Taken(s))
          /\ IF Draining(s) = Central
             THEN MergeAtCentral(Head(Head(s.frames)))
             ELSE MergeAtNode(Draining(s), Head(Head(s.frames)))
          /\ UNCHANGED <<cursor, now, failures, net>>
    BY DEF Merge
  <1>2. Fits(s)
    BY DEF TypeInv, SessionsFit
  <1>3. PICK r \in LawfulRecord : r = Head(Head(s.frames)) /\ r.author # Draining(s)
    BY <1>1, <1>2, TakenFacts
  <1>4. Draining(s) \in Sites /\ (Draining(s) # Central => Draining(s) \in Nodes)
    BY <1>2, DrainingFacts DEF Fits
  <1>5. CASE Draining(s) = Central
    BY <1>1, <1>2, <1>3, <1>4, <1>5 DEF MergeAtCentral
  <1>6. CASE Draining(s) # Central
    <2>1. CASE Stored(Draining(s), r)
      BY <1>1, <1>2, <1>3, <1>4, <1>6, <2>1 DEF MergeAtNode, LogFrame
    <2>2. CASE ~ Stored(Draining(s), r)
      BY <1>1, <1>2, <1>3, <1>4, <1>6, <2>2 DEF MergeAtNode
    <2>. QED
      BY <2>1, <2>2
  <1>. QED
    BY <1>5, <1>6

LEMMA MergeType ==
    ASSUME TypeInv, NEW x \in Sessions, Merge(x) PROVE TypeInv'
  <1>1. PICK s \in session[x], r \in LawfulRecord :
          /\ s.pc = "merge" /\ Fits(s) /\ Set(x, Taken(s))
          /\ Draining(s) \in Sites
          /\ \/ UNCHANGED <<held, balance, clk>>
             \/ /\ ~ Stored(Draining(s), r)
                /\ held' = [held EXCEPT ![Draining(s)] = @ \cup {r}]
                /\ \/ UNCHANGED <<balance, clk>>
                   \/ /\ Draining(s) \in Nodes
                      /\ balance' = [balance EXCEPT ![Draining(s)] = Apply(@, r.op)]
                      /\ clk' = [clk EXCEPT ![Draining(s)] = Observe(Draining(s), r.at)]
          /\ UNCHANGED <<pending, cursor, now, failures, net>>
    BY MergeFacts
  <1>2. PICK d \in Sites : d = Draining(s)
    BY <1>1
  <1>3. SitesFit'
    <2>1. CASE UNCHANGED <<held, balance, clk>>
      BY <1>1, <2>1, SitesStay DEF TypeInv
    <2>2. CASE /\ ~ Stored(d, r)
               /\ held' = [held EXCEPT ![d] = @ \cup {r}]
               /\ \/ UNCHANGED <<balance, clk>>
                  \/ /\ d \in Nodes
                     /\ balance' = [balance EXCEPT ![d] = Apply(@, r.op)]
                     /\ clk' = [clk EXCEPT ![d] = Observe(d, r.at)]
      <3>1. \A q \in held[d] : q.author = r.author => q.seq # r.seq
        BY <2>2 DEF Stored
      <3>2. /\ held' \in [Sites -> SUBSET LawfulRecord]
            /\ \A p \in Sites : IsFiniteSet(held'[p]) /\ Apart(held'[p])
        BY <2>2, <3>1, LogGrows DEF TypeInv
      <3>3. balance' \in [Nodes -> [Nodes -> Int]]
        BY <2>2, Applied DEF TypeInv, SitesFit
      <3>4. clk' \in [Nodes -> HLC]
        <4>1. r.at \in HLC
          BY CommandFacts DEF Record
        <4>2. d \in Nodes => Observe(d, r.at) \in HLC
          BY <4>1, TypeInvTypes, Observed
        <4>. QED
          BY <2>2, <4>2 DEF TypeInv, SitesFit
      <3>. QED
        BY <1>1, <3>2, <3>3, <3>4 DEF TypeInv, SitesFit
    <2>. QED
      BY <1>1, <1>2, <2>1, <2>2
  <1>4. SessionsFit'
    BY <1>1, TakenFacts, SessionAfter DEF TypeInv
  <1>5. CountersFit'
    BY <1>1, CountersStay DEF TypeInv
  <1>. QED
    BY <1>3, <1>4, <1>5 DEF TypeInv

LEMMA AckType ==
    ASSUME TypeInv, NEW x \in Sessions, Ack(x) PROVE TypeInv'
  <1>1. PICK s \in session[x] :
          /\ s.pc = "drain" /\ s.frames = <<>>
          /\ Set(x, IF s.pusher = s.link[2]
                    THEN [s EXCEPT !.pc = "snapshot", !.pusher = s.link[1]]
                    ELSE [s EXCEPT !.pc = "status"])
          /\ LogFrame /\ UNCHANGED <<cursor, now, failures, net>>
    BY DEF Ack
  <1>2. Fits(s)
    BY DEF TypeInv, SessionsFit
  <1>3. /\ Fits([s EXCEPT !.pc = "snapshot", !.pusher = s.link[1]])
        /\ Fits([s EXCEPT !.pc = "status"])
    <2>1. s.link[1] \in Sites /\ s \in Session
      BY <1>2, DrainingFacts DEF Fits
    <2>. QED
      BY <1>1, <1>2, <2>1 DEF Fits, Session
  <1>4. SessionsFit'
    BY <1>1, <1>3, SessionAfter DEF TypeInv
  <1>5. SitesFit' /\ CountersFit'
    BY <1>1, SitesStay, CountersStay DEF TypeInv, LogFrame
  <1>. QED
    BY <1>4, <1>5 DEF TypeInv

LEMMA FinishType ==
    ASSUME TypeInv, NEW x \in Sessions, Finish(x) PROVE TypeInv'
  <1>1. PICK s \in session[x] :
          /\ cursor' = [cursor EXCEPT ![s.link] = s.snapshot[s.link[1]]]
          /\ Close(x)
          /\ LogFrame /\ UNCHANGED <<now, failures, net>>
    BY DEF Finish
  <1>2. s \in Session
    BY DEF TypeInv, SessionsFit, Fits
  <1>3. s.link \in Links /\ s.snapshot[s.link[1]] \in Nat
    BY <1>2, DrainingFacts DEF Session, Vector
  <1>4. CountersFit'
    BY <1>1, <1>3 DEF TypeInv, CountersFit
  <1>5. SitesFit' /\ SessionsFit'
    BY <1>1, SitesStay, SessionAfter DEF TypeInv, LogFrame
  <1>. QED
    BY <1>4, <1>5 DEF TypeInv

LEMMA DropType ==
    ASSUME TypeInv, NEW x \in Sessions, Drop(x) PROVE TypeInv'
  <1>1. Close(x) /\ LogFrame /\ UNCHANGED <<cursor, now, failures, net>>
    BY DEF Drop
  <1>. QED
    BY <1>1, SessionAfter, SitesStay, CountersStay DEF TypeInv, LogFrame

\* The clock of the site that fails may have observed a stamp.
LEMMA FailFacts ==
    ASSUME TypeInv, NEW x \in Sessions, Fail(x)
    PROVE  \E s \in session[x] : \E site \in {s.link[1], s.link[2]} :
             /\ Fits(s) /\ (s.broken => site # s.pusher)
             /\ session' = [session EXCEPT ![x] = Remains(s, site)]
             /\ \/ UNCHANGED clk
                \/ \E r \in LawfulRecord :
                     /\ s.pc = "merge" /\ site = Draining(s) /\ site \in Nodes
                     /\ r = Head(Head(s.frames)) /\ ~ Stored(site, r)
                     /\ clk' = [clk EXCEPT ![site] = Observe(site, r.at)]
             /\ failures' = failures + 1
             /\ UNCHANGED <<held, balance, pending, cursor, now, net>>
  <1>1. PICK s \in session[x] :
          /\ failures' = failures + 1
          /\ \E site \in {s.link[1], s.link[2]} :
                /\ s.broken => site # s.pusher
                /\ session' = [session EXCEPT ![x] = Remains(s, site)]
                /\ clk' \in {clk} \cup
                      {[clk EXCEPT ![site] = Observe(site, at)] : at \in Projected(s, site)}
          /\ UNCHANGED <<held, balance, pending, cursor, now, net>>
    BY DEF Fail
  <1>2. PICK site \in {s.link[1], s.link[2]} :
          /\ s.broken => site # s.pusher
          /\ session' = [session EXCEPT ![x] = Remains(s, site)]
          /\ clk' \in {clk} \cup
                {[clk EXCEPT ![site] = Observe(site, at)] : at \in Projected(s, site)}
    BY <1>1
  <1>3. Fits(s)
    BY DEF TypeInv, SessionsFit
  <1>4. CASE UNCHANGED clk
    BY <1>1, <1>2, <1>3, <1>4
  <1>5. ASSUME NEW at \in Projected(s, site), clk' = [clk EXCEPT ![site] = Observe(site, at)]
        PROVE  \E r \in LawfulRecord :
                 /\ s.pc = "merge" /\ site = Draining(s) /\ site \in Nodes
                 /\ r = Head(Head(s.frames)) /\ ~ Stored(site, r)
                 /\ clk' = [clk EXCEPT ![site] = Observe(site, r.at)]
    <2>1. /\ s.pc = "merge" /\ site = Draining(s) /\ site \in Nodes
          /\ ~ Stored(site, Head(Head(s.frames))) /\ at = Head(Head(s.frames)).at
      BY <1>5 DEF Projected
    <2>2. Head(Head(s.frames)) \in LawfulRecord
      BY <1>3, <2>1, TakenFacts
    <2>. QED
      BY <1>5, <2>1, <2>2
  <1>. QED
    BY <1>1, <1>2, <1>3, <1>4, <1>5

LEMMA FailType ==
    ASSUME TypeInv, NEW x \in Sessions, Fail(x) PROVE TypeInv'
  <1>1. PICK s \in session[x] : \E site \in {s.link[1], s.link[2]} :
          /\ Fits(s)
          /\ session' = [session EXCEPT ![x] = Remains(s, site)]
          /\ \/ UNCHANGED clk
             \/ \E r \in LawfulRecord : /\ site \in Nodes
                                        /\ clk' = [clk EXCEPT ![site] = Observe(site, r.at)]
          /\ failures' = failures + 1
          /\ UNCHANGED <<held, balance, pending, cursor, now, net>>
    BY FailFacts
  <1>2. PICK site \in {s.link[1], s.link[2]} :
          /\ Fits(s)
          /\ session' = [session EXCEPT ![x] = Remains(s, site)]
          /\ \/ UNCHANGED clk
             \/ \E r \in LawfulRecord : /\ site \in Nodes
                                        /\ clk' = [clk EXCEPT ![site] = Observe(site, r.at)]
    BY <1>1
  <1>3. clk' \in [Nodes -> HLC]
    <2>1. ASSUME NEW r \in LawfulRecord, site \in Nodes PROVE Observe(site, r.at) \in HLC
      <3>1. r.at \in HLC
        BY CommandFacts DEF Record
      <3>. QED
        BY <2>1, <3>1, TypeInvTypes, Observed
    <2>. QED
      BY <1>2, <2>1 DEF TypeInv, SitesFit
  <1>4. SitesFit'
    BY <1>1, <1>3 DEF TypeInv, SitesFit
  <1>5. SessionsFit'
    <2>1. Close(x) \/ \E t : Set(x, t) /\ Fits(t)
      BY <1>2, RemainsFits DEF Close, Set
    <2>. QED
      BY <2>1, SessionAfter DEF TypeInv
  <1>6. CountersFit'
    BY <1>1, CountersStay DEF TypeInv
  <1>. QED
    BY <1>4, <1>5, <1>6 DEF TypeInv

LEMMA TypeInvNext == TypeInv /\ [Next]_vars => TypeInv'
  <1>. SUFFICES ASSUME TypeInv, [Next]_vars PROVE TypeInv'
    OBVIOUS
  <1>1. CASE Tick
    BY <1>1, SitesStay, SessionsStay, CountersStay DEF Tick, TypeInv
  <1>2. ASSUME NEW n \in Nodes, StampCommand(n) \/ AppendRecord(n) \/ Refuse(n) \/ Restart(n)
        PROVE  TypeInv'
    BY <1>2, StampCommandType, AppendRecordType, RefuseType, RestartType
  <1>3. ASSUME NEW l \in Links, Dial(l) PROVE TypeInv'
    BY <1>3, DialType
  <1>4. ASSUME NEW x \in Sessions, Step(x) \/ Fail(x) PROVE TypeInv'
    BY <1>4, HelloType, SnapshotType, CollectType, ReceiveType, MergeType, AckType,
       FinishType, DropType, FailType DEF Step
  <1>5. CASE UNCHANGED vars
    BY <1>5, SitesStay, SessionsStay, CountersStay DEF vars, TypeInv
  <1>. QED
    BY <1>1, <1>2, <1>3, <1>4, <1>5 DEF Next

\* Every reachable state is well typed: no command, merge, broken stream or restart takes
\* a log, a clock, a balance, a cursor or an exchange out of its type (Store.Append,
\* mergeOne, Exchange).
THEOREM TypeCorrect == Spec => []TypeOK
  <1>1. TypeInv /\ [Next]_vars => TypeInv'
    BY TypeInvNext
  <1>. QED
    BY <1>1, TypeInvInit, TypeInvTypes, PTL DEF Spec

-----------------------------------------------------------------------------
(* The projection *)

\* A record that has come to a site has its effect on the balances, once.
LEMMA Projects ==
    ASSUME TypeInv, ProjectionMatchesLog, NEW s \in Sites, NEW r \in LawfulRecord,
           r \notin held[s],
           held' = [held EXCEPT ![s] = @ \cup {r}],
           \/ s \in Nodes /\ balance' = [balance EXCEPT ![s] = Apply(@, r.op)]
           \/ s \notin Nodes /\ UNCHANGED balance
    PROVE  ProjectionMatchesLog'
  <1>1. \A n \in Nodes : /\ held'[n] = IF n = s THEN held[s] \cup {r} ELSE held[n]
                         /\ balance'[n] = IF n = s THEN Apply(balance[n], r.op) ELSE balance[n]
    BY DEF TypeInv, SitesFit, Sites
  <1>2. Fold(held[s] \cup {r}) = Apply(Fold(held[s]), r.op)
    <2>1. held[s] \in SUBSET Record /\ IsFiniteSet(held[s]) /\ r \in Record
      BY CommandFacts DEF TypeInv, SitesFit
    <2>. QED
      BY <2>1, FoldFacts
  <1>3. ASSUME NEW n \in Nodes PROVE balance'[n] = Fold(held'[n])
    <2>1. CASE n = s
      <3>1. balance[n] = Fold(held[s])
        BY <2>1 DEF ProjectionMatchesLog
      <3>. QED
        BY <1>1, <1>2, <2>1, <3>1
    <2>2. CASE n # s
      BY <1>1, <2>2 DEF ProjectionMatchesLog
    <2>. QED
      BY <2>1, <2>2
  <1>. QED
    BY <1>3 DEF ProjectionMatchesLog

LEMMA ProjectionStays ==
    ProjectionMatchesLog /\ UNCHANGED <<held, balance>> => ProjectionMatchesLog'
  BY DEF ProjectionMatchesLog

LEMMA ProjectionNext ==
    ASSUME TypeInv, ProjectionMatchesLog, [Next]_vars PROVE ProjectionMatchesLog'
  <1>1. ASSUME NEW n \in Nodes, AppendRecord(n) PROVE ProjectionMatchesLog'
    <2>1. PICK c \in pending[n] :
            /\ held' = [held EXCEPT ![n] = @ \cup
                  {[author |-> n, seq |-> NextSeq(n), at |-> c.at, op |-> c.op]}]
            /\ balance' = [balance EXCEPT ![n] = Apply(@, c.op)]
      BY <1>1 DEF AppendRecord
    <2>2. PICK r : r = [author |-> n, seq |-> NextSeq(n), at |-> c.at, op |-> c.op]
      OBVIOUS
    <2>3. r \in LawfulRecord /\ r \notin held[n] /\ r.op = c.op
      BY <2>2, Appended
    <2>4. held' = [held EXCEPT ![n] = @ \cup {r}]
      BY <2>1, <2>2
    <2>. QED
      BY <2>1, <2>3, <2>4, Projects DEF Sites
  <1>2. ASSUME NEW n \in Nodes, Restart(n) PROVE ProjectionMatchesLog'
    BY <1>2 DEF Restart, ProjectionMatchesLog, TypeInv, SitesFit
  <1>3. ASSUME NEW x \in Sessions, Merge(x) PROVE ProjectionMatchesLog'
    <2>1. PICK s \in session[x], r \in LawfulRecord :
            /\ Draining(s) \in Sites
            /\ \/ UNCHANGED <<held, balance, clk>>
               \/ /\ ~ Stored(Draining(s), r)
                  /\ held' = [held EXCEPT ![Draining(s)] = @ \cup {r}]
                  /\ \/ Draining(s) = Central /\ UNCHANGED <<balance, clk>>
                     \/ /\ Draining(s) \in Nodes
                        /\ balance' = [balance EXCEPT ![Draining(s)] = Apply(@, r.op)]
      BY <1>3, MergeFacts
    <2>2. PICK d \in Sites : d = Draining(s)
      BY <2>1
    <2>3. Central \notin Nodes
      BY ReplicationAssumption
    <2>4. CASE ~ Stored(d, r) /\ held' = [held EXCEPT ![d] = @ \cup {r}]
      <3>1. r \notin held[d]
        BY <2>4 DEF Stored
      <3>2. \/ d \in Nodes /\ balance' = [balance EXCEPT ![d] = Apply(@, r.op)]
            \/ d \notin Nodes /\ UNCHANGED balance
            \/ UNCHANGED <<held, balance>>
        BY <2>1, <2>2, <2>3
      <3>. QED
        BY <2>4, <3>1, <3>2, Projects, ProjectionStays
    <2>. QED
      BY <2>1, <2>2, <2>4, ProjectionStays
  <1>4. ASSUME UNCHANGED <<held, balance>> PROVE ProjectionMatchesLog'
    BY <1>4, ProjectionStays
  <1>5. ASSUME NEW n \in Nodes, StampCommand(n) \/ Refuse(n) PROVE UNCHANGED <<held, balance>>
    BY <1>5 DEF StampCommand, Refuse
  <1>6. ASSUME NEW x \in Sessions,
               Hello(x) \/ Snapshot(x) \/ Collect(x) \/ Receive(x) \/ Ack(x) \/ Finish(x)
                 \/ Drop(x) \/ Fail(x)
        PROVE  UNCHANGED <<held, balance>>
    BY <1>6 DEF Hello, Snapshot, Collect, Receive, Ack, Finish, Drop, Fail, LogFrame
  <1>7. ASSUME Tick \/ UNCHANGED vars \/ \E l \in Links : Dial(l)
        PROVE  UNCHANGED <<held, balance>>
    BY <1>7 DEF Tick, vars, Dial, LogFrame
  <1>. QED
    BY <1>1, <1>2, <1>3, <1>4, <1>5, <1>6, <1>7 DEF Next, Step

\* The balances of a node are what a replay of its log would give, however often records
\* were delivered, in whatever order, and wherever an exchange or the process stopped
\* (Append, mergeOne and Project; NewInventory).
THEOREM ProjectionCorrect == Spec => []ProjectionMatchesLog
  <1>. DEFINE Inv == TypeInv /\ ProjectionMatchesLog
  <1>1. Init => Inv
    <2>1. Fold({}) = Nothing
      <3>1. \A l : /\ {r \in {} : r.op.to = l} = {} /\ {r \in {} : r.op.from = l} = {}
        OBVIOUS
      <3>. QED
        BY <3>1, FS_EmptySet DEF Fold, Nothing
    <2>2. Init => ProjectionMatchesLog
      BY <2>1 DEF Init, ProjectionMatchesLog, Sites
    <2>. QED
      BY <2>2, TypeInvInit
  <1>2. Inv /\ [Next]_vars => Inv'
    BY TypeInvNext, ProjectionNext
  <1>. QED
    BY <1>1, <1>2, PTL DEF Spec

-----------------------------------------------------------------------------
(* The owned location *)

\* A node's own commands are checked, and nobody else's take from its location.
LEMMA OwnedNext ==
    ASSUME TypeInv, ProjectionMatchesLog, OwnedNeverNegative, [Next]_vars
    PROVE  OwnedNeverNegative'
  <1>0. \A n \in Nodes : /\ held[n] \in SUBSET Record /\ IsFiniteSet(held[n])
                         /\ Fold(held[n]) \in [Nodes -> Int]
    BY CommandFacts, FoldFacts DEF TypeInv, SitesFit, Sites
  <1>1. ASSUME NEW n \in Nodes, AppendRecord(n) PROVE OwnedNeverNegative'
    <2>1. PICK c \in pending[n] :
            /\ Check(n, c.op)
            /\ held' = [held EXCEPT ![n] = @ \cup
                  {[author |-> n, seq |-> NextSeq(n), at |-> c.at, op |-> c.op]}]
      BY <1>1 DEF AppendRecord
    <2>2. PICK r : r = [author |-> n, seq |-> NextSeq(n), at |-> c.at, op |-> c.op]
      OBVIOUS
    <2>3. r \in LawfulRecord /\ r \in Record /\ r \notin held[n] /\ r.op = c.op
      BY <2>2, Appended, CommandFacts
    <2>4. \A m \in Nodes : held'[m] = IF m = n THEN held[n] \cup {r} ELSE held[m]
      BY <2>1, <2>2 DEF TypeInv, SitesFit, Sites
    <2>5. Fold(held[n] \cup {r}) = Apply(Fold(held[n]), c.op) /\ balance[n] = Fold(held[n])
      BY <1>0, <2>3, FoldFacts DEF ProjectionMatchesLog
    <2>6. c.op \in Commands(n)
      BY DEF TypeInv, SitesFit
    <2>7. Apply(Fold(held[n]), c.op)[n] >= 0
      <3>1. CASE c.op.from = Outside
        <4>1. /\ Apply(Fold(held[n]), c.op)[n] =
                   Fold(held[n])[n] + (IF c.op.to = n THEN 1 ELSE 0)
                                    - (IF c.op.from = n THEN 1 ELSE 0)
              /\ c.op.to = n /\ c.op.from # n
          BY <2>6, <3>1, CommandFacts DEF Apply
        <4>2. Fold(held[n])[n] \in Int /\ Fold(held[n])[n] >= 0
          BY <1>0 DEF OwnedNeverNegative
        <4>. QED
          BY <4>1, <4>2
      <3>2. CASE c.op.from # Outside
        BY <2>1, <2>5, <2>6, <3>2, CommandFacts DEF Check
      <3>. QED
        BY <3>1, <3>2
    <2>. QED
      BY <2>4, <2>5, <2>7 DEF OwnedNeverNegative
  <1>2. ASSUME NEW x \in Sessions, Merge(x) PROVE OwnedNeverNegative'
    <2>1. PICK s \in session[x], r \in LawfulRecord :
            /\ Draining(s) \in Sites /\ r.author # Draining(s)
            /\ \/ UNCHANGED held
               \/ /\ ~ Stored(Draining(s), r)
                  /\ held' = [held EXCEPT ![Draining(s)] = @ \cup {r}]
      BY <1>2, MergeFacts
    <2>2. PICK d \in Sites : d = Draining(s)
      BY <2>1
    <2>3. CASE UNCHANGED held
      BY <2>3 DEF OwnedNeverNegative
    <2>4. CASE ~ Stored(d, r) /\ held' = [held EXCEPT ![d] = @ \cup {r}]
      <3>1. \A m \in Nodes : held'[m] = IF m = d THEN held[d] \cup {r} ELSE held[m]
        BY <2>4 DEF TypeInv, SitesFit, Sites
      <3>2. r \notin held[d] /\ r \in Record
        BY <2>4, CommandFacts DEF Stored
      <3>3. d \in Nodes => Fold(held[d] \cup {r}) = Apply(Fold(held[d]), r.op)
        BY <1>0, <3>2, FoldFacts
      <3>4. r.author \in Nodes /\ r.op \in Commands(r.author) /\ r.author # d
        BY <2>1, <2>2, <3>2 DEF LawfulRecord, Record
      <3>5. d \in Nodes => r.op.from # d
        BY <3>4, CommandFacts
      <3>6. ASSUME d \in Nodes PROVE Apply(Fold(held[d]), r.op)[d] >= 0
        <4>1. Apply(Fold(held[d]), r.op)[d] =
                   Fold(held[d])[d] + (IF r.op.to = d THEN 1 ELSE 0)
                                    - (IF r.op.from = d THEN 1 ELSE 0)
          BY <3>6 DEF Apply
        <4>2. Fold(held[d])[d] \in Int /\ Fold(held[d])[d] >= 0
          BY <1>0, <3>6 DEF OwnedNeverNegative
        <4>. QED
          BY <3>5, <3>6, <4>1, <4>2
      <3>. QED
        BY <3>1, <3>3, <3>6 DEF OwnedNeverNegative
    <2>. QED
      BY <2>1, <2>2, <2>3, <2>4
  <1>3. ASSUME UNCHANGED held PROVE OwnedNeverNegative'
    BY <1>3 DEF OwnedNeverNegative
  <1>4. ASSUME NEW n \in Nodes, StampCommand(n) \/ Refuse(n) \/ Restart(n) PROVE UNCHANGED held
    BY <1>4 DEF StampCommand, Refuse, Restart
  <1>5. ASSUME NEW x \in Sessions,
               Hello(x) \/ Snapshot(x) \/ Collect(x) \/ Receive(x) \/ Ack(x) \/ Finish(x)
                 \/ Drop(x) \/ Fail(x)
        PROVE  UNCHANGED held
    BY <1>5 DEF Hello, Snapshot, Collect, Receive, Ack, Finish, Drop, Fail, LogFrame
  <1>6. ASSUME Tick \/ UNCHANGED vars \/ \E l \in Links : Dial(l) PROVE UNCHANGED held
    BY <1>6 DEF Tick, vars, Dial, LogFrame
  <1>. QED
    BY <1>1, <1>2, <1>3, <1>4, <1>5, <1>6 DEF Next, Step

\* No log takes its node's location below zero: what Check allows against the balances is
\* allowed by the log, and a merge never takes goods from the location of the node that
\* merges (Check, Project, ValidatePeerRecord).
THEOREM OwnedCorrect == Spec => []OwnedNeverNegative
  <1>. DEFINE Inv == TypeInv /\ ProjectionMatchesLog /\ OwnedNeverNegative
  <1>1. Init => Inv
    <2>1. Fold({}) = Nothing
      <3>1. \A l : /\ {r \in {} : r.op.to = l} = {} /\ {r \in {} : r.op.from = l} = {}
        OBVIOUS
      <3>. QED
        BY <3>1, FS_EmptySet DEF Fold, Nothing
    <2>2. Init => ProjectionMatchesLog /\ OwnedNeverNegative
      BY <2>1 DEF Init, ProjectionMatchesLog, OwnedNeverNegative, Sites, Nothing
    <2>. QED
      BY <2>2, TypeInvInit
  <1>2. Inv /\ [Next]_vars => Inv'
    BY TypeInvNext, ProjectionNext, OwnedNext
  <1>. QED
    BY <1>1, <1>2, PTL DEF Spec

-----------------------------------------------------------------------------
(* Clocks in step *)

\* The clocks of all nodes show the same time.
ClocksInStep == \A m, n \in Nodes : Skew[m] = Skew[n]

\* No stamp is ahead of the time, a clock is past all that its node has learned since it
\* started, and what it had learned before is earlier.
Timely ==
    /\ \A s \in Sites : \A r \in held[s] : \A n \in Nodes : r.at.wall <= Physical(n)
    /\ \A n \in Nodes :
          /\ clk[n].wall <= Physical(n)
          /\ \A c \in pending[n] : c.at.wall <= Physical(n)
          /\ \A r \in held[n] : Before(r.at, clk[n]) \/ r.at.wall < Physical(n)
          /\ \A c \in pending[n] : \A r \in Of(n, held[n]) : Before(r.at, c.at)

\* What a site holds of an author is a beginning of the author's own log, whose numbers
\* leave nothing out and follow the stamps.
LogsSound ==
    /\ \A s \in Sites : \A r \in held[s] :
          /\ r \in held[r.author]
          /\ \A q \in Of(r.author, held[r.author]) : q.seq <= r.seq => q \in held[s]
    /\ \A a \in Nodes : \A r \in Of(a, held[a]) :
          /\ \A q \in Of(a, held[a]) : r.seq < q.seq => Before(r.at, q.at)
          /\ \A k \in 1..r.seq : \E q \in Of(a, held[a]) : q.seq = k

LEMMA HeldTypes ==
    ASSUME TypeInv, NEW s \in Sites, NEW r \in held[s]
    PROVE  /\ r \in Record /\ r.author \in Nodes /\ r.author \in Sites /\ r.seq \in Nat \ {0}
           /\ r.at \in HLC /\ r.at.wall \in Nat /\ r.at.logical \in Nat
  <1>1. r \in Record
    BY CommandFacts DEF TypeInv, SitesFit
  <1>. QED
    BY <1>1 DEF Record, HLC, Sites

LEMMA Times ==
    ASSUME TypeInv, NEW n \in Nodes
    PROVE  /\ Physical(n) \in Nat /\ Physical(n)' = now' + Skew[n]
           /\ Physical(n) = now + Skew[n] /\ Skew[n] \in Nat /\ now \in Nat
           /\ clk[n] \in HLC /\ clk[n].wall \in Nat
           /\ \A c \in pending[n] : c.at \in HLC /\ c.at.wall \in Nat
  BY ReplicationAssumption DEF Physical, TypeInv, SitesFit, CountersFit, HLC, Command

LEMMA OneTime ==
    ASSUME ClocksInStep, NEW m \in Nodes, NEW n \in Nodes PROVE Physical(m) = Physical(n)
  BY DEF ClocksInStep, Physical

\* A clock that observes a stamp of the past stays in time and passes all it was past.
LEMMA ClockMoves ==
    ASSUME TypeInv, Timely, NEW n \in Nodes, NEW at \in HLC, at.wall <= Physical(n),
           NEW h, h = Observe(n, at)
    PROVE  /\ h \in HLC /\ h.wall <= Physical(n) /\ Before(at, h)
           /\ \A r \in held[n] : Before(r.at, h) \/ r.at.wall < Physical(n)
  <1>1. /\ h \in HLC /\ Before(at, h) /\ Before(clk[n], h)
        /\ h.wall \in {Physical(n), at.wall, clk[n].wall}
    BY TypeInvTypes, Observed
  <1>2. h.wall <= Physical(n)
    BY <1>1, Times DEF Timely
  <1>3. ASSUME NEW r \in held[n], ~ (r.at.wall < Physical(n)) PROVE Before(r.at, h)
    <2>1. Before(r.at, clk[n])
      BY <1>3 DEF Timely
    <2>2. r.at \in HLC /\ clk[n] \in HLC
      BY HeldTypes, Times DEF Sites
    <2>. QED
      BY <1>1, <2>1, <2>2, BeforeFacts
  <1>. QED
    BY <1>1, <1>2, <1>3

\* A new stamp comes after all that its node holds.
LEMMA StampMoves ==
    ASSUME TypeInv, Timely, NEW n \in Nodes, NEW at, at = Advance(Physical(n), {clk[n]})
    PROVE  /\ at \in HLC /\ at.wall <= Physical(n)
           /\ \A r \in held[n] : Before(r.at, at)
  <1>1. /\ at \in HLC /\ Before(clk[n], at) /\ at.wall >= Physical(n)
        /\ at.wall \in {Physical(n), clk[n].wall}
    BY TypeInvTypes, Stamped
  <1>2. at.wall <= Physical(n)
    BY <1>1, Times DEF Timely
  <1>3. ASSUME NEW r \in held[n] PROVE Before(r.at, at)
    <2>1. r.at \in HLC /\ clk[n] \in HLC /\ r.at.wall \in Nat
      BY HeldTypes, Times DEF Sites
    <2>2. CASE Before(r.at, clk[n])
      BY <1>1, <2>1, <2>2, BeforeFacts
    <2>3. CASE r.at.wall < Physical(n)
      <3>1. r.at.wall < at.wall
        BY <1>1, <2>1, <2>3, Times DEF HLC
      <3>. QED
        BY <3>1 DEF Before
    <2>. QED
      BY <2>2, <2>3 DEF Timely
  <1>. QED
    BY <1>1, <1>2, <1>3

LEMMA TimePasses ==
    ASSUME TypeInv, Timely, now' \in {now, now + 1}, UNCHANGED <<held, pending>>,
           \A n \in Nodes :
              \/ clk'[n] = clk[n]
              \/ /\ clk'[n] \in HLC /\ clk'[n].wall <= Physical(n)
                 /\ \A r \in held[n] : Before(r.at, clk'[n]) \/ r.at.wall < Physical(n)
    PROVE  Timely'
  <1>1. \A n \in Nodes : /\ Physical(n) \in Nat /\ Physical(n)' \in Nat
                         /\ Physical(n) <= Physical(n)'
    BY Times
  <1>2. ASSUME NEW s \in Sites, NEW r \in held'[s], NEW n \in Nodes
        PROVE  r.at.wall <= Physical(n)'
    BY <1>1, HeldTypes DEF Timely
  <1>3. ASSUME NEW n \in Nodes PROVE clk'[n].wall <= Physical(n)'
    <2>1. clk'[n].wall \in Nat
      BY Times DEF HLC
    <2>2. clk'[n].wall <= Physical(n)
      BY DEF Timely
    <2>. QED
      BY <1>1, <2>1, <2>2
  <1>4. ASSUME NEW n \in Nodes, NEW c \in pending'[n] PROVE c.at.wall <= Physical(n)'
    BY <1>1, Times DEF Timely
  <1>5. ASSUME NEW n \in Nodes, NEW r \in held'[n]
        PROVE  Before(r.at, clk'[n]) \/ r.at.wall < Physical(n)'
    <2>1. r.at.wall \in Nat
      BY HeldTypes DEF Sites
    <2>2. Before(r.at, clk'[n]) \/ r.at.wall < Physical(n)
      BY DEF Timely
    <2>. QED
      BY <1>1, <2>1, <2>2
  <1>6. ASSUME NEW n \in Nodes, NEW c \in pending'[n], NEW r \in Of(n, held'[n])
        PROVE  Before(r.at, c.at)
    BY DEF Timely
  <1>. QED
    BY <1>2, <1>3, <1>4, <1>5, <1>6 DEF Timely, Of

LEMMA StampCommandTimely ==
    ASSUME TypeInv, Timely, NEW n \in Nodes, StampCommand(n) PROVE Timely'
  <1>1. PICK at : at = Advance(Physical(n), {clk[n]})
    OBVIOUS
  <1>2. /\ at \in HLC /\ at.wall <= Physical(n) /\ \A r \in held[n] : Before(r.at, at)
    BY <1>1, StampMoves
  <1>3. PICK op \in Commands(n) :
          /\ pending' = [pending EXCEPT ![n] = {[at |-> at, op |-> op]}]
          /\ clk' = [clk EXCEPT ![n] = at]
          /\ UNCHANGED <<held, now>>
    BY <1>1 DEF StampCommand
  <1>4. \A m \in Nodes : /\ clk'[m] = IF m = n THEN at ELSE clk[m]
                         /\ pending'[m] = IF m = n THEN {[at |-> at, op |-> op]} ELSE pending[m]
                         /\ Physical(m)' = Physical(m)
    BY <1>3 DEF TypeInv, SitesFit, Physical
  <1>5. ASSUME NEW m \in Nodes
        PROVE  /\ clk'[m].wall <= Physical(m)
               /\ \A c \in pending'[m] : c.at.wall <= Physical(m)
               /\ \A r \in held[m] : Before(r.at, clk'[m]) \/ r.at.wall < Physical(m)
               /\ \A c \in pending'[m] : \A r \in Of(m, held[m]) : Before(r.at, c.at)
    <2>1. CASE m = n
      <3>1. Of(m, held[m]) \subseteq held[m]
        BY DEF Of
      <3>. QED
        BY <1>2, <1>4, <2>1, <3>1
    <2>2. CASE m # n
      BY <1>4, <2>2 DEF Timely
    <2>. QED
      BY <2>1, <2>2
  <1>6. \A s \in Sites : \A r \in held[s] : \A m \in Nodes : r.at.wall <= Physical(m)
    BY DEF Timely
  <1>. QED
    BY <1>3, <1>4, <1>5, <1>6 DEF Timely, Of

\* A record comes to a site whose clock, if it has one, observes its stamp.
LEMMA LogGrowsTimely ==
    ASSUME ClocksInStep, TypeInv, Timely, NEW s \in Sites, NEW r \in LawfulRecord,
           \A n \in Nodes : r.at.wall <= Physical(n),
           r.author = s => pending'[s] = {},
           held' = [held EXCEPT ![s] = @ \cup {r}],
           \/ s \in Nodes /\ clk' = [clk EXCEPT ![s] = Observe(s, r.at)]
           \/ s \notin Nodes /\ UNCHANGED clk,
           \A n \in Nodes : pending'[n] \subseteq pending[n],
           UNCHANGED now
    PROVE  Timely'
  <1>1. r \in Record /\ r.at \in HLC /\ r.author \in Nodes
    BY CommandFacts DEF Record
  <1>2. \A p \in Sites : held'[p] = IF p = s THEN held[s] \cup {r} ELSE held[p]
    BY DEF TypeInv, SitesFit
  <1>3. \A m \in Nodes : Physical(m)' = Physical(m) /\ m \in Sites
    BY DEF Physical, Sites
  <1>4. ASSUME NEW m \in Nodes
        PROVE  /\ clk'[m].wall <= Physical(m)
               /\ \A q \in held'[m] : Before(q.at, clk'[m]) \/ q.at.wall < Physical(m)
    <2>1. CASE m = s
      <3>1. PICK h : h = Observe(m, r.at)
        OBVIOUS
      <3>2. /\ h.wall <= Physical(m) /\ Before(r.at, h)
            /\ \A q \in held[m] : Before(q.at, h) \/ q.at.wall < Physical(m)
        BY <1>1, <3>1, ClockMoves
      <3>3. clk'[m] = h
        BY <2>1, <3>1 DEF TypeInv, SitesFit
      <3>. QED
        BY <1>2, <1>3, <2>1, <3>2, <3>3
    <2>2. CASE m # s
      <3>1. clk'[m] = clk[m] /\ held'[m] = held[m]
        BY <1>2, <1>3, <2>2 DEF TypeInv, SitesFit
      <3>. QED
        BY <3>1 DEF Timely
    <2>. QED
      BY <2>1, <2>2
  <1>5. ASSUME NEW m \in Nodes, NEW c \in pending'[m]
        PROVE  /\ c.at.wall <= Physical(m)
               /\ \A q \in Of(m, held'[m]) : Before(q.at, c.at)
    <2>1. c \in pending[m]
      OBVIOUS
    <2>2. Of(m, held'[m]) = Of(m, held[m])
      <3>1. CASE m = s
        BY <1>2, <1>3, <3>1 DEF Of
      <3>2. CASE m # s
        BY <1>2, <1>3, <3>2
      <3>. QED
        BY <3>1, <3>2
    <2>. QED
      BY <2>1, <2>2 DEF Timely
  <1>6. \A p \in Sites : \A q \in held'[p] : \A m \in Nodes : q.at.wall <= Physical(m)
    BY <1>2 DEF Timely
  <1>. QED
    BY <1>3, <1>4, <1>5, <1>6 DEF Timely, Of

LEMMA AppendRecordTimely ==
    ASSUME ClocksInStep, TypeInv, Timely, NEW n \in Nodes, AppendRecord(n) PROVE Timely'
  <1>1. PICK c \in pending[n] :
          /\ held' = [held EXCEPT ![n] = @ \cup
                {[author |-> n, seq |-> NextSeq(n), at |-> c.at, op |-> c.op]}]
          /\ clk' = [clk EXCEPT ![n] = Observe(n, c.at)]
          /\ pending' = [pending EXCEPT ![n] = {}]
          /\ UNCHANGED now
    BY DEF AppendRecord
  <1>2. PICK r : r = [author |-> n, seq |-> NextSeq(n), at |-> c.at, op |-> c.op]
    OBVIOUS
  <1>3. r \in LawfulRecord /\ r.author = n /\ r.at = c.at
    BY <1>2, Appended
  <1>4. \A m \in Nodes : r.at.wall <= Physical(m)
    <2>1. c.at.wall <= Physical(n)
      BY DEF Timely
    <2>. QED
      BY <1>3, <2>1, OneTime
  <1>5. \A m \in Nodes : pending'[m] \subseteq pending[m] /\ (m = n => pending'[m] = {})
    BY <1>1 DEF TypeInv, SitesFit
  <1>6. /\ held' = [held EXCEPT ![n] = @ \cup {r}]
        /\ clk' = [clk EXCEPT ![n] = Observe(n, r.at)]
    BY <1>1, <1>2, <1>3
  <1>. QED
    BY <1>1, <1>3, <1>4, <1>5, <1>6, LogGrowsTimely DEF Sites

LEMMA RefuseTimely ==
    ASSUME TypeInv, Timely, NEW n \in Nodes, Refuse(n) PROVE Timely'
  <1>1. PICK c \in pending[n] :
          /\ UNCHANGED clk \/ clk' = [clk EXCEPT ![n] = Observe(n, c.at)]
          /\ pending' = [pending EXCEPT ![n] = {}]
          /\ UNCHANGED <<held, now>>
    BY DEF Refuse
  <1>2. c.at \in HLC /\ c.at.wall <= Physical(n)
    BY Times DEF Timely
  <1>3. PICK h : h = Observe(n, c.at)
    OBVIOUS
  <1>4. /\ h.wall <= Physical(n)
        /\ \A r \in held[n] : Before(r.at, h) \/ r.at.wall < Physical(n)
    BY <1>2, <1>3, ClockMoves
  <1>5. \A m \in Nodes : /\ clk'[m] = clk[m] \/ (m = n /\ clk'[m] = h)
                         /\ pending'[m] \subseteq pending[m]
                         /\ Physical(m)' = Physical(m)
    BY <1>1, <1>3 DEF TypeInv, SitesFit, Physical
  <1>6. ASSUME NEW m \in Nodes
        PROVE  /\ clk'[m].wall <= Physical(m)
               /\ \A r \in held[m] : Before(r.at, clk'[m]) \/ r.at.wall < Physical(m)
    <2>1. CASE clk'[m] = clk[m]
      BY <2>1 DEF Timely
    <2>2. CASE m = n /\ clk'[m] = h
      BY <1>4, <2>2
    <2>. QED
      BY <1>5, <2>1, <2>2
  <1>7. ASSUME NEW m \in Nodes, NEW d \in pending'[m]
        PROVE  d.at.wall <= Physical(m) /\ \A r \in Of(m, held[m]) : Before(r.at, d.at)
    BY <1>5 DEF Timely
  <1>8. \A s \in Sites : \A r \in held[s] : \A m \in Nodes : r.at.wall <= Physical(m)
    BY DEF Timely
  <1>. QED
    BY <1>1, <1>5, <1>6, <1>7, <1>8 DEF Timely, Of

\* A new clock knows nothing, but time has moved on.
LEMMA RestartTimely ==
    ASSUME TypeInv, Timely, NEW n \in Nodes, Restart(n) PROVE Timely'
  <1>1. /\ now' = now + 1 /\ UNCHANGED held
        /\ clk' = [clk EXCEPT ![n] = [wall |-> 0, logical |-> 0]]
        /\ pending' = [pending EXCEPT ![n] = {}]
    BY DEF Restart
  <1>2. \A m \in Nodes : /\ Physical(m)' = Physical(m) + 1 /\ Physical(m) \in Nat
                         /\ clk'[m] = IF m = n THEN [wall |-> 0, logical |-> 0] ELSE clk[m]
                         /\ pending'[m] \subseteq pending[m]
    <2>1. \A m \in Nodes : Physical(m)' = Physical(m) + 1 /\ Physical(m) \in Nat
      BY <1>1, Times
    <2>. QED
      BY <1>1, <2>1 DEF TypeInv, SitesFit
  <1>3. \A s \in Sites : \A r \in held[s] : \A m \in Nodes :
          r.at.wall \in Nat /\ r.at.wall <= Physical(m) /\ r.at.wall < Physical(m)'
    BY <1>2, HeldTypes DEF Timely
  <1>4. ASSUME NEW m \in Nodes
        PROVE  /\ clk'[m].wall <= Physical(m)'
               /\ \A r \in held[m] : r.at.wall < Physical(m)'
    <2>1. clk'[m].wall \in Nat /\ clk'[m].wall <= Physical(m)
      BY <1>2, Times DEF Timely
    <2>. QED
      BY <1>2, <1>3, <2>1 DEF Sites
  <1>5. ASSUME NEW m \in Nodes, NEW d \in pending'[m]
        PROVE  d.at.wall <= Physical(m)' /\ \A r \in Of(m, held[m]) : Before(r.at, d.at)
    <2>1. d \in pending[m]
      BY <1>2
    <2>2. d.at.wall \in Nat /\ d.at.wall <= Physical(m)
      BY <2>1, Times DEF Timely
    <2>. QED
      BY <1>2, <2>1, <2>2 DEF Timely
  <1>6. \A s \in Sites : \A r \in held[s] : \A m \in Nodes : r.at.wall <= Physical(m)'
    BY <1>2, <1>3
  <1>. QED
    BY <1>1, <1>4, <1>5, <1>6 DEF Timely, Of

-----------------------------------------------------------------------------
(* What an exchange may rely on *)

\* A mark that a site sends is the number of a record it holds.
Marked(site, mark) ==
    \A a \in Nodes : mark[a] = 0 \/ \E r \in held[site] : r.author = a /\ r.seq = mark[a]

InFrames(frames, r) == \E i \in DOMAIN frames : \E j \in DOMAIN frames[i] : frames[i][j] = r

\* A record comes in an earlier batch, or earlier in this one.
Earlier(frames, i, j, r) ==
    \/ \E k \in 1..(j - 1) : frames[i][k] = r
    \/ \E b \in 1..(i - 1) : \E k \in DOMAIN frames[b] : frames[b][k] = r

\* Before a record under way comes all that its author wrote before it, or the drainer
\* has it.
Backed(s) ==
    \A i \in DOMAIN s.frames : \A j \in DOMAIN s.frames[i] :
        LET r == s.frames[i][j]
        IN /\ r \in held[r.author]
           /\ \A q \in Of(r.author, held[r.author]) :
                 q.seq < r.seq => q \in held[Draining(s)] \/ Earlier(s.frames, i, j, q)

\* The client's last record that it will count as acknowledged has come or is under way.
Acknowledged(s) ==
    LET own == s.link[1]
    IN \/ s.snapshot[own] = 0
       \/ \E r \in held[own] : /\ r.author = own /\ r.seq = s.snapshot[own]
                               /\ r \in held[s.link[2]] \/ InFrames(s.frames, r)

Sound(s) ==
    /\ s.pusher \in {s.link[1], s.link[2]}
    /\ \A site \in Sites : Marked(site, s.vv[site])
    /\ Marked(s.pusher, s.snapshot)
    /\ s.pc \in {"drain", "merge"} /\ s.pusher # s.link[1] => s.snapshot = Nothing
    /\ s.pc = "status" => s.pusher = s.link[1] /\ s.frames = <<>>
    /\ Backed(s)
    /\ s.pc \in {"drain", "merge", "status"} /\ s.pusher = s.link[1] => Acknowledged(s)

\* A cursor is the number of a record that the peer holds.
CursorsSound ==
    \A l \in Links :
        cursor[l] = 0 \/ \E r \in held[l[2]] : r.author = l[1] /\ r.seq = cursor[l]

ReplicationInv ==
    /\ Timely /\ LogsSound /\ CursorsSound
    /\ \A x \in Sessions : \A s \in session[x] : Sound(s)

\* Logs only grow, and an author's by higher numbers.
Extended ==
    \A s \in Sites :
        /\ held[s] \subseteq held'[s]
        /\ \A q \in Of(s, held'[s]) :
              q \in held[s] \/ \A r \in Of(s, held[s]) : r.seq < q.seq

LEMMA MarkedStays ==
    ASSUME Extended, NEW site \in Sites, NEW mark, Marked(site, mark) PROVE Marked(site, mark)'
  BY DEF Extended, Marked

LEMMA FrameRecord ==
    ASSUME NEW s \in Session, NEW i \in DOMAIN s.frames, NEW j \in DOMAIN s.frames[i]
    PROVE  s.frames[i][j] \in Record
  <1>1. s.frames \in Seq(Seq(Record))
    BY DEF Session
  <1>2. s.frames[i] \in Seq(Record)
    BY <1>1
  <1>. QED
    BY <1>2

LEMMA SoundStays ==
    ASSUME TypeInv, SitesFit', Extended, NEW s \in Session, Sound(s) PROVE Sound(s)'
  <1>1. /\ Draining(s) \in Sites /\ s.pusher \in Sites /\ Draining(s)' = Draining(s)
        /\ s.link[1] \in Sites /\ s.link[2] \in Sites
    BY DrainingFacts DEF Session, Draining
  <1>2. /\ \A site \in Sites : Marked(site, s.vv[site])'
        /\ Marked(s.pusher, s.snapshot)'
    BY <1>1, MarkedStays DEF Sound
  <1>3. Backed(s)'
    <2>. SUFFICES ASSUME NEW i \in DOMAIN s.frames, NEW j \in DOMAIN s.frames[i],
                         NEW r, r = s.frames[i][j]
                  PROVE  /\ r \in held'[r.author]
                         /\ \A q \in Of(r.author, held'[r.author]) : q.seq < r.seq =>
                               q \in held'[Draining(s)] \/ Earlier(s.frames, i, j, q)
      BY <1>1 DEF Backed, Of, Earlier
    <2>1. /\ r \in held[r.author]
          /\ \A q \in Of(r.author, held[r.author]) :
                q.seq < r.seq => q \in held[Draining(s)] \/ Earlier(s.frames, i, j, q)
      BY DEF Sound, Backed
    <2>2. r \in Record /\ r.author \in Nodes /\ r.author \in Sites /\ r.seq \in Nat
      <3>1. r \in Record
        BY FrameRecord
      <3>. QED
        BY <3>1 DEF Record, Sites
    <2>3. ASSUME NEW q \in Of(r.author, held'[r.author]), q.seq < r.seq
          PROVE  q \in held'[Draining(s)] \/ Earlier(s.frames, i, j, q)
      <3>1. r \in Of(r.author, held[r.author])
        BY <2>1 DEF Of
      <3>2. q.seq \in Nat
        <4>1. q \in Record
          BY <2>2, CommandFacts DEF SitesFit, Of
        <4>. QED
          BY <4>1 DEF Record
      <3>3. q \in held[r.author]
        BY <2>2, <2>3, <3>1, <3>2 DEF Extended
      <3>4. q \in Of(r.author, held[r.author])
        BY <3>3 DEF Of
      <3>. QED
        BY <1>1, <2>1, <2>3, <3>4 DEF Extended
    <2>. QED
      BY <1>1, <2>1, <2>2, <2>3 DEF Extended
  <1>4. Acknowledged(s) => Acknowledged(s)'
    BY <1>1 DEF Acknowledged, Extended
  <1>. QED
    BY <1>2, <1>3, <1>4 DEF Sound

LEMMA HeldStays == UNCHANGED held => Extended
  BY DEF Extended, Of

LEMMA AppendExtends ==
    ASSUME TypeInv, NEW n \in Nodes, NEW r \in LawfulRecord, r.author = n,
           \A q \in held[n] : q.author = n => q.seq < r.seq,
           held' = [held EXCEPT ![n] = @ \cup {r}]
    PROVE  Extended
  <1>1. \A s \in Sites : held'[s] = IF s = n THEN held[n] \cup {r} ELSE held[s]
    BY DEF TypeInv, SitesFit
  <1>2. ASSUME NEW s \in Sites, NEW q \in Of(s, held'[s]), q \notin held[s], NEW p \in Of(s, held[s])
        PROVE  p.seq < q.seq
    BY <1>1, <1>2 DEF Of
  <1>3. \A s \in Sites : held[s] \subseteq held'[s]
    BY <1>1
  <1>. QED
    BY ONLY <1>2, <1>3 DEF Extended

\* The log of its author has the record's predecessors, and it is stamped after them.
LEMMA AppendLogs ==
    ASSUME TypeInv, LogsSound, NEW n \in Nodes, NEW r \in LawfulRecord, r.author = n,
           r.seq = NextSeq(n), \A q \in held[n] : q.author = n => q.seq < r.seq,
           \A q \in Of(n, held[n]) : Before(q.at, r.at),
           held' = [held EXCEPT ![n] = @ \cup {r}]
    PROVE  LogsSound'
  <1>1. \A s \in Sites : held'[s] = IF s = n THEN held[n] \cup {r} ELSE held[s]
    BY DEF TypeInv, SitesFit
  <1>2. n \in Sites /\ Nodes \subseteq Sites
    BY DEF Sites
  <1>3. r.seq \in Nat
    BY CommandFacts DEF Record
  <1>4. ASSUME NEW s \in Sites, NEW x \in held'[s]
        PROVE  /\ x \in held'[x.author]
               /\ \A q \in Of(x.author, held'[x.author]) : q.seq <= x.seq => q \in held'[s]
    <2>1. CASE x \in held[s]
      <3>1. x \in held[x.author] /\ x.author \in Nodes /\ x.seq \in Nat
        BY <2>1, HeldTypes DEF LogsSound
      <3>2. ASSUME NEW q \in Of(x.author, held'[x.author]), q.seq <= x.seq PROVE q \in held'[s]
        <4>1. CASE q \in held[x.author]
          <5>1. q \in Of(x.author, held[x.author])
            BY <4>1, <3>2 DEF Of
          <5>. QED
            BY <1>1, <2>1, <3>2, <5>1 DEF LogsSound
        <4>2. CASE q \notin held[x.author]
          <5>1. x.author = n /\ q = r
            BY <1>1, <1>2, <3>1, <3>2, <4>2 DEF Of
          <5>2. x.seq < r.seq
            BY <3>1, <5>1
          <5>. QED
            BY <1>3, <3>1, <3>2, <5>1, <5>2
        <4>. QED
          BY <4>1, <4>2
      <3>3. x \in held'[x.author]
        BY <1>1, <1>2, <3>1
      <3>. QED
        BY <3>2, <3>3
    <2>2. CASE x \notin held[s]
      <3>1. s = n /\ x = r
        BY <1>1, <2>2
      <3>. QED
        BY <1>1, <1>2, <3>1 DEF Of
    <2>. QED
      BY <2>1, <2>2
  <1>5. ASSUME NEW a \in Nodes, NEW x \in Of(a, held'[a]), NEW q \in Of(a, held'[a]), x.seq < q.seq
        PROVE  Before(x.at, q.at)
    <2>0. a \in Sites
      BY <1>2
    <2>1. CASE x \in held[a] /\ q \in held[a]
      BY <1>5, <2>1 DEF LogsSound, Of
    <2>2. CASE x \notin held[a]
      <3>1. x = r /\ a = n
        BY <1>1, <2>0, <2>2 DEF Of
      <3>2. CASE q \in held[n]
        <4>1. q.seq < r.seq /\ q.seq \in Nat
          BY <1>2, <1>5, <3>1, <3>2, HeldTypes DEF Of
        <4>. QED
          BY <1>3, <1>5, <3>1, <4>1
      <3>3. CASE q \notin held[n]
        <4>1. q = r
          BY <1>1, <1>2, <3>1, <3>3 DEF Of
        <4>. QED
          BY <1>3, <1>5, <3>1, <4>1
      <3>. QED
        BY <3>2, <3>3
    <2>3. CASE x \in held[a] /\ q \notin held[a]
      <3>1. q = r /\ a = n
        BY <1>1, <2>0, <2>3 DEF Of
      <3>. QED
        BY <2>3, <3>1 DEF Of
    <2>. QED
      BY <2>1, <2>2, <2>3
  <1>6. ASSUME NEW a \in Nodes, NEW x \in Of(a, held'[a]), NEW k \in 1..x.seq
        PROVE  \E q \in Of(a, held'[a]) : q.seq = k
    <2>0. a \in Sites
      BY <1>2
    <2>1. CASE x \in held[a]
      <3>1. \E q \in Of(a, held[a]) : q.seq = k
        BY <1>6, <2>1 DEF LogsSound, Of
      <3>. QED
        BY <1>1, <2>0, <3>1 DEF Of
    <2>2. CASE x \notin held[a]
      <3>1. x = r /\ a = n
        BY <1>1, <2>0, <2>2 DEF Of
      <3>2. CASE k = r.seq
        BY <1>1, <1>2, <3>1, <3>2 DEF Of
      <3>3. CASE k # r.seq
        <4>1. /\ Version(n) \in Vector /\ r.seq = Version(n)[n] + 1
              /\ Version(n)[n] # 0 =>
                    \E p \in held[n] : p.author = n /\ p.seq = Version(n)[n]
          BY <1>2, SiteVersion DEF TypeInv, NextSeq
        <4>2. k \in 1..Version(n)[n] /\ Version(n)[n] # 0
          BY <1>3, <3>1, <3>3, <4>1 DEF Vector
        <4>3. PICK p \in Of(n, held[n]) : p.seq = Version(n)[n]
          BY <4>1, <4>2 DEF Of
        <4>4. \E q \in Of(n, held[n]) : q.seq = k
          BY <4>2, <4>3 DEF LogsSound
        <4>. QED
          BY <1>1, <1>2, <3>1, <4>4 DEF Of
      <3>. QED
        BY <3>2, <3>3
    <2>. QED
      BY <2>1, <2>2
  <1>. QED
    BY <1>4, <1>5, <1>6 DEF LogsSound, Of

\* The record at the head of the frames is its author's next at the site.
LEMMA HeadFacts ==
    ASSUME TypeInv, NEW s, Fits(s), Sound(s), s.pc = "merge",
           NEW r, r = Head(Head(s.frames))
    PROVE  /\ r \in LawfulRecord /\ r.author \in Nodes /\ r.author # Draining(s)
           /\ r = s.frames[1][1] /\ 1 \in DOMAIN s.frames /\ 1 \in DOMAIN s.frames[1]
           /\ r \in held[r.author]
           /\ \A q \in Of(r.author, held[r.author]) : q.seq < r.seq => q \in held[Draining(s)]
  <1>1. PICK frames \in Seq(Batch) : frames = s.frames /\ frames # <<>>
    BY DEF Fits
  <1>2. PICK batch \in Batch : batch = frames[1] /\ batch = Head(frames) /\ 1 \in DOMAIN frames
    BY <1>1
  <1>3. batch[1] = Head(batch) /\ 1 \in DOMAIN batch
    BY DEF Batch
  <1>4. /\ r = s.frames[1][1] /\ 1 \in DOMAIN s.frames /\ 1 \in DOMAIN s.frames[1]
    BY <1>1, <1>2, <1>3
  <1>5. r \in LawfulRecord /\ r.author # Draining(s)
    BY TakenFacts
  <1>6. r.author \in Nodes
    BY <1>5, CommandFacts DEF Record
  <1>7. /\ r \in held[r.author]
        /\ \A q \in Of(r.author, held[r.author]) :
              q.seq < r.seq => q \in held[Draining(s)] \/ Earlier(s.frames, 1, 1, q)
    BY <1>4 DEF Sound, Backed
  <1>8. \A q : ~ Earlier(s.frames, 1, 1, q)
    BY DEF Earlier
  <1>. QED
    BY <1>4, <1>5, <1>6, <1>7, <1>8

LEMMA MergeExtends ==
    ASSUME TypeInv, NEW d \in Sites, NEW r \in LawfulRecord, r.author # d,
           held' = [held EXCEPT ![d] = @ \cup {r}]
    PROVE  /\ Extended
           /\ \A a \in Nodes : Of(a, held'[a]) = Of(a, held[a])
  <1>1. \A s \in Sites : held'[s] = IF s = d THEN held[d] \cup {r} ELSE held[s]
    BY DEF TypeInv, SitesFit
  <1>2. \A s \in Sites : Of(s, held'[s]) = Of(s, held[s])
    BY <1>1 DEF Of
  <1>. QED
    BY <1>1, <1>2 DEF Extended, Of, Sites

LEMMA MergeLogs ==
    ASSUME TypeInv, LogsSound, NEW d \in Sites, NEW r \in LawfulRecord, r.author # d,
           r \in held[r.author],
           \A q \in Of(r.author, held[r.author]) : q.seq < r.seq => q \in held[d],
           held' = [held EXCEPT ![d] = @ \cup {r}]
    PROVE  LogsSound'
  <1>1. \A s \in Sites : held'[s] = IF s = d THEN held[d] \cup {r} ELSE held[s]
    BY DEF TypeInv, SitesFit
  <1>2. \A a \in Nodes : Of(a, held'[a]) = Of(a, held[a])
    BY MergeExtends
  <1>3. r.author \in Nodes /\ r.author \in Sites /\ r.seq \in Nat
    BY CommandFacts DEF Record, Sites
  <1>4. ASSUME NEW s \in Sites, NEW x \in held'[s]
        PROVE  /\ x \in held'[x.author]
               /\ \A q \in Of(x.author, held'[x.author]) : q.seq <= x.seq => q \in held'[s]
    <2>1. CASE x \in held[s]
      <3>1. x \in held[x.author] /\ x.author \in Nodes /\ x.author \in Sites
        BY <2>1, HeldTypes DEF LogsSound
      <3>2. \A q \in Of(x.author, held[x.author]) : q.seq <= x.seq => q \in held[s]
        BY <2>1 DEF LogsSound
      <3>3. /\ Of(x.author, held'[x.author]) = Of(x.author, held[x.author])
            /\ held[s] \subseteq held'[s] /\ held[x.author] \subseteq held'[x.author]
        BY <1>1, <1>2, <3>1
      <3>. QED
        BY <3>1, <3>2, <3>3
    <2>2. CASE x \notin held[s]
      <3>1. s = d /\ x = r
        BY <1>1, <2>2
      <3>2. ASSUME NEW q \in Of(r.author, held[r.author]), q.seq <= r.seq PROVE q \in held'[d]
        <4>1. q \in held[r.author] /\ q.author = r.author /\ q.seq \in Nat
          BY <1>3, HeldTypes DEF Of
        <4>2. CASE q.seq < r.seq
          BY <1>1, <4>2
        <4>3. CASE q.seq = r.seq
          <5>1. q = r
            BY <1>3, <4>1, <4>3 DEF TypeInv, SitesFit, Apart
          <5>. QED
            BY <1>1, <5>1
        <4>. QED
          BY <1>3, <3>2, <4>1, <4>2, <4>3
      <3>. QED
        BY <1>1, <1>2, <1>3, <3>1, <3>2
    <2>. QED
      BY <2>1, <2>2
  <1>5. ASSUME NEW a \in Nodes, NEW x \in Of(a, held[a])
        PROVE  /\ \A q \in Of(a, held[a]) : x.seq < q.seq => Before(x.at, q.at)
               /\ \A k \in 1..x.seq : \E q \in Of(a, held[a]) : q.seq = k
    BY DEF LogsSound
  <1>. QED
    BY <1>2, <1>4, <1>5 DEF LogsSound, Of

LEMMA LogsStay == LogsSound /\ UNCHANGED held => LogsSound'
  BY DEF LogsSound, Of

LEMMA MergeAdvances ==
    ASSUME ClocksInStep, TypeInv, ReplicationInv, NEW x \in Sessions, Merge(x)
    PROVE  Timely' /\ LogsSound' /\ Extended
  <1>1. PICK s \in session[x], r \in LawfulRecord :
          /\ s.pc = "merge" /\ Fits(s)
          /\ r = Head(Head(s.frames)) /\ r.author # Draining(s) /\ Draining(s) \in Sites
          /\ \/ Stored(Draining(s), r) /\ UNCHANGED <<held, balance, clk>>
             \/ /\ ~ Stored(Draining(s), r)
                /\ held' = [held EXCEPT ![Draining(s)] = @ \cup {r}]
                /\ \/ /\ Draining(s) = Central
                      /\ UNCHANGED <<balance, clk>>
                   \/ /\ Draining(s) \in Nodes
                      /\ balance' = [balance EXCEPT ![Draining(s)] = Apply(@, r.op)]
                      /\ clk' = [clk EXCEPT ![Draining(s)] = Observe(Draining(s), r.at)]
          /\ UNCHANGED <<pending, cursor, now, failures, net>>
    BY MergeFacts
  <1>2. PICK d \in Sites : d = Draining(s)
    BY <1>1
  <1>3. Sound(s) /\ Timely /\ LogsSound
    BY DEF ReplicationInv
  <1>4. CASE UNCHANGED <<held, clk>>
    BY <1>1, <1>3, <1>4, TimePasses, LogsStay, HeldStays
  <1>5. CASE /\ held' = [held EXCEPT ![d] = @ \cup {r}]
             /\ \/ d = Central /\ UNCHANGED clk
                \/ d \in Nodes /\ clk' = [clk EXCEPT ![d] = Observe(d, r.at)]
    <2>1. /\ r \in held[r.author] /\ r.author \in Nodes
          /\ \A q \in Of(r.author, held[r.author]) : q.seq < r.seq => q \in held[d]
      BY <1>1, <1>2, <1>3, HeadFacts
    <2>2. \A n \in Nodes : r.at.wall <= Physical(n)
      BY <1>3, <2>1 DEF Timely, Sites
    <2>3. Central \notin Nodes
      BY ReplicationAssumption
    <2>4. Timely'
      BY <1>1, <1>2, <1>3, <1>5, <2>2, <2>3, LogGrowsTimely
    <2>5. LogsSound' /\ Extended
      BY <1>1, <1>2, <1>3, <1>5, <2>1, MergeLogs, MergeExtends
    <2>. QED
      BY <2>4, <2>5
  <1>. QED
    BY <1>1, <1>2, <1>4, <1>5

LEMMA FailAdvances ==
    ASSUME TypeInv, ReplicationInv, NEW x \in Sessions, Fail(x) PROVE Timely'
  <1>1. PICK s \in session[x] : \E site \in {s.link[1], s.link[2]} :
          /\ Fits(s)
          /\ \/ UNCHANGED clk
             \/ \E r \in LawfulRecord :
                  /\ s.pc = "merge" /\ site \in Nodes
                  /\ r = Head(Head(s.frames))
                  /\ clk' = [clk EXCEPT ![site] = Observe(site, r.at)]
          /\ UNCHANGED <<held, pending, now>>
    BY FailFacts
  <1>2. Fits(s) /\ Sound(s) /\ Timely /\ UNCHANGED <<held, pending, now>>
    BY <1>1 DEF ReplicationInv
  <1>3. CASE UNCHANGED clk
    BY <1>2, <1>3, TimePasses
  <1>4. ASSUME NEW site \in Nodes, NEW r \in LawfulRecord,
               s.pc = "merge", r = Head(Head(s.frames)),
               clk' = [clk EXCEPT ![site] = Observe(site, r.at)]
        PROVE  Timely'
    <2>1. r \in held[r.author] /\ r.author \in Nodes
      BY <1>2, <1>4, HeadFacts
    <2>2. r.at.wall <= Physical(site) /\ r.at \in HLC
      BY <1>2, <2>1, HeldTypes DEF Timely, Sites
    <2>3. PICK h : h = Observe(site, r.at)
      OBVIOUS
    <2>4. /\ h \in HLC /\ h.wall <= Physical(site)
          /\ \A q \in held[site] : Before(q.at, h) \/ q.at.wall < Physical(site)
      BY <1>2, <2>2, <2>3, ClockMoves
    <2>5. \A n \in Nodes : clk'[n] = IF n = site THEN h ELSE clk[n]
      BY <1>4, <2>3 DEF TypeInv, SitesFit
    <2>6. ASSUME NEW n \in Nodes
          PROVE  \/ clk'[n] = clk[n]
                 \/ /\ clk'[n] \in HLC /\ clk'[n].wall <= Physical(n)
                    /\ \A q \in held[n] : Before(q.at, clk'[n]) \/ q.at.wall < Physical(n)
      BY <2>4, <2>5
    <2>. QED
      BY <1>2, <2>6, TimePasses
  <1>. QED
    BY <1>1, <1>3, <1>4

LEMMA AppendAdvances ==
    ASSUME ClocksInStep, TypeInv, ReplicationInv, NEW n \in Nodes, AppendRecord(n)
    PROVE  Timely' /\ LogsSound' /\ Extended
  <1>1. PICK c \in pending[n] :
          held' = [held EXCEPT ![n] = @ \cup
                {[author |-> n, seq |-> NextSeq(n), at |-> c.at, op |-> c.op]}]
    BY DEF AppendRecord
  <1>2. PICK r : r = [author |-> n, seq |-> NextSeq(n), at |-> c.at, op |-> c.op]
    OBVIOUS
  <1>3. /\ r \in LawfulRecord /\ r.author = n /\ r.at = c.at /\ r.seq = NextSeq(n)
        /\ \A q \in held[n] : q.author = n => q.seq < r.seq
    <2>1. /\ r \in LawfulRecord
          /\ \A q \in held[n] : q.author = n => q.seq < r.seq
      BY <1>2, Appended
    <2>. QED
      BY <1>2, <2>1
  <1>4. Timely /\ LogsSound /\ \A q \in Of(n, held[n]) : Before(q.at, r.at)
    BY <1>3 DEF ReplicationInv, Timely
  <1>5. held' = [held EXCEPT ![n] = @ \cup {r}]
    BY <1>1, <1>2
  <1>. QED
    BY <1>3, <1>4, <1>5, AppendRecordTimely, AppendLogs, AppendExtends

\* Every step leaves the logs and the clocks sound, and extends the logs.
LEMMA LogsAdvance ==
    ClocksInStep /\ TypeInv /\ ReplicationInv /\ [Next]_vars
        => Timely' /\ LogsSound' /\ Extended
  <1>. SUFFICES ASSUME ClocksInStep, TypeInv, ReplicationInv, [Next]_vars
                PROVE  Timely' /\ LogsSound' /\ Extended
    OBVIOUS
  <1>0. Timely /\ LogsSound
    BY DEF ReplicationInv
  <1>1. CASE UNCHANGED <<held, clk, pending, now>>
    BY <1>0, <1>1, TimePasses, LogsStay, HeldStays
  <1>2. CASE Tick
    BY <1>0, <1>2, TimePasses, LogsStay, HeldStays DEF Tick
  <1>3. ASSUME NEW n \in Nodes, StampCommand(n) \/ Refuse(n) \/ Restart(n)
        PROVE  Timely' /\ LogsSound' /\ Extended
    <2>1. UNCHANGED held
      BY <1>3 DEF StampCommand, Refuse, Restart
    <2>. QED
      BY <1>0, <1>3, <2>1, StampCommandTimely, RefuseTimely, RestartTimely, LogsStay, HeldStays
  <1>4. ASSUME NEW n \in Nodes, AppendRecord(n) PROVE Timely' /\ LogsSound' /\ Extended
    BY <1>4, AppendAdvances
  <1>5. ASSUME NEW x \in Sessions, Fail(x) PROVE Timely' /\ LogsSound' /\ Extended
    <2>1. UNCHANGED held
      BY <1>5 DEF Fail
    <2>. QED
      BY <1>0, <1>5, <2>1, FailAdvances, LogsStay, HeldStays
  <1>6. ASSUME NEW x \in Sessions, Merge(x) PROVE Timely' /\ LogsSound' /\ Extended
    BY <1>6, MergeAdvances
  <1>7. ASSUME NEW x \in Sessions,
               \/ Hello(x) \/ Snapshot(x) \/ Collect(x) \/ Receive(x) \/ Ack(x) \/ Finish(x)
               \/ Drop(x)
        PROVE  UNCHANGED <<held, clk, pending, now>>
    BY <1>7 DEF Hello, Snapshot, Collect, Receive, Ack, Finish, Drop, LogFrame
  <1>8. ASSUME NEW l \in Links, Dial(l) PROVE UNCHANGED <<held, clk, pending, now>>
    BY <1>8 DEF Dial, LogFrame
  <1>9. CASE UNCHANGED vars
    BY <1>1, <1>9 DEF vars
  <1>. QED
    BY <1>1, <1>2, <1>3, <1>4, <1>5, <1>6, <1>7, <1>8, <1>9 DEF Next, Step

-----------------------------------------------------------------------------
(* The exchanges stay sound *)

LEMMA SessionTypes ==
    ASSUME TypeInv, NEW x \in Sessions, NEW s \in session[x]
    PROVE  /\ s \in Session /\ Fits(s) /\ session[x] = {s}
           /\ s.pusher \in Sites /\ s.link \in Links
           /\ s.vv \in [Sites -> Vector] /\ s.snapshot \in Vector
           /\ s.link[1] \in Nodes /\ s.link[1] \in Sites /\ s.link[2] \in Sites
  <1>1. s \in Session /\ Fits(s) /\ session[x] = {s}
    BY DEF TypeInv, SessionsFit
  <1>. QED
    BY <1>1, DrainingFacts DEF Session

LEMMA SessionsSound ==
    ASSUME TypeInv, SitesFit', Extended, ReplicationInv, NEW x \in Sessions,
           \/ Close(x)
           \/ \E t \in Session : Set(x, t) /\ (Sound(t) \/ Sound(t)')
    PROVE  \A y \in Sessions : \A s \in session'[y] : Sound(s)'
  <1>1. ASSUME NEW y \in Sessions, NEW s \in session[y] PROVE Sound(s)'
    <2>1. s \in Session /\ Sound(s)
      BY SessionTypes DEF ReplicationInv
    <2>. QED
      BY <2>1, SoundStays
  <1>2. session \in [Sessions -> SUBSET Session]
    BY DEF TypeInv, SessionsFit
  <1>3. CASE Close(x)
    <2>1. \A y \in Sessions : session'[y] \subseteq session[y]
      BY <1>2, <1>3 DEF Close
    <2>. QED
      BY <1>1, <2>1
  <1>4. ASSUME NEW t \in Session, Set(x, t), Sound(t) \/ Sound(t)'
        PROVE  \A y \in Sessions : \A s \in session'[y] : Sound(s)'
    <2>1. Sound(t)'
      BY <1>4, SoundStays
    <2>2. \A y \in Sessions : session'[y] = IF y = x THEN {t} ELSE session[y]
      BY <1>2, <1>4 DEF Set
    <2>. QED
      BY <1>1, <2>1, <2>2
  <1>. QED
    BY <1>3, <1>4

LEMMA MarkedNothing == \A site : Marked(site, Nothing)
  BY DEF Marked, Nothing

LEMMA MarkedVersion ==
    ASSUME TypeInv, NEW site \in Sites PROVE Marked(site, Version(site))
  BY SiteVersion DEF TypeInv, Marked

\* Without frames, nothing is under way.
LEMMA BackedEmpty == ASSUME NEW s, s.frames = <<>> PROVE Backed(s)
  BY DEF Backed

LEMMA BackedSame ==
    ASSUME NEW s, NEW t, Backed(s),
           t.frames = s.frames, t.pusher = s.pusher, t.link = s.link
    PROVE  Backed(t)
  <1>1. Draining(t) = Draining(s)
    BY DEF Draining
  <1>. QED
    BY <1>1 DEF Backed

LEMMA DialSound ==
    ASSUME TypeInv, NEW l \in Links, Dial(l)
    PROVE  \E x \in Sessions : \E t \in Session : Set(x, t) /\ Sound(t)
  <1>. DEFINE free == {x \in Sessions : session[x] = {}}
              marks == [s \in Sites |-> IF s = l[1] THEN Version(s) ELSE Nothing]
  <1>1. PICK x \in Sessions :
          Set(x, [link |-> l, pusher |-> l[2], pc |-> "hello", vv |-> marks,
                  snapshot |-> Nothing, frames |-> <<>>, broken |-> FALSE])
    BY DEF Dial
  <1>2. PICK t : t = [link |-> l, pusher |-> l[2], pc |-> "hello", vv |-> marks,
                      snapshot |-> Nothing, frames |-> <<>>, broken |-> FALSE]
    OBVIOUS
  <1>3. marks \in [Sites -> Vector] /\ \A site \in Sites : Marked(site, marks[site])
    <2>1. Nothing \in Vector /\ \A s \in Sites : Version(s) \in Vector
      BY SiteVersion DEF Nothing, Vector, TypeInv
    <2>2. \A site \in Sites : Marked(site, IF site = l[1] THEN Version(site) ELSE Nothing)
      BY MarkedNothing, MarkedVersion
    <2>. QED
      BY <2>1, <2>2
  <1>. HIDE DEF marks
  <1>4. t \in Session
    <2>1. Nothing \in Vector /\ l[2] \in Sites
      BY LinkFacts DEF Nothing, Vector
    <2>. QED
      BY <1>2, <1>3, <2>1 DEF Session
  <1>5. Sound(t)
    <2>1. Backed(t) /\ Marked(t.pusher, t.snapshot)
      BY <1>2, BackedEmpty, MarkedNothing
    <2>. QED
      BY <1>2, <1>3, <2>1 DEF Sound
  <1>. QED
    BY <1>1, <1>2, <1>4, <1>5

LEMMA HelloSound ==
    ASSUME TypeInv, ReplicationInv, NEW x \in Sessions, Hello(x)
    PROVE  \E t \in Session : Set(x, t) /\ Sound(t)
  <1>1. PICK s \in session[x] :
          Set(x, [s EXCEPT !.pc = "snapshot", !.vv[s.pusher] = Version(s.pusher)])
    BY DEF Hello
  <1>2. Sound(s) /\ s \in Session /\ s.pusher \in Sites /\ s.vv \in [Sites -> Vector]
    BY SessionTypes DEF ReplicationInv
  <1>3. PICK v \in Vector : v = Version(s.pusher) /\ Marked(s.pusher, v)
    BY <1>2, SiteVersion, MarkedVersion DEF TypeInv
  <1>4. PICK t : t = [s EXCEPT !.pc = "snapshot", !.vv[s.pusher] = v]
    OBVIOUS
  <1>5. /\ t \in Session
        /\ t.frames = s.frames /\ t.pusher = s.pusher /\ t.link = s.link
        /\ t.snapshot = s.snapshot /\ t.pc = "snapshot"
        /\ t.vv = [s.vv EXCEPT ![s.pusher] = v]
    BY <1>2, <1>3, <1>4 DEF Session
  <1>6. \A site \in Sites : Marked(site, t.vv[site])
    BY <1>2, <1>3, <1>5 DEF Sound
  <1>7. Backed(t)
    BY <1>2, <1>5, BackedSame DEF Sound
  <1>8. Sound(t)
    BY <1>2, <1>5, <1>6, <1>7 DEF Sound
  <1>. QED
    BY <1>1, <1>3, <1>4, <1>5, <1>8

LEMMA SnapshotSound ==
    ASSUME TypeInv, ReplicationInv, NEW x \in Sessions, Snapshot(x)
    PROVE  \E t \in Session : Set(x, t) /\ Sound(t)
  <1>1. PICK s \in session[x] :
          Set(x, [s EXCEPT !.pc = "collect", !.snapshot = Version(s.pusher)])
    BY DEF Snapshot
  <1>2. Sound(s) /\ s \in Session /\ s.pusher \in Sites
    BY SessionTypes DEF ReplicationInv
  <1>3. PICK v \in Vector : v = Version(s.pusher) /\ Marked(s.pusher, v)
    BY <1>2, SiteVersion, MarkedVersion DEF TypeInv
  <1>4. PICK t : t = [s EXCEPT !.pc = "collect", !.snapshot = v]
    OBVIOUS
  <1>5. /\ t \in Session
        /\ t.frames = s.frames /\ t.pusher = s.pusher /\ t.link = s.link
        /\ t.snapshot = v /\ t.pc = "collect" /\ t.vv = s.vv
    BY <1>2, <1>3, <1>4 DEF Session
  <1>6. Backed(t)
    BY <1>2, <1>5, BackedSame DEF Sound
  <1>7. Sound(t)
    BY <1>2, <1>3, <1>5, <1>6 DEF Sound
  <1>. QED
    BY <1>1, <1>3, <1>4, <1>5, <1>7

LEMMA ReceiveSound ==
    ASSUME TypeInv, ReplicationInv, NEW x \in Sessions, Receive(x)
    PROVE  Close(x) \/ \E t \in Session : Set(x, t) /\ Sound(t)
  <1>1. PICK s \in session[x] :
          /\ s.pc = "drain"
          /\ Set(x, [s EXCEPT !.pc = "merge"]) \/ Close(x)
    BY DEF Receive
  <1>2. Sound(s) /\ s \in Session
    BY SessionTypes DEF ReplicationInv
  <1>3. PICK t : t = [s EXCEPT !.pc = "merge"]
    OBVIOUS
  <1>4. /\ t \in Session
        /\ t.frames = s.frames /\ t.pusher = s.pusher /\ t.link = s.link
        /\ t.snapshot = s.snapshot /\ t.pc = "merge" /\ t.vv = s.vv
    BY <1>2, <1>3 DEF Session
  <1>5. Backed(t)
    BY <1>2, <1>4, BackedSame DEF Sound
  <1>6. Acknowledged(s) => Acknowledged(t)
    BY <1>4 DEF Acknowledged
  <1>7. Sound(t)
    BY <1>1, <1>2, <1>4, <1>5, <1>6 DEF Sound
  <1>. QED
    BY <1>1, <1>3, <1>4, <1>7

LEMMA AckSound ==
    ASSUME TypeInv, ReplicationInv, NEW x \in Sessions, Ack(x)
    PROVE  \E t \in Session : Set(x, t) /\ Sound(t)
  <1>1. PICK s \in session[x] :
          /\ s.pc = "drain" /\ s.frames = <<>>
          /\ Set(x, IF s.pusher = s.link[2]
                    THEN [s EXCEPT !.pc = "snapshot", !.pusher = s.link[1]]
                    ELSE [s EXCEPT !.pc = "status"])
    BY DEF Ack
  <1>2. Sound(s) /\ s \in Session /\ s.link[1] \in Sites
    BY SessionTypes DEF ReplicationInv
  <1>3. CASE s.pusher = s.link[2]
    <2>1. PICK t : t = [s EXCEPT !.pc = "snapshot", !.pusher = s.link[1]]
      OBVIOUS
    <2>2. /\ t \in Session
          /\ t.frames = <<>> /\ t.pusher = s.link[1] /\ t.link = s.link
          /\ t.snapshot = s.snapshot /\ t.pc = "snapshot" /\ t.vv = s.vv
      BY <1>1, <1>2, <2>1 DEF Session
    <2>3. Marked(t.pusher, t.snapshot)
      <3>1. s.pusher = s.link[1] \/ s.snapshot = Nothing
        BY <1>1, <1>2 DEF Sound
      <3>2. Marked(s.pusher, s.snapshot)
        BY <1>2 DEF Sound
      <3>. QED
        BY <2>2, <3>1, <3>2, MarkedNothing
    <2>4. Backed(t)
      BY <2>2, BackedEmpty
    <2>5. Sound(t)
      BY <1>2, <2>2, <2>3, <2>4 DEF Sound
    <2>. QED
      BY <1>1, <1>3, <2>1, <2>2, <2>5
  <1>4. CASE s.pusher # s.link[2]
    <2>1. PICK t : t = [s EXCEPT !.pc = "status"]
      OBVIOUS
    <2>2. /\ t \in Session
          /\ t.frames = <<>> /\ t.frames = s.frames /\ t.pusher = s.pusher
          /\ t.link = s.link /\ t.snapshot = s.snapshot /\ t.pc = "status" /\ t.vv = s.vv
      BY <1>1, <1>2, <2>1 DEF Session
    <2>3. s.pusher = s.link[1]
      BY <1>2, <1>4 DEF Sound
    <2>4. Backed(t)
      BY <2>2, BackedEmpty
    <2>5. Acknowledged(t)
      <3>1. Acknowledged(s)
        BY <1>1, <1>2, <2>3 DEF Sound
      <3>. QED
        BY <2>2, <3>1 DEF Acknowledged
    <2>6. Sound(t)
      BY <1>2, <2>2, <2>3, <2>4, <2>5 DEF Sound
    <2>. QED
      BY <1>1, <1>4, <2>1, <2>2, <2>6
  <1>. QED
    BY <1>3, <1>4

\* The peer's drain goes on, and nothing is counted as acknowledged.
LEMMA RemainsSound ==
    ASSUME NEW s \in Session, Sound(s), NEW site, NEW t \in Remains(s, site)
    PROVE  t \in Session /\ Sound(t) /\ Remains(s, site) = {t}
  <1>1. /\ s.pc \in {"drain", "merge"}
        /\ t = [s EXCEPT !.broken = TRUE, !.vv = [p \in Sites |-> Nothing],
                         !.snapshot = Nothing]
        /\ Remains(s, site) = {t}
    BY DEF Remains
  <1>2. Nothing \in Vector /\ [p \in Sites |-> Nothing] \in [Sites -> Vector]
    BY DEF Nothing, Vector
  <1>3. /\ t \in Session
        /\ t.frames = s.frames /\ t.pusher = s.pusher /\ t.link = s.link
        /\ t.snapshot = Nothing /\ t.pc = s.pc /\ t.vv = [p \in Sites |-> Nothing]
    BY <1>1, <1>2 DEF Session
  <1>4. Backed(t)
    BY <1>3, BackedSame DEF Sound
  <1>5. Acknowledged(t)
    <2>1. t.link[1] \in Nodes
      BY <1>3, DrainingFacts
    <2>. QED
      BY <1>3, <2>1 DEF Acknowledged, Nothing
  <1>6. /\ \A p \in Sites : Marked(p, t.vv[p])
        /\ Marked(t.pusher, t.snapshot)
    BY <1>3, MarkedNothing
  <1>7. Sound(t)
    BY <1>1, <1>3, <1>4, <1>5, <1>6 DEF Sound
  <1>. QED
    BY <1>1, <1>3, <1>7

LEMMA FailSound ==
    ASSUME TypeInv, ReplicationInv, NEW x \in Sessions, Fail(x)
    PROVE  Close(x) \/ \E t \in Session : Set(x, t) /\ Sound(t)
  <1>1. PICK s \in session[x] : \E site : session' = [session EXCEPT ![x] = Remains(s, site)]
    BY DEF Fail
  <1>2. PICK site : session' = [session EXCEPT ![x] = Remains(s, site)]
    BY <1>1
  <1>3. s \in Session /\ Sound(s)
    BY SessionTypes DEF ReplicationInv
  <1>4. CASE Remains(s, site) = {}
    BY <1>2, <1>4 DEF Close
  <1>5. ASSUME NEW t \in Remains(s, site) PROVE t \in Session /\ Set(x, t) /\ Sound(t)
    <2>1. t \in Session /\ Sound(t) /\ Remains(s, site) = {t}
      BY <1>3, RemainsSound
    <2>. QED
      BY <1>2, <2>1 DEF Set
  <1>. QED
    BY <1>4, <1>5

LEMMA RestartSound ==
    ASSUME TypeInv, SitesFit', Extended, ReplicationInv, NEW n \in Nodes, Restart(n)
    PROVE  \A x \in Sessions : \A s \in session'[x] : Sound(s)'
  <1>. SUFFICES ASSUME NEW x \in Sessions, NEW t \in session'[x] PROVE Sound(t)'
    OBVIOUS
  <1>. DEFINE left(s) == IF n \in {s.link[1], s.link[2]} THEN Remains(s, n) ELSE {s}
  <1>1. session'[x] = UNION {left(s) : s \in session[x]}
    BY DEF Restart
  <1>2. PICK s \in session[x] : t \in left(s)
    BY <1>1
  <1>3. s \in Session /\ Sound(s)
    BY SessionTypes DEF ReplicationInv
  <1>4. t \in Session /\ Sound(t)
    <2>1. CASE t = s
      BY <1>3, <2>1
    <2>2. CASE t \in Remains(s, n)
      BY <1>3, <2>2, RemainsSound
    <2>. QED
      BY <1>2, <2>1, <2>2
  <1>. QED
    BY <1>4, SoundStays

LEMMA CursorsAdvance ==
    ASSUME TypeInv, ReplicationInv, Extended, [Next]_vars PROVE CursorsSound'
  <1>0. CursorsSound
    BY DEF ReplicationInv
  <1>1. CASE UNCHANGED cursor
    BY <1>0, <1>1, LinkFacts DEF CursorsSound, Extended
  <1>2. ASSUME NEW x \in Sessions, Finish(x) PROVE CursorsSound'
    <2>1. PICK s \in session[x] :
            /\ s.pc = "status"
            /\ cursor' = [cursor EXCEPT ![s.link] = s.snapshot[s.link[1]]]
      BY <1>2 DEF Finish
    <2>2. Sound(s) /\ s.link \in Links
      BY SessionTypes DEF ReplicationInv
    <2>3. Acknowledged(s) /\ s.frames = <<>>
      BY <2>1, <2>2 DEF Sound
    <2>4. \A r : ~ InFrames(s.frames, r)
      BY <2>3 DEF InFrames
    <2>5. \/ s.snapshot[s.link[1]] = 0
          \/ \E r \in held[s.link[2]] :
               r.author = s.link[1] /\ r.seq = s.snapshot[s.link[1]]
      BY <2>3, <2>4 DEF Acknowledged
    <2>6. \A l \in Links : cursor'[l] = IF l = s.link THEN s.snapshot[s.link[1]] ELSE cursor[l]
      BY <2>1 DEF TypeInv, CountersFit
    <2>. QED
      BY <1>0, <2>5, <2>6, LinkFacts DEF CursorsSound, Extended
  <1>3. ASSUME NEW x \in Sessions,
               \/ Hello(x) \/ Snapshot(x) \/ Collect(x) \/ Receive(x) \/ Merge(x) \/ Ack(x)
               \/ Drop(x) \/ Fail(x)
        PROVE  UNCHANGED cursor
    BY <1>3 DEF Hello, Snapshot, Collect, Receive, Merge, Ack, Drop, Fail
  <1>4. ASSUME NEW n \in Nodes, StampCommand(n) \/ AppendRecord(n) \/ Refuse(n) \/ Restart(n)
        PROVE  UNCHANGED cursor
    BY <1>4 DEF StampCommand, AppendRecord, Refuse, Restart
  <1>5. ASSUME Tick \/ (\E l \in Links : Dial(l)) \/ UNCHANGED vars PROVE UNCHANGED cursor
    BY <1>5 DEF Tick, Dial, vars
  <1>. QED
    BY <1>1, <1>2, <1>3, <1>4, <1>5 DEF Next, Step

\* What an author's log has up to a mark of the drainer, the drainer has.
LEMMA UpToMark ==
    ASSUME TypeInv, LogsSound, NEW d \in Sites, NEW mark \in Vector, Marked(d, mark),
           NEW a \in Nodes, NEW q \in Of(a, held[a]), q.seq <= mark[a]
    PROVE  q \in held[d]
  <1>1. q.author = a /\ q.seq \in Nat \ {0} /\ mark[a] \in Nat
    BY HeldTypes DEF Of, Sites, Vector
  <1>2. PICK p \in held[d] : p.author = a /\ p.seq = mark[a]
    BY <1>1 DEF Marked
  <1>. QED
    BY <1>2 DEF LogsSound

\* Of two places in batches of the same size the first is in an earlier batch, or earlier
\* in the same.
LEMMA PlaceOrder ==
    ASSUME NEW b \in Nat \ {0}, NEW i \in Nat \ {0}, NEW j \in 1..b,
           NEW k \in Nat \ {0}, NEW m \in 1..b, (k - 1) * b + m < (i - 1) * b + j
    PROVE  k < i \/ (k = i /\ m < j)
  <1>1. (k - 1) * b \in Nat /\ (i - 1) * b \in Nat
    BY Products
  <1>2. PICK x \in Nat : x = (i - 1) * b
    BY <1>1
  <1>3. PICK y \in Nat : y = (k - 1) * b
    BY <1>1
  <1>4. CASE k = i
    BY <1>2, <1>3, <1>4
  <1>5. CASE i < k
    <2>1. i - 1 \in Nat /\ i \in Nat /\ k - 1 \in Nat /\ i <= k - 1
      BY <1>5
    <2>2. i * b <= (k - 1) * b /\ i * b \in Nat
      BY <2>1, Products
    <2>3. i * b = (i - 1) * b + b
      OBVIOUS
    <2>4. x + b <= y
      BY <1>2, <1>3, <2>2, <2>3
    <2>. QED
      BY <1>2, <1>3, <2>4
  <1>. QED
    BY <1>4, <1>5

\* The j-th record of the i-th batch.
LEMMA BatchPlaces ==
    ASSUME NEW S, NEW recs \in Seq(S), NEW f, f = Batches(recs), NEW i \in 1..Len(f)
    PROVE  /\ Len(f[i]) \in 1..BatchSize
           /\ \A j \in 1..Len(f[i]) :
                 /\ (i - 1) * BatchSize + j \in 1..Len(recs)
                 /\ f[i][j] = recs[(i - 1) * BatchSize + j]
  <1>. DEFINE n == (Len(recs) + BatchSize - 1) \div BatchSize
  <1>0. BatchSize \in Nat \ {0} /\ Len(recs) \in Nat
    BY ReplicationAssumption
  <1>1. /\ Len(f) = n
        /\ \A k \in 1..n :
              /\ (k - 1) * BatchSize \in Nat
              /\ Len(f[k]) \in 1..BatchSize
              /\ (k - 1) * BatchSize + Len(f[k]) <= Len(recs)
              /\ \A j \in 1..Len(f[k]) : f[k][j] = recs[(k - 1) * BatchSize + j]
    BY ZenonT(30), BatchFacts
  <1>. HIDE DEF n
  <1>2. i \in 1..n
    BY <1>1
  <1>3. PICK x \in Nat : x = (i - 1) * BatchSize
    BY <1>1, <1>2
  <1>4. PICK m \in 1..BatchSize : m = Len(f[i])
    BY <1>1, <1>2
  <1>5. x + m <= Len(recs)
    BY <1>1, <1>2, <1>3, <1>4
  <1>6. \A j \in 1..m : x + j \in 1..Len(recs)
    BY <1>0, <1>5
  <1>. QED
    BY <1>1, <1>2, <1>3, <1>4, <1>6

\* What has been read is in the frames, an author's records in the order of their numbers.
LEMMA CollectBacked ==
    ASSUME TypeInv, ReplicationInv, NEW s \in Session, Sound(s),
           NEW t \in Session, t.frames = Batches(Missing(s)),
           t.pusher = s.pusher, t.link = s.link
    PROVE  /\ Backed(t)
           /\ \A r \in ToSend(s) : InFrames(t.frames, r)
  <1>. DEFINE b == BatchSize
              to == ToSend(s)
  <1>0. b \in Nat \ {0}
    BY ReplicationAssumption
  <1>1. PICK d \in Sites : d = Draining(s) /\ d = Draining(t)
    BY DrainingFacts DEF Draining
  <1>2. /\ s.pusher \in Sites /\ s.vv[d] \in Vector
    BY DEF Session
  <1>3. LogsSound /\ Marked(d, s.vv[d])
    BY DEF ReplicationInv, Sound
  <1>4. /\ to \subseteq held[s.pusher] /\ to \in SUBSET Record
        /\ IsFiniteSet(to) /\ Apart(to) /\ Missing(s) = Sorted(to)
    BY ToSendFacts
  <1>5. PICK recs \in Seq(to) : recs = Missing(s)
    BY ToSendFacts
  <1>6. /\ \A r \in to : \E i \in 1..Len(recs) : recs[i] = r
        /\ \A r, q \in to : \A i \in 1..Len(recs) :
              recs[i] = r /\ Less(q, r) => \E j \in 1..(i - 1) : recs[j] = q
    BY SMTT(30), <1>4, <1>5, SortedFacts
  <1>7. PICK f : f = t.frames /\ f = Batches(recs)
    BY <1>5
  <1>. HIDE DEF to
  <1>8. /\ Len(f) \in Nat /\ DOMAIN f = 1..Len(f)
        /\ \A i \in 1..Len(f) :
              /\ Len(f[i]) \in 1..b /\ DOMAIN f[i] = 1..Len(f[i])
              /\ \A j \in 1..Len(f[i]) :
                    /\ (i - 1) * b + j \in 1..Len(recs)
                    /\ f[i][j] = recs[(i - 1) * b + j]
    <2>1. f \in Seq(Seq(to))
      BY <1>7, BatchFacts
    <2>2. DOMAIN f = 1..Len(f) /\ Len(f) \in Nat
      BY <2>1
    <2>3. \A i \in 1..Len(f) : DOMAIN f[i] = 1..Len(f[i])
      <3>1. \A i \in 1..Len(f) : f[i] \in Seq(to)
        BY <2>1
      <3>. QED
        BY <3>1
    <2>4. ASSUME NEW i \in 1..Len(f)
          PROVE  /\ Len(f[i]) \in 1..b
                 /\ \A j \in 1..Len(f[i]) :
                       /\ (i - 1) * b + j \in 1..Len(recs)
                       /\ f[i][j] = recs[(i - 1) * b + j]
      <3>. QED
        BY SMTT(30), <1>7, BatchPlaces
    <2>. QED
      BY <2>2, <2>3, <2>4
  <1>9. ASSUME NEW k \in 1..Len(recs)
        PROVE  \E i \in 1..Len(f) : \E j \in 1..Len(f[i]) :
                  k = (i - 1) * b + j /\ f[i][j] = recs[k]
    <2>1. PICK i \in 1..Len(f) : \E j \in 1..Len(f[i]) : k = (i - 1) * b + j
      BY <1>7, BatchedAll
    <2>2. PICK j \in 1..Len(f[i]) : k = (i - 1) * b + j
      BY <2>1
    <2>3. f[i][j] = recs[k]
      BY <1>8, <2>2
    <2>. QED
      BY <2>2, <2>3
  <1>10. \A r \in to : InFrames(f, r)
    <2>. SUFFICES ASSUME NEW r \in to PROVE InFrames(f, r)
      OBVIOUS
    <2>1. PICK k \in 1..Len(recs) : recs[k] = r
      BY <1>6
    <2>2. \E i \in 1..Len(f) : \E j \in 1..Len(f[i]) : f[i][j] = r
      BY <1>9, <2>1
    <2>. QED
      BY <1>8, <2>2 DEF InFrames
  <1>11. ASSUME NEW i \in 1..Len(f), NEW j \in 1..Len(f[i]), NEW r, r = f[i][j]
         PROVE  /\ r \in held[r.author]
                /\ \A q \in Of(r.author, held[r.author]) :
                      q.seq < r.seq => q \in held[d] \/ Earlier(f, i, j, q)
    <2>1. PICK k \in 1..Len(recs) : k = (i - 1) * b + j /\ recs[k] = r
      BY <1>8, <1>11
    <2>2. r \in to
      BY <2>1
    <2>3. r \in held[s.pusher]
      BY <1>4, <2>2
    <2>4. /\ r \in Record /\ r.author \in Nodes /\ r.author \in Sites
          /\ r.seq \in Nat /\ r \in held[r.author]
      BY <1>2, <1>3, <2>3, HeldTypes DEF LogsSound
    <2>5. r \in Of(r.author, held[r.author])
      BY <2>4 DEF Of
    <2>6. ASSUME NEW q \in Of(r.author, held[r.author]), q.seq < r.seq, q \notin held[d]
          PROVE  Earlier(f, i, j, q)
      <3>1. q \in held[r.author] /\ q.author = r.author /\ q \in Record /\ q.seq \in Nat
        BY <2>4, HeldTypes DEF Of
      <3>2. q \in held[s.pusher]
        BY <1>2, <1>3, <2>3, <2>4, <2>6, <3>1 DEF LogsSound
      <3>3. q.seq > s.vv[d][q.author]
        <4>1. s.vv[d][q.author] \in Nat
          BY <1>2, <2>4, <3>1 DEF Vector
        <4>. QED
          BY SMTT(30), <1>2, <1>3, <2>4, <2>6, <3>1, <4>1, UpToMark
      <3>4. q.seq <= s.snapshot[q.author]
        <4>1. r.seq <= s.snapshot[r.author]
          BY <2>2 DEF to, ToSend
        <4>2. s.snapshot[r.author] \in Nat
          BY <2>4 DEF Session, Vector
        <4>. QED
          BY <2>4, <2>6, <3>1, <4>1, <4>2
      <3>5. q \in to
        BY <1>1, <3>2, <3>3, <3>4 DEF to, ToSend, Since
      <3>6. Less(q, r)
        BY <1>3, <2>4, <2>5, <2>6 DEF LogsSound, Less
      <3>7. PICK m \in 1..(k - 1) : recs[m] = q
        <4>1. recs[k] = r
          BY <2>1
        <4>2. recs[k] = r /\ Less(q, r) => \E m \in 1..(k - 1) : recs[m] = q
          BY ONLY <1>6, <2>2, <3>5, k \in 1..Len(recs)
        <4>. QED
          BY <3>6, <4>1, <4>2
      <3>8. m \in 1..Len(recs) /\ m < k
        OBVIOUS
      <3>9. PICK i2 \in 1..Len(f) : \E j2 \in 1..Len(f[i2]) :
              m = (i2 - 1) * b + j2 /\ f[i2][j2] = recs[m]
        BY <1>9, <3>8
      <3>10. PICK j2 \in 1..Len(f[i2]) : m = (i2 - 1) * b + j2 /\ f[i2][j2] = q
        BY <3>7, <3>9
      <3>11. i2 < i \/ (i2 = i /\ j2 < j)
        <4>1. (i2 - 1) * b + j2 < (i - 1) * b + j
          <5>1. (i2 - 1) * b + j2 = m /\ (i - 1) * b + j = k
            BY <2>1, <3>10
          <5>. QED
            BY <3>8, <5>1
        <4>2. i \in Nat \ {0} /\ i2 \in Nat \ {0}
          BY <1>8
        <4>3. Len(f[i]) \in 1..b /\ Len(f[i2]) \in 1..b
          BY <1>8
        <4>4. j \in 1..b /\ j2 \in 1..b
          BY <1>0, <4>3
        <4>. QED
          BY <1>0, <4>1, <4>2, <4>4, PlaceOrder
      <3>12. CASE i2 < i
        <4>1. i2 \in 1..(i - 1) /\ j2 \in DOMAIN f[i2]
          BY <1>8, <3>12
        <4>. QED
          BY <3>10, <4>1 DEF Earlier
      <3>13. CASE i2 = i /\ j2 < j
        <4>1. j2 \in 1..(j - 1)
          BY <1>8, <3>13
        <4>. QED
          BY <3>10, <3>13, <4>1 DEF Earlier
      <3>. QED
        BY <3>11, <3>12, <3>13
    <2>. QED
      BY <2>4, <2>6
  <1>12. Backed(t)
    <2>1. ASSUME NEW i \in DOMAIN t.frames, NEW j \in DOMAIN t.frames[i],
                 NEW r, r = t.frames[i][j]
          PROVE  /\ r \in held[r.author]
                 /\ \A q \in Of(r.author, held[r.author]) :
                       q.seq < r.seq => q \in held[Draining(t)] \/ Earlier(t.frames, i, j, q)
      <3>1. i \in 1..Len(f) /\ j \in 1..Len(f[i]) /\ r = f[i][j]
        BY ONLY <1>7, <1>8, <2>1
      <3>2. /\ r \in held[r.author]
            /\ \A q \in Of(r.author, held[r.author]) :
                  q.seq < r.seq => q \in held[d] \/ Earlier(f, i, j, q)
        BY ONLY <1>11, <3>1
      <3>. QED
        BY ONLY <1>1, <1>7, <3>2
    <2>. QED
      BY ONLY <2>1 DEF Backed
  <1>. QED
    BY <1>7, <1>10, <1>12 DEF to

LEMMA CollectSound ==
    ASSUME TypeInv, ReplicationInv, NEW x \in Sessions, Collect(x)
    PROVE  \E t \in Session : Set(x, t) /\ Sound(t)
  <1>1. PICK s \in session[x] :
          /\ s.pc = "collect"
          /\ Set(x, [s EXCEPT !.pc = "drain", !.frames = Batches(Missing(s)),
                              !.vv[Draining(s)] = Nothing,
                              !.snapshot = IF s.pusher = s.link[1] THEN @ ELSE Nothing])
    BY DEF Collect
  <1>2. /\ Sound(s) /\ s \in Session /\ s.pusher \in Sites /\ s.vv \in [Sites -> Vector]
        /\ s.snapshot \in Vector /\ s.link[1] \in Nodes /\ s.link[1] \in Sites
    BY SessionTypes DEF ReplicationInv
  <1>3. Nothing \in Vector
    BY DEF Nothing, Vector
  <1>4. PICK f \in Seq(Seq(Record)) : f = Batches(Missing(s))
    <2>1. Missing(s) \in Seq(LawfulRecord)
      BY <1>2, ToSendFacts
    <2>2. Missing(s) \in Seq(Record)
      BY <2>1, CommandFacts
    <2>. QED
      BY <2>2, BatchFacts
  <1>5. PICK d \in Sites : d = Draining(s)
    BY <1>2, DrainingFacts
  <1>6. PICK v \in Vector : v = IF s.pusher = s.link[1] THEN s.snapshot ELSE Nothing
    BY <1>2, <1>3
  <1>7. PICK t : t = [s EXCEPT !.pc = "drain", !.frames = f, !.vv[d] = Nothing,
                               !.snapshot = v]
    OBVIOUS
  <1>8. /\ t \in Session /\ t.frames = f /\ t.pusher = s.pusher /\ t.link = s.link
        /\ t.pc = "drain" /\ t.snapshot = v /\ t.vv = [s.vv EXCEPT ![d] = Nothing]
    BY <1>2, <1>3, <1>7 DEF Session
  <1>9. Set(x, t)
    BY <1>1, <1>2, <1>4, <1>5, <1>6, <1>7 DEF Session
  <1>10. Backed(t) /\ \A r \in ToSend(s) : InFrames(t.frames, r)
    BY <1>2, <1>4, <1>8, CollectBacked
  <1>11. /\ \A site \in Sites : Marked(site, t.vv[site])
         /\ Marked(t.pusher, t.snapshot)
    <2>1. \A site \in Sites : Marked(site, IF site = d THEN Nothing ELSE s.vv[site])
      BY <1>2, MarkedNothing DEF Sound
    <2>2. \A site \in Sites : t.vv[site] = IF site = d THEN Nothing ELSE s.vv[site]
      BY <1>2, <1>8
    <2>3. Marked(t.pusher, t.snapshot)
      BY <1>2, <1>6, <1>8, MarkedNothing DEF Sound
    <2>. QED
      BY <2>1, <2>2, <2>3
  <1>12. ASSUME s.pusher = s.link[1] PROVE Acknowledged(t)
    <2>. DEFINE own == s.link[1]
    <2>1. d = s.link[2] /\ v = s.snapshot
      BY <1>5, <1>6, <1>12 DEF Draining
    <2>2. CASE v[own] = 0
      BY <1>8, <2>2 DEF Acknowledged
    <2>3. CASE v[own] # 0
      <3>1. PICK r \in held[own] : r.author = own /\ r.seq = v[own]
        BY <1>2, <1>12, <2>1, <2>3 DEF Sound, Marked
      <3>2. r \in Of(own, held[own]) /\ r.seq \in Nat /\ r.seq <= s.snapshot[r.author]
        BY <1>2, <2>1, <3>1, HeldTypes DEF Of
      <3>3. CASE r.seq <= s.vv[d][own]
        <4>1. s.vv[d] \in Vector /\ Marked(d, s.vv[d]) /\ LogsSound
          BY <1>2 DEF Sound, ReplicationInv
        <4>2. r \in held[d]
          BY <1>2, <3>2, <3>3, <4>1, UpToMark
        <4>. QED
          BY <1>8, <2>1, <3>1, <4>2 DEF Acknowledged
      <3>4. CASE ~ (r.seq <= s.vv[d][own])
        <4>1. s.vv[d][own] \in Nat
          BY <1>2 DEF Vector
        <4>2. r \in ToSend(s)
          BY <1>5, <1>12, <3>1, <3>2, <3>4, <4>1 DEF ToSend, Since
        <4>3. InFrames(t.frames, r)
          BY <1>10, <4>2
        <4>. QED
          BY <1>8, <3>1, <4>3 DEF Acknowledged
      <3>. QED
        BY <3>3, <3>4
    <2>. QED
      BY <2>2, <2>3
  <1>13. Sound(t)
    <2>1. t.pusher \in {t.link[1], t.link[2]}
      BY <1>2, <1>8 DEF Sound
    <2>2. t.pusher # t.link[1] => t.snapshot = Nothing
      BY <1>6, <1>8
    <2>. QED
      BY <1>8, <1>10, <1>11, <1>12, <2>1, <2>2 DEF Sound
  <1>. QED
    BY <1>8, <1>9, <1>13

\* The frames g hold the records of f except r, in the same order.
Shifted(f, g, r) ==
    /\ \A i \in DOMAIN g : \A j \in DOMAIN g[i] :
          \E k \in DOMAIN f : \E m \in DOMAIN f[k] :
             /\ f[k][m] = g[i][j]
             /\ \A q : Earlier(f, k, m, q) => q = r \/ Earlier(g, i, j, q)
    /\ \A q : InFrames(f, q) => q = r \/ InFrames(g, q)

LEMMA FramesShift ==
    ASSUME NEW s, Fits(s), s.pc = "merge"
    PROVE  Shifted(s.frames, Taken(s).frames, Head(Head(s.frames)))
  <1>. PICK f, g, r : f = s.frames /\ g = Taken(s).frames /\ r = Head(Head(f))
    OBVIOUS
  <1>. SUFFICES Shifted(f, g, r)
    OBVIOUS
  <1>1. f \in Seq(Batch) /\ f # <<>> /\ s \in Session
    BY DEF Fits
  <1>2. PICK n \in Nat \ {0} : n = Len(f) /\ DOMAIN f = 1..n
    BY <1>1
  <1>3. PICK batch \in Batch : batch = Head(f) /\ batch = f[1]
    BY <1>1
  <1>4. PICK size \in Nat \ {0} : size = Len(batch) /\ DOMAIN batch = 1..size
    <2>1. batch \in Seq(LawfulRecord) /\ batch # <<>>
      BY DEF Batch
    <2>. QED
      BY <2>1
  <1>5. r = f[1][1]
    BY <1>3 DEF Batch
  <1>6. CASE size = 1
    <2>1. g = Tail(f)
      <3>1. Taken(s) = [s EXCEPT !.pc = "drain", !.frames = Tail(@)]
        BY <1>3, <1>4, <1>6, TakenFacts
      <3>. QED
        BY <1>1, <3>1 DEF Session
    <2>2. DOMAIN g = 1..(n - 1) /\ \A i \in 1..(n - 1) : g[i] = f[i + 1]
      BY <1>1, <1>2, <2>1
    <2>3. ASSUME NEW i \in DOMAIN g, NEW j \in DOMAIN g[i]
          PROVE  /\ i + 1 \in DOMAIN f /\ j \in DOMAIN f[i + 1] /\ f[i + 1][j] = g[i][j]
                 /\ \A q : Earlier(f, i + 1, j, q) => q = r \/ Earlier(g, i, j, q)
      <3>1. i \in 1..(n - 1) /\ i + 1 \in 1..n /\ g[i] = f[i + 1]
        BY <2>2
      <3>2. ASSUME NEW q, Earlier(f, i + 1, j, q), q # r PROVE Earlier(g, i, j, q)
        <4>1. CASE \E k \in 1..(j - 1) : f[i + 1][k] = q
          BY <3>1, <4>1 DEF Earlier
        <4>2. ASSUME NEW b \in 1..i, NEW k \in DOMAIN f[b], f[b][k] = q
              PROVE  Earlier(g, i, j, q)
          <5>1. b # 1
            BY <1>3, <1>4, <1>5, <1>6, <3>2, <4>2
          <5>2. b - 1 \in 1..(i - 1) /\ b - 1 \in 1..(n - 1) /\ (b - 1) + 1 = b
            BY <1>2, <3>1, <5>1
          <5>3. g[b - 1] = f[b]
            BY <2>2, <5>2
          <5>. QED
            BY <4>2, <5>2, <5>3 DEF Earlier
        <4>3. (i + 1) - 1 = i
          BY <3>1
        <4>. QED
          BY <3>2, <4>1, <4>2, <4>3 DEF Earlier
      <3>. QED
        BY <1>2, <3>1, <3>2
    <2>4. ASSUME NEW k \in DOMAIN f, NEW m \in DOMAIN f[k], f[k][m] # r
          PROVE  InFrames(g, f[k][m])
      <3>1. k # 1
        BY <1>3, <1>4, <1>5, <1>6, <2>4
      <3>2. k - 1 \in 1..(n - 1) /\ (k - 1) + 1 = k
        BY <1>2, <3>1
      <3>3. g[k - 1] = f[k]
        BY <2>2, <3>2
      <3>. QED
        BY <2>2, <3>2, <3>3 DEF InFrames
    <2>5. \A i \in DOMAIN g : \A j \in DOMAIN g[i] :
                \E k \in DOMAIN f : \E m \in DOMAIN f[k] :
                   /\ f[k][m] = g[i][j]
                   /\ \A q : Earlier(f, k, m, q) => q = r \/ Earlier(g, i, j, q)
      BY <2>3
    <2>6. \A q : InFrames(f, q) => q = r \/ InFrames(g, q)
      BY <2>4 DEF InFrames
    <2>. QED
      BY <2>5, <2>6 DEF Shifted
  <1>7. CASE size # 1
    <2>1. g = <<Tail(batch)>> \o Tail(f)
      <3>1. Taken(s) = [s EXCEPT !.pc = "merge", !.frames = <<Tail(batch)>> \o Tail(@)]
        BY <1>3, <1>4, <1>7, TakenFacts
      <3>. QED
        BY <1>1, <3>1 DEF Session
    <2>2. PICK rest \in Seq(Batch) : rest = Tail(f) /\ Len(rest) = n - 1
      <3>1. Tail(f) \in Seq(Batch) /\ Len(Tail(f)) = n - 1
        BY <1>1, <1>2
      <3>. QED
        BY <3>1
    <2>3. PICK other : other = Tail(batch) /\ DOMAIN other = 1..(size - 1)
                       /\ \A j \in 1..(size - 1) : other[j] = batch[j + 1]
      <3>1. batch \in Seq(LawfulRecord) /\ batch # <<>>
        BY DEF Batch
      <3>2. Len(Tail(batch)) = size - 1 /\ Tail(batch) \in Seq(LawfulRecord)
        BY <1>4, <3>1
      <3>3. DOMAIN Tail(batch) = 1..(size - 1)
        BY <3>2
      <3>4. \A j \in 1..(size - 1) : Tail(batch)[j] = batch[j + 1]
        BY <1>4, <3>1
      <3>. QED
        BY <3>3, <3>4
    <2>4. \A i \in 1..(n - 1) : rest[i] = f[i + 1]
      BY <1>1, <1>2, <2>2
    <2>5. g = <<other>> \o rest
      BY <2>1, <2>2, <2>3
    <2>6. /\ DOMAIN g = 1..n /\ g[1] = other
          /\ \A i \in 2..n : g[i] = f[i]
      <3>1. DOMAIN g = 1..n /\ g[1] = other
        BY <2>2, <2>5
      <3>2. \A i \in 2..n : g[i] = rest[i - 1]
        BY <2>2, <2>5
      <3>3. \A i \in 2..n : rest[i - 1] = f[i]
        BY <2>4
      <3>. QED
        BY <3>1, <3>2, <3>3
    <2>7. ASSUME NEW q, NEW b \in 1..n, NEW k \in DOMAIN f[b], f[b][k] = q, q # r
          PROVE  \E m \in DOMAIN g[b] : g[b][m] = q
      <3>1. CASE b = 1
        <4>1. k \in 1..size /\ k # 1 /\ batch[k] = q
          BY <1>3, <1>4, <1>5, <2>7, <3>1
        <4>2. k - 1 \in 1..(size - 1) /\ (k - 1) + 1 = k
          BY <1>4, <4>1
        <4>3. other[k - 1] = q
          BY <2>3, <4>1, <4>2
        <4>. QED
          BY <2>3, <2>6, <3>1, <4>2, <4>3
      <3>2. CASE b # 1
        BY <1>2, <2>6, <2>7, <3>2
      <3>. QED
        BY <3>1, <3>2
    <2>8. ASSUME NEW i \in DOMAIN g, NEW j \in DOMAIN g[i], i # 1
          PROVE  /\ i \in DOMAIN f /\ j \in DOMAIN f[i] /\ f[i][j] = g[i][j]
                 /\ \A q : Earlier(f, i, j, q) => q = r \/ Earlier(g, i, j, q)
      <3>1. i \in 1..n /\ g[i] = f[i]
        BY <2>6, <2>8
      <3>2. ASSUME NEW q, Earlier(f, i, j, q), q # r PROVE Earlier(g, i, j, q)
        <4>1. CASE \E k \in 1..(j - 1) : f[i][k] = q
          BY <3>1, <4>1 DEF Earlier
        <4>2. ASSUME NEW b \in 1..(i - 1), NEW k \in DOMAIN f[b], f[b][k] = q
              PROVE  Earlier(g, i, j, q)
          <5>1. b \in 1..n
            BY <1>2, <3>1
          <5>2. \E m \in DOMAIN g[b] : g[b][m] = q
            BY ZenonT(30), <2>7, <3>2, <4>2, <5>1
          <5>. QED
            BY <5>2 DEF Earlier
        <4>. QED
          BY <3>2, <4>1, <4>2 DEF Earlier
      <3>. QED
        BY <1>2, <3>1, <3>2
    <2>9. ASSUME NEW j \in DOMAIN g[1]
          PROVE  /\ 1 \in DOMAIN f /\ j + 1 \in DOMAIN f[1] /\ f[1][j + 1] = g[1][j]
                 /\ \A q : Earlier(f, 1, j + 1, q) => q = r \/ Earlier(g, 1, j, q)
      <3>1. j \in 1..(size - 1) /\ j + 1 \in 1..size /\ g[1][j] = f[1][j + 1]
        BY <1>3, <1>4, <2>3, <2>6
      <3>2. ASSUME NEW q, Earlier(f, 1, j + 1, q), q # r PROVE Earlier(g, 1, j, q)
        <4>1. PICK k \in 1..j : f[1][k] = q
          BY <3>1, <3>2 DEF Earlier
        <4>2. k # 1
          BY <1>5, <3>2, <4>1
        <4>3. k - 1 \in 1..(j - 1) /\ k - 1 \in 1..(size - 1) /\ (k - 1) + 1 = k
          BY <3>1, <4>2
        <4>4. g[1][k - 1] = q
          BY <1>3, <2>3, <2>6, <4>1, <4>3
        <4>. QED
          BY <4>3, <4>4 DEF Earlier
      <3>. QED
        BY <1>2, <1>3, <1>4, <3>1, <3>2
    <2>10. ASSUME NEW k \in DOMAIN f, NEW m \in DOMAIN f[k], f[k][m] # r
           PROVE  InFrames(g, f[k][m])
      BY SMTT(30), <1>2, <2>6, <2>7, <2>10 DEF InFrames
    <2>11. \A i \in DOMAIN g : \A j \in DOMAIN g[i] :
                \E k \in DOMAIN f : \E m \in DOMAIN f[k] :
                   /\ f[k][m] = g[i][j]
                   /\ \A q : Earlier(f, k, m, q) => q = r \/ Earlier(g, i, j, q)
      <3>. SUFFICES ASSUME NEW i \in DOMAIN g, NEW j \in DOMAIN g[i]
                    PROVE  \E k \in DOMAIN f : \E m \in DOMAIN f[k] :
                             /\ f[k][m] = g[i][j]
                             /\ \A q : Earlier(f, k, m, q) => q = r \/ Earlier(g, i, j, q)
        OBVIOUS
      <3>1. CASE i = 1
        BY <2>9, <3>1
      <3>2. CASE i # 1
        BY <2>8, <3>2
      <3>. QED
        BY <3>1, <3>2
    <2>12. \A q : InFrames(f, q) => q = r \/ InFrames(g, q)
      BY <2>10 DEF InFrames
    <2>. QED
      BY <2>11, <2>12 DEF Shifted
  <1>. QED
    BY <1>6, <1>7

LEMMA MergeSound ==
    ASSUME TypeInv, TypeInv', ReplicationInv, Extended, NEW x \in Sessions, Merge(x)
    PROVE  \E t \in Session : Set(x, t) /\ Sound(t)'
  <1>1. PICK s \in session[x], r \in LawfulRecord :
          /\ s.pc = "merge" /\ Fits(s) /\ Set(x, Taken(s))
          /\ r = Head(Head(s.frames)) /\ r.author # Draining(s) /\ Draining(s) \in Sites
          /\ \/ Stored(Draining(s), r) /\ UNCHANGED <<held, balance, clk>>
             \/ /\ ~ Stored(Draining(s), r)
                /\ held' = [held EXCEPT ![Draining(s)] = @ \cup {r}]
                /\ \/ /\ Draining(s) = Central
                      /\ UNCHANGED <<balance, clk>>
                   \/ /\ Draining(s) \in Nodes
                      /\ balance' = [balance EXCEPT ![Draining(s)] = Apply(@, r.op)]
                      /\ clk' = [clk EXCEPT ![Draining(s)] = Observe(Draining(s), r.at)]
          /\ UNCHANGED <<pending, cursor, now, failures, net>>
    BY MergeFacts
  <1>2. PICK d \in Sites : d = Draining(s)
    BY <1>1
  <1>3. Sound(s) /\ s \in Session /\ LogsSound /\ s.link[1] \in Sites
    BY SessionTypes DEF ReplicationInv
  <1>4. r \in held[r.author] /\ r.author \in Nodes
    BY <1>1, <1>3, HeadFacts
  <1>5. r \in held'[d]
    <2>1. ASSUME NEW q \in held[d], q.author = r.author, q.seq = r.seq PROVE q = r
      <3>1. q \in held[r.author] /\ r.author \in Sites
        BY <1>3, <1>4, <2>1 DEF LogsSound, Sites
      <3>. QED
        BY <1>4, <2>1, <3>1 DEF TypeInv, SitesFit, Apart
    <2>2. CASE Stored(d, r) /\ UNCHANGED held
      BY <2>1, <2>2 DEF Stored
    <2>3. CASE held' = [held EXCEPT ![d] = @ \cup {r}]
      BY <2>3 DEF TypeInv, SitesFit
    <2>. QED
      BY <1>1, <1>2, <2>2, <2>3
  <1>6. PICK t : t = Taken(s)
    OBVIOUS
  <1>7. /\ t \in Session /\ t.pusher = s.pusher /\ t.link = s.link /\ t.vv = s.vv
        /\ t.snapshot = s.snapshot /\ t.pc \in {"drain", "merge"}
    <2>1. t \in Session
      BY <1>1, <1>6, TakenFacts DEF Fits
    <2>2. t = [s EXCEPT !.pc = t.pc, !.frames = t.frames] /\ t.pc \in {"drain", "merge"}
      <3>1. \E pc \in {"drain", "merge"} : \E f : t = [s EXCEPT !.pc = pc, !.frames = f]
        BY <1>6 DEF Taken
      <3>2. PICK pc \in {"drain", "merge"} : \E f : t = [s EXCEPT !.pc = pc, !.frames = f]
        BY <3>1
      <3>3. PICK f : t = [s EXCEPT !.pc = pc, !.frames = f]
        BY <3>2
      <3>4. t.pc = pc /\ t.frames = f
        BY <1>3, <3>3 DEF Session
      <3>. QED
        BY <3>3, <3>4
    <2>. QED
      BY <1>3, <2>1, <2>2 DEF Session
  <1>8. Sound(s)'
    BY <1>3, SoundStays DEF TypeInv
  <1>9. Draining(t) = d /\ Draining(t)' = d /\ Draining(s)' = d
    BY <1>2, <1>7 DEF Draining
  <1>10. PICK f, g : f = s.frames /\ g = t.frames
    OBVIOUS
  <1>11. /\ \A i \in DOMAIN g : \A j \in DOMAIN g[i] :
              \E k \in DOMAIN f : \E m \in DOMAIN f[k] :
                 /\ f[k][m] = g[i][j]
                 /\ \A q : Earlier(f, k, m, q) => q = r \/ Earlier(g, i, j, q)
         /\ \A q : InFrames(f, q) => q = r \/ InFrames(g, q)
    <2>1. Shifted(s.frames, Taken(s).frames, Head(Head(s.frames)))
      BY <1>1, FramesShift
    <2>2. Shifted(f, g, r)
      BY <1>1, <1>6, <1>10, <2>1
    <2>. QED
      BY <2>2 DEF Shifted
  <1>12. Backed(t)'
    <2>1. \A k \in DOMAIN f : \A m \in DOMAIN f[k] :
            /\ f[k][m] \in held'[f[k][m].author]
            /\ \A q \in Of(f[k][m].author, held'[f[k][m].author]) :
                 q.seq < f[k][m].seq => q \in held'[d] \/ Earlier(f, k, m, q)
      BY <1>8, <1>9, <1>10 DEF Sound, Backed, Of, Earlier
    <2>2. ASSUME NEW i \in DOMAIN g, NEW j \in DOMAIN g[i], NEW p, p = g[i][j]
          PROVE  /\ p \in held'[p.author]
                 /\ \A q \in Of(p.author, held'[p.author]) :
                      q.seq < p.seq => q \in held'[d] \/ Earlier(g, i, j, q)
      <3>1. PICK k \in DOMAIN f : \E m \in DOMAIN f[k] :
              /\ f[k][m] = p
              /\ \A q : Earlier(f, k, m, q) => q = r \/ Earlier(g, i, j, q)
        BY <1>11, <2>2
      <3>2. PICK m \in DOMAIN f[k] :
              /\ f[k][m] = p
              /\ \A q : Earlier(f, k, m, q) => q = r \/ Earlier(g, i, j, q)
        BY <3>1
      <3>3. /\ p \in held'[p.author]
            /\ \A q \in Of(p.author, held'[p.author]) :
                 q.seq < p.seq => q \in held'[d] \/ Earlier(f, k, m, q)
        BY <2>1, <3>2
      <3>. QED
        BY <1>5, <3>2, <3>3
    <2>. QED
      BY <1>9, <1>10, <2>2 DEF Backed, Of, Earlier
  <1>13. s.pusher = s.link[1] => Acknowledged(t)'
    <2>. SUFFICES ASSUME s.pusher = s.link[1] PROVE Acknowledged(t)'
      OBVIOUS
    <2>1. d = s.link[2]
      BY <1>2 DEF Draining
    <2>2. Acknowledged(s)'
      BY <1>1, <1>8 DEF Sound
    <2>3. \/ s.snapshot[s.link[1]] = 0
          \/ \E p \in held'[s.link[1]] :
               /\ p.author = s.link[1] /\ p.seq = s.snapshot[s.link[1]]
               /\ p \in held'[d] \/ InFrames(f, p)
      BY <1>10, <2>1, <2>2 DEF Acknowledged, InFrames
    <2>4. \/ s.snapshot[s.link[1]] = 0
          \/ \E p \in held'[s.link[1]] :
               /\ p.author = s.link[1] /\ p.seq = s.snapshot[s.link[1]]
               /\ p \in held'[d] \/ InFrames(g, p)
      BY <1>5, <1>11, <2>3
    <2>. QED
      BY <1>7, <1>10, <2>1, <2>4 DEF Acknowledged, InFrames
  <1>14. Sound(t)'
    <2>1. /\ t.pusher \in {t.link[1], t.link[2]}
          /\ \A site \in Sites : Marked(site, t.vv[site])'
          /\ Marked(t.pusher, t.snapshot)'
          /\ t.pusher # t.link[1] => t.snapshot = Nothing
      BY <1>1, <1>7, <1>8 DEF Sound, Marked
    <2>. QED
      BY <1>7, <1>12, <1>13, <2>1 DEF Sound
  <1>. QED
    BY <1>1, <1>6, <1>7, <1>14

\* Every step leaves every exchange sound.
LEMMA ReplicationNext ==
    ClocksInStep /\ TypeInv /\ ReplicationInv /\ [Next]_vars => ReplicationInv'
  <1>. SUFFICES ASSUME ClocksInStep, TypeInv, ReplicationInv, [Next]_vars
                PROVE  ReplicationInv'
    OBVIOUS
  <1>1. Timely' /\ LogsSound' /\ Extended
    BY LogsAdvance
  <1>2. TypeInv' /\ SitesFit'
    BY TypeInvNext DEF TypeInv
  <1>3. CursorsSound'
    BY <1>1, CursorsAdvance
  <1>4. \A x \in Sessions : \A s \in session'[x] : Sound(s)'
    <2>1. CASE UNCHANGED session
      <3>1. \A x \in Sessions : \A s \in session'[x] : s \in Session /\ Sound(s)
        BY <2>1, SessionTypes DEF ReplicationInv
      <3>. QED
        BY <1>1, <1>2, <3>1, SoundStays
    <2>2. ASSUME NEW x \in Sessions, Step(x) \/ Fail(x)
          PROVE  Close(x) \/ \E t \in Session : Set(x, t) /\ (Sound(t) \/ Sound(t)')
      <3>1. CASE Finish(x) \/ Drop(x)
        BY <3>1 DEF Finish, Drop
      <3>. QED
        BY <1>1, <1>2, <2>2, <3>1, HelloSound, SnapshotSound, CollectSound, ReceiveSound,
           MergeSound, AckSound, FailSound DEF Step
    <2>3. ASSUME NEW l \in Links, Dial(l)
          PROVE  \E x \in Sessions : \E t \in Session : Set(x, t) /\ Sound(t)
      BY <2>3, DialSound
    <2>4. ASSUME NEW n \in Nodes, Restart(n)
          PROVE  \A x \in Sessions : \A s \in session'[x] : Sound(s)'
      BY <1>1, <1>2, <2>4, RestartSound
    <2>5. ASSUME NEW n \in Nodes, StampCommand(n) \/ AppendRecord(n) \/ Refuse(n)
          PROVE  UNCHANGED session
      BY <2>5 DEF StampCommand, AppendRecord, Refuse
    <2>6. ASSUME Tick \/ UNCHANGED vars PROVE UNCHANGED session
      BY <2>6 DEF Tick, vars
    <2>7. ASSUME NEW x \in Sessions, Step(x) \/ Fail(x)
          PROVE  \A y \in Sessions : \A s \in session'[y] : Sound(s)'
      BY <1>1, <1>2, <2>2, <2>7, SessionsSound
    <2>8. ASSUME NEW l \in Links, Dial(l)
          PROVE  \A y \in Sessions : \A s \in session'[y] : Sound(s)'
      BY <1>1, <1>2, <2>3, <2>8, SessionsSound
    <2>. QED
      BY <2>1, <2>4, <2>5, <2>6, <2>7, <2>8 DEF Next
  <1>. QED
    BY <1>1, <1>3, <1>4 DEF ReplicationInv

LEMMA ReplicationInit == Init => ReplicationInv
  <1>. SUFFICES ASSUME Init PROVE ReplicationInv
    OBVIOUS
  <1>1. \A n \in Nodes : Physical(n) \in Nat
    BY ReplicationAssumption DEF Init, Physical
  <1>2. \A s \in Sites : held[s] = {}
    BY DEF Init
  <1>3. Timely
    BY <1>1, <1>2 DEF Init, Timely, Sites
  <1>4. LogsSound
    BY <1>2 DEF LogsSound, Of, Sites
  <1>5. CursorsSound /\ \A x \in Sessions : \A s \in session[x] : Sound(s)
    BY DEF Init, CursorsSound
  <1>. QED
    BY <1>3, <1>4, <1>5 DEF ReplicationInv

LEMMA ReplicationInvariant ==
    ASSUME ClocksInStep PROVE Spec => [](TypeInv /\ ReplicationInv)
  <1>1. Init => TypeInv /\ ReplicationInv
    BY TypeInvInit, ReplicationInit
  <1>2. TypeInv /\ ReplicationInv /\ [Next]_vars => (TypeInv /\ ReplicationInv)'
    BY TypeInvNext, ReplicationNext
  <1>. QED
    BY <1>1, <1>2, PTL DEF Spec

\* Where the nodes' clocks show the same time, whatever a cursor covers the peer holds:
\* the client moves it to a number that was acknowledged, and the log of an author reaches
\* every site from its beginning, without a gap (SyncOnce, pushAndAck, mergeOne).
THEOREM CursorHonestCorrect == ASSUME ClocksInStep PROVE Spec => []CursorHonest
  <1>1. TypeInv /\ ReplicationInv => CursorHonest
    <2>. SUFFICES ASSUME TypeInv, ReplicationInv, NEW l \in Links,
                         NEW r \in Of(l[1], held[l[1]]), r.seq <= cursor[l]
                  PROVE  r \in held[l[2]]
      BY DEF CursorHonest
    <2>1. l[1] \in Nodes /\ l[1] \in Sites /\ l[2] \in Sites
      BY LinkFacts
    <2>2. r.author = l[1] /\ r.seq \in Nat \ {0} /\ cursor[l] \in Nat
      BY <2>1, HeldTypes DEF Of, TypeInv, CountersFit
    <2>3. PICK p \in held[l[2]] : p.author = l[1] /\ p.seq = cursor[l]
      BY <2>2 DEF ReplicationInv, CursorsSound
    <2>. QED
      BY <2>1, <2>2, <2>3 DEF ReplicationInv, LogsSound
  <1>. QED
    BY <1>1, ReplicationInvariant, PTL

\* Where the nodes' clocks show the same time, the stamp of a command comes after every
\* record its node holds: a merged record was stamped no later than now, and after a
\* restart the time is past all the log has (Clock.Now, Clock.Update, NewInventory).
THEOREM StampsCorrect == ASSUME ClocksInStep PROVE Spec => StampsAfterLearned
  <1>. DEFINE Stamps == \A n \in Nodes : \A c \in pending'[n] \ pending[n] :
                  \A r \in held[n] : Before(r.at, c.at) \/ (r.at = c.at /\ r.author < n)
  <1>1. TypeInv /\ ReplicationInv /\ [Next]_vars => [Stamps]_vars
    <2>. SUFFICES ASSUME TypeInv, ReplicationInv, Next,
                         NEW n \in Nodes, NEW c \in pending'[n] \ pending[n],
                         NEW r \in held[n]
                  PROVE  Before(r.at, c.at)
      OBVIOUS
    <2>1. ASSUME NEW m \in Nodes, StampCommand(m) PROVE Before(r.at, c.at)
      <3>1. PICK at : at = Advance(Physical(m), {clk[m]})
        OBVIOUS
      <3>2. PICK op : pending' = [pending EXCEPT ![m] = {[at |-> at, op |-> op]}]
        BY <2>1, <3>1 DEF StampCommand
      <3>3. m = n /\ c.at = at
        BY <3>2 DEF TypeInv, SitesFit
      <3>. QED
        BY <3>1, <3>3, StampMoves DEF ReplicationInv
    <2>2. ASSUME NEW m \in Nodes, AppendRecord(m) \/ Refuse(m) \/ Restart(m) PROVE FALSE
      <3>1. pending' = [pending EXCEPT ![m] = {}]
        BY <2>2 DEF AppendRecord, Refuse, Restart
      <3>. QED
        BY <3>1 DEF TypeInv, SitesFit
    <2>3. ASSUME NEW x \in Sessions, Step(x) \/ Fail(x) PROVE FALSE
      <3>1. CASE Merge(x)
        BY <3>1, MergeFacts
      <3>2. CASE Fail(x)
        BY <3>2 DEF Fail
      <3>. QED
        BY <2>3, <3>1, <3>2 DEF Step, Hello, Snapshot, Collect, Receive, Ack, Finish, Drop,
           LogFrame
    <2>4. ASSUME Tick \/ \E l \in Links : Dial(l) PROVE FALSE
      BY <2>4 DEF Tick, Dial, LogFrame
    <2>. QED
      BY <2>1, <2>2, <2>3, <2>4 DEF Next
  <1>. QED
    BY <1>1, ReplicationInvariant, PTL DEF Spec, StampsAfterLearned

-----------------------------------------------------------------------------
(* The logs together are one replicated log *)

\* S is what an author wrote up to number m.
Whole(S, m) ==
    /\ S \in SUBSET Record /\ Apart(S)
    /\ \A r, q \in S : r.author = q.author
    /\ \A r \in S : r.seq \in 1..m
    /\ \A k \in 1..m : \E r \in S : r.seq = k

\* The records of S by their numbers; View(s, a) is InOrder(Of(a, held[s])).
InOrder(S) ==
    [i \in 1..Cardinality(S) |-> CHOOSE r \in S : Cardinality({q \in S : q.seq <= r.seq}) = i]

LEMMA WholeSize ==
    ASSUME NEW S, NEW m \in Nat, Whole(S, m) PROVE Cardinality(S) = m
  <1>. DEFINE f == [k \in 1..m |-> CHOOSE r \in S : r.seq = k]
  <1>1. \A k \in 1..m : f[k] \in S /\ f[k].seq = k
    BY DEF Whole
  <1>2. ASSUME NEW r \in S PROVE r.seq \in 1..m /\ f[r.seq] = r
    <2>1. r.seq \in 1..m
      BY DEF Whole
    <2>2. f[r.seq] \in S /\ f[r.seq].seq = r.seq
      BY <1>1, <2>1
    <2>3. f[r.seq] = r
      BY <2>2 DEF Whole, Apart
    <2>. QED
      BY <2>1, <2>3
  <1>3. f \in [1..m -> S]
    <2>1. f = [k \in 1..m |-> f[k]]
      OBVIOUS
    <2>. QED
      BY <1>1, <2>1
  <1>. HIDE DEF f
  <1>4. f \in Bijection(1..m, S)
    <2>1. \A j, k \in 1..m : f[j] = f[k] => j = k
      BY <1>1
    <2>2. \A r \in S : \E k \in 1..m : f[k] = r
      BY <1>2
    <2>. QED
      BY <1>3, <2>1, <2>2 DEF Bijection, Injection, Surjection, IsInjective
  <1>5. IsFiniteSet(1..m) /\ Cardinality(1..m) = m
    BY FS_Interval
  <1>. QED
    BY <1>4, <1>5, FS_Bijection DEF ExistsBijection

LEMMA InOrderFacts ==
    ASSUME NEW S, NEW m \in Nat, Whole(S, m)
    PROVE  /\ InOrder(S) \in Seq(Record) /\ Len(InOrder(S)) = m
           /\ DOMAIN InOrder(S) = 1..m
           /\ \A i \in 1..m : InOrder(S)[i] \in S /\ InOrder(S)[i].seq = i
           /\ \A r \in S : InOrder(S)[r.seq] = r
  <1>. DEFINE upTo(n) == {q \in S : q.seq <= n}
              at(i) == CHOOSE r \in S : Cardinality({q \in S : q.seq <= r.seq}) = i
  <1>1. Cardinality(S) = m
    BY WholeSize
  <1>2. ASSUME NEW n \in 1..m PROVE Cardinality(upTo(n)) = n
    <2>1. upTo(n) \in SUBSET Record /\ Apart(upTo(n)) /\ \A r, q \in upTo(n) : r.author = q.author
      BY DEF Whole, Apart
    <2>2. \A r \in upTo(n) : r.seq \in 1..n
      BY DEF Whole
    <2>3. \A k \in 1..n : \E r \in upTo(n) : r.seq = k
      BY DEF Whole
    <2>4. Whole(upTo(n), n) /\ n \in Nat
      BY <2>1, <2>2, <2>3 DEF Whole
    <2>. QED
      BY <2>4, WholeSize
  <1>3. ASSUME NEW i \in 1..m PROVE at(i) \in S /\ at(i).seq = i
    <2>1. \A r \in S : Cardinality({q \in S : q.seq <= r.seq}) = r.seq
      BY <1>2 DEF Whole
    <2>2. \E r \in S : r.seq = i
      BY DEF Whole
    <2>3. \E r \in S : Cardinality({q \in S : q.seq <= r.seq}) = i
      BY <2>1, <2>2
    <2>4. at(i) \in S /\ Cardinality({q \in S : q.seq <= at(i).seq}) = i
      BY <2>3
    <2>. QED
      BY <2>1, <2>4
  <1>4. InOrder(S) = [i \in 1..m |-> at(i)]
    BY <1>1 DEF InOrder
  <1>. HIDE DEF at
  <1>5. PICK f : f = InOrder(S) /\ DOMAIN f = 1..m /\ \A i \in 1..m : f[i] \in S /\ f[i].seq = i
    BY <1>3, <1>4
  <1>6. f \in Seq(Record) /\ Len(f) = m
    <2>1. \A i \in 1..m : f[i] \in Record
      BY <1>5 DEF Whole
    <2>2. f = [i \in 1..m |-> f[i]]
      BY <1>4, <1>5
    <2>. QED
      BY <2>1, <2>2
  <1>7. \A r \in S : f[r.seq] = r
    <2>. SUFFICES ASSUME NEW r \in S PROVE f[r.seq] = r
      OBVIOUS
    <2>1. f[r.seq] \in S /\ f[r.seq].seq = r.seq
      BY <1>5 DEF Whole
    <2>. QED
      BY <2>1 DEF Whole, Apart
  <1>. QED
    BY <1>5, <1>6, <1>7

\* A part of an author's records up to a number is a beginning of them all.
LEMMA Beginning ==
    ASSUME NEW S, NEW T, NEW m \in Nat, NEW n \in Nat, Whole(S, m), Whole(T, n), S \subseteq T
    PROVE  m <= n /\ InOrder(S) = SubSeq(InOrder(T), 1, m)
  <1>1. PICK f, g : f = InOrder(S) /\ g = InOrder(T)
    OBVIOUS
  <1>2. f \in Seq(Record) /\ Len(f) = m /\ \A i \in 1..m : f[i] \in S /\ f[i].seq = i
    BY <1>1, InOrderFacts
  <1>3. g \in Seq(Record) /\ Len(g) = n /\ \A r \in T : g[r.seq] = r
    BY <1>1, InOrderFacts
  <1>4. m <= n
    <2>1. CASE m # 0
      <3>1. f[m] \in T /\ f[m].seq = m
        BY <1>2, <2>1
      <3>. QED
        BY <2>1, <3>1 DEF Whole
    <2>. QED
      BY <2>1
  <1>5. \A i \in 1..m : f[i] = g[i]
    BY <1>2, <1>3
  <1>6. SubSeq(g, 1, m) \in Seq(Record) /\ Len(SubSeq(g, 1, m)) = m
    BY <1>3, <1>4
  <1>7. \A i \in 1..m : SubSeq(g, 1, m)[i] = g[i]
    BY <1>3, <1>4
  <1>8. f = SubSeq(g, 1, m)
    BY <1>2, <1>5, <1>6, <1>7
  <1>. QED
    BY <1>1, <1>4, <1>8

\* What a site knows of an author is whole, up to the number its version vector reports.
LEMMA KnownWhole ==
    ASSUME TypeInv, LogsSound, NEW s \in Sites, NEW a \in Nodes
    PROVE  Version(s)[a] \in Nat /\ Whole(Of(a, held[s]), Version(s)[a])
  <1>1. /\ Version(s) \in Vector
        /\ \A r \in held[s] : r.seq <= Version(s)[r.author]
        /\ Version(s)[a] # 0 => \E r \in held[s] : r.author = a /\ r.seq = Version(s)[a]
    BY SiteVersion DEF TypeInv
  <1>2. PICK m \in Nat : m = Version(s)[a]
    BY <1>1 DEF Vector
  <1>3. PICK S : S = Of(a, held[s])
    OBVIOUS
  <1>4. S \in SUBSET Record /\ Apart(S) /\ \A r, q \in S : r.author = q.author
    BY <1>3, HeldTypes DEF Of, Apart, TypeInv, SitesFit
  <1>5. \A r \in S : r.seq \in 1..m
    <2>1. ASSUME NEW r \in S PROVE r.seq \in 1..m
      <3>1. r \in held[s] /\ r.author = a
        BY <1>3 DEF Of
      <3>2. r.seq \in Nat \ {0} /\ r.seq <= m
        BY <1>1, <1>2, <3>1, HeldTypes
      <3>. QED
        BY <3>2
    <2>. QED
      BY <2>1
  <1>6. ASSUME NEW k \in 1..m PROVE \E r \in S : r.seq = k
    <2>1. PICK p \in held[s] : p.author = a /\ p.seq = m
      BY <1>1, <1>2
    <2>2. p \in Of(a, held[a]) /\ a \in Sites
      BY <2>1 DEF LogsSound, Of, Sites
    <2>3. PICK q \in Of(a, held[a]) : q.seq = k
      BY <2>1, <2>2 DEF LogsSound
    <2>4. q \in held[s] /\ q.author = a
      BY <2>1, <2>3 DEF LogsSound, Of
    <2>. QED
      BY <1>3, <2>3, <2>4 DEF Of
  <1>. QED
    BY <1>2, <1>3, <1>4, <1>5, <1>6 DEF Whole

\* The next record of the author is one more.
LEMMA WholeGrows ==
    ASSUME NEW S, NEW m \in Nat, Whole(S, m), NEW r \in Record, r.seq = m + 1,
           \A q \in S : q.author = r.author
    PROVE  Whole(S \cup {r}, m + 1)
  <1>1. \A q \in S \cup {r} : q.seq \in 1..(m + 1)
    BY DEF Whole
  <1>2. Apart(S \cup {r})
    <2>1. \A q \in S : q.seq # r.seq
      BY DEF Whole
    <2>. QED
      BY <2>1 DEF Whole, Apart
  <1>3. \A k \in 1..(m + 1) : \E q \in S \cup {r} : q.seq = k
    <2>1. ASSUME NEW k \in 1..(m + 1) PROVE \E q \in S \cup {r} : q.seq = k
      <3>1. CASE k = m + 1
        BY <3>1
      <3>2. CASE k # m + 1
        <4>1. k \in 1..m
          BY <3>2
        <4>. QED
          BY <4>1 DEF Whole
      <3>. QED
        BY <3>1, <3>2
    <2>. QED
      BY <2>1
  <1>4. S \cup {r} \in SUBSET Record /\ \A p, q \in S \cup {r} : p.author = q.author
    BY DEF Whole
  <1>. QED
    BY <1>1, <1>2, <1>3, <1>4 DEF Whole

Views == [s \in Sites |-> [a \in Nodes |-> InOrder(Of(a, held[s]))]]

\* The one view that changes.
LEMMA ViewsGrow ==
    ASSUME TypeInv, NEW d \in Sites, NEW r \in LawfulRecord,
           held' = [held EXCEPT ![d] = @ \cup {r}]
    PROVE  /\ r.author \in Nodes
           /\ Of(r.author, held'[d]) = Of(r.author, held[d]) \cup {r}
           /\ Views' = [Views EXCEPT ![d][r.author] = InOrder(Of(r.author, held'[d]))]
  <1>1. \A s \in Sites : held'[s] = IF s = d THEN held[d] \cup {r} ELSE held[s]
    BY DEF TypeInv, SitesFit
  <1>2. PICK a \in Nodes : a = r.author
    BY CommandFacts DEF Record
  <1>3. Of(a, held'[d]) = Of(a, held[d]) \cup {r}
    BY <1>1, <1>2 DEF Of
  <1>4. \A s \in Sites : \A b \in Nodes :
          s # d \/ b # a => Of(b, held'[s]) = Of(b, held[s])
    BY <1>1, <1>2 DEF Of
  <1>5. PICK v : v = InOrder(Of(a, held'[d]))
    OBVIOUS
  <1>6. Views' = [s \in Sites |-> [b \in Nodes |-> InOrder(Of(b, held'[s]))]]
    BY DEF Views, InOrder, Of
  <1>7. \A s \in Sites : \A b \in Nodes :
          InOrder(Of(b, held'[s])) = IF s = d /\ b = a THEN v ELSE InOrder(Of(b, held[s]))
    BY <1>4, <1>5
  <1>8. Views' = [s \in Sites |-> [b \in Nodes |->
                    IF s = d /\ b = a THEN v ELSE InOrder(Of(b, held[s]))]]
    BY <1>6, <1>7
  <1>9. Views' = [Views EXCEPT ![d][a] = v]
    BY <1>8 DEF Views
  <1>. QED
    BY <1>2, <1>3, <1>5, <1>9

LEMMA ViewsAre == Views = [s \in Sites |-> [a \in Nodes |-> View(s, a)]]
  BY DEF Views, View, InOrder

LEMMA AppendWrites ==
    ASSUME TypeInv, ReplicationInv, NEW n \in Nodes, AppendRecord(n) PROVE Log!Write(n)
  <1>1. PICK c \in pending[n] :
          held' = [held EXCEPT ![n] = @ \cup
                {[author |-> n, seq |-> NextSeq(n), at |-> c.at, op |-> c.op]}]
    BY DEF AppendRecord
  <1>2. PICK r : r = [author |-> n, seq |-> NextSeq(n), at |-> c.at, op |-> c.op]
    OBVIOUS
  <1>3. r \in LawfulRecord /\ r.author = n /\ r.seq = NextSeq(n) /\ n \in Sites
    <2>1. r \in LawfulRecord
      BY <1>2, Appended
    <2>. QED
      BY <1>2, <2>1 DEF Sites
  <1>4. PICK m \in Nat : m = Version(n)[n] /\ Whole(Of(n, held[n]), m)
    BY <1>3, KnownWhole DEF ReplicationInv
  <1>5. held' = [held EXCEPT ![n] = @ \cup {r}]
    BY <1>1, <1>2
  <1>6. PICK S, T : S = Of(n, held[n]) /\ T = Of(n, held'[n])
    OBVIOUS
  <1>7. T = S \cup {r} /\ Views' = [Views EXCEPT ![n][n] = InOrder(T)]
    BY <1>3, <1>5, <1>6, ViewsGrow
  <1>8. Whole(S, m) /\ Whole(T, m + 1)
    <2>1. r \in Record /\ r.seq = m + 1 /\ \A q \in S : q.author = r.author
      BY <1>3, <1>4, <1>6, CommandFacts DEF NextSeq, Of
    <2>. QED
      BY <1>4, <1>6, <1>7, <2>1, WholeGrows
  <1>9. /\ Len(InOrder(T)) = m + 1 /\ Len(InOrder(S)) = m
        /\ SubSeq(InOrder(T), 1, m) = InOrder(S)
    <2>1. m + 1 \in Nat /\ S \subseteq T
      BY <1>7
    <2>2. Len(InOrder(T)) = m + 1 /\ Len(InOrder(S)) = m
      BY <1>8, <2>1, InOrderFacts
    <2>3. InOrder(S) = SubSeq(InOrder(T), 1, m)
      BY <1>8, <2>1, Beginning
    <2>. QED
      BY <2>2, <2>3
  <1>10. Views[n][n] = InOrder(S) /\ Views'[n][n] = InOrder(T)
    <2>1. Views[n][n] = InOrder(S)
      BY <1>3, <1>6 DEF Views
    <2>2. Views \in [Sites -> [Nodes -> {Views[s][a] : s \in Sites, a \in Nodes}]]
      BY DEF Views
    <2>. QED
      BY <1>3, <1>7, <2>1, <2>2
  <1>11. /\ Len(Views'[n][n]) = Len(Views[n][n]) + 1
         /\ SubSeq(Views'[n][n], 1, Len(Views[n][n])) = Views[n][n]
         /\ Views' = [Views EXCEPT ![n][n] = Views'[n][n]]
    BY <1>7, <1>9, <1>10
  <1>. QED
    BY <1>11, ViewsAre DEF Log!Write, Views, View, InOrder

LEMMA MergeLearns ==
    ASSUME TypeInv, ReplicationInv, NEW x \in Sessions, Merge(x)
    PROVE  UNCHANGED held \/ \E a \in Nodes : \E s \in Sites : Log!Learn(s, a)
  <1>1. PICK s \in session[x], r \in LawfulRecord :
          /\ s.pc = "merge" /\ Fits(s) /\ Set(x, Taken(s))
          /\ r = Head(Head(s.frames)) /\ r.author # Draining(s) /\ Draining(s) \in Sites
          /\ \/ Stored(Draining(s), r) /\ UNCHANGED <<held, balance, clk>>
             \/ /\ ~ Stored(Draining(s), r)
                /\ held' = [held EXCEPT ![Draining(s)] = @ \cup {r}]
                /\ \/ /\ Draining(s) = Central
                      /\ UNCHANGED <<balance, clk>>
                   \/ /\ Draining(s) \in Nodes
                      /\ balance' = [balance EXCEPT ![Draining(s)] = Apply(@, r.op)]
                      /\ clk' = [clk EXCEPT ![Draining(s)] = Observe(Draining(s), r.at)]
          /\ UNCHANGED <<pending, cursor, now, failures, net>>
    BY MergeFacts
  <1>2. PICK d \in Sites : d = Draining(s)
    BY <1>1
  <1>3. Sound(s) /\ LogsSound
    BY DEF ReplicationInv
  <1>4. CASE UNCHANGED held
    BY <1>4
  <1>5. CASE ~ Stored(d, r) /\ held' = [held EXCEPT ![d] = @ \cup {r}]
    <2>1. PICK a \in Nodes : a = r.author /\ a \in Sites /\ r \in held[a]
      BY <1>1, <1>3, HeadFacts DEF Sites
    <2>2. \A q \in Of(a, held[a]) : q.seq < r.seq => q \in held[d]
      BY <1>1, <1>2, <1>3, <2>1, HeadFacts
    <2>3. PICK m \in Nat : m = Version(d)[a] /\ Whole(Of(a, held[d]), m)
      BY <1>3, KnownWhole
    <2>4. PICK n \in Nat : n = Version(a)[a] /\ Whole(Of(a, held[a]), n)
      BY <1>3, <2>1, KnownWhole
    <2>5. PICK S, T, all : S = Of(a, held[d]) /\ T = Of(a, held'[d]) /\ all = Of(a, held[a])
      OBVIOUS
    <2>6. T = S \cup {r} /\ Views' = [Views EXCEPT ![d][a] = InOrder(T)]
      BY <1>5, <2>1, <2>5, ViewsGrow
    <2>7. r \in all /\ r \in Record /\ r.seq \in 1..n
      BY <2>1, <2>4, <2>5, CommandFacts DEF Of, Whole
    <2>8. r.seq = m + 1
      <3>1. r.seq \notin 1..m
        <4>1. ASSUME r.seq \in 1..m PROVE FALSE
          <5>1. PICK q \in S : q.seq = r.seq
            BY <2>3, <2>5, <4>1 DEF Whole
          <5>. QED
            BY <1>5, <2>1, <2>5, <5>1 DEF Stored, Of
        <4>. QED
          BY <4>1
      <3>2. ASSUME m + 1 < r.seq PROVE FALSE
        <4>1. m + 1 \in 1..n
          BY <2>7, <3>2
        <4>2. PICK q \in all : q.seq = m + 1
          BY <2>4, <2>5, <4>1 DEF Whole
        <4>3. q \in S
          BY <2>2, <2>5, <3>2, <4>2 DEF Of
        <4>4. q.seq \in 1..m
          BY <2>3, <2>5, <4>3 DEF Whole
        <4>. QED
          BY <4>2, <4>4
      <3>. QED
        BY <2>7, <3>1, <3>2
    <2>9. Whole(T, m + 1)
      <3>1. \A q \in S : q.author = r.author
        BY <2>1, <2>5 DEF Of
      <3>. QED
        BY <2>3, <2>5, <2>6, <2>7, <2>8, <3>1, WholeGrows
    <2>10. T \subseteq all
      <3>1. S \subseteq all
        BY <1>3, <2>5 DEF LogsSound, Of
      <3>. QED
        BY <2>6, <2>7, <3>1
    <2>11. /\ Len(InOrder(S)) = m /\ Len(InOrder(T)) = m + 1 /\ Len(InOrder(all)) = n
           /\ m + 1 <= n /\ InOrder(T) = SubSeq(InOrder(all), 1, m + 1)
      <3>1. Whole(S, m) /\ Whole(all, n) /\ m + 1 \in Nat
        BY <2>3, <2>4, <2>5
      <3>2. Len(InOrder(S)) = m /\ Len(InOrder(T)) = m + 1 /\ Len(InOrder(all)) = n
        BY <2>9, <3>1, InOrderFacts
      <3>3. m + 1 <= n /\ InOrder(T) = SubSeq(InOrder(all), 1, m + 1)
        BY <2>9, <2>10, <3>1, Beginning
      <3>. QED
        BY <3>2, <3>3
    <2>12. /\ Views[d][a] = InOrder(S) /\ Views[a][a] = InOrder(all)
           /\ Views'[d][a] = InOrder(T)
      <3>1. Views[d][a] = InOrder(S) /\ Views[a][a] = InOrder(all)
        BY <2>1, <2>5 DEF Views
      <3>2. Views \in [Sites -> [Nodes -> {Views[p][b] : p \in Sites, b \in Nodes}]]
        BY DEF Views
      <3>. QED
        BY <2>1, <2>6, <3>1, <3>2
    <2>13. /\ Len(Views'[d][a]) \in Len(Views[d][a]) + 1 .. Len(Views[a][a])
           /\ Views' = [Views EXCEPT ![d][a] = SubSeq(Views[a][a], 1, Len(Views'[d][a]))]
      <3>1. PICK u, v, w : u = InOrder(S) /\ v = InOrder(T) /\ w = InOrder(all)
        OBVIOUS
      <3>2. Len(u) = m /\ Len(v) = m + 1 /\ Len(w) = n /\ m + 1 <= n /\ v = SubSeq(w, 1, m + 1)
        BY <2>11, <3>1
      <3>3. Views[d][a] = u /\ Views[a][a] = w /\ Views'[d][a] = v
        BY <2>12, <3>1
      <3>4. Len(Views'[d][a]) \in Len(Views[d][a]) + 1 .. Len(Views[a][a])
        BY <3>2, <3>3
      <3>5. SubSeq(Views[a][a], 1, Len(Views'[d][a])) = v
        BY <3>2, <3>3
      <3>. QED
        BY <2>6, <3>1, <3>4, <3>5
    <2>14. Log!Learn(d, a)
      BY <2>13, ViewsAre DEF Log!Learn, Views, View, InOrder
    <2>. QED
      BY <2>14
  <1>. QED
    BY <1>1, <1>2, <1>4, <1>5

LEMMA ViewsStay ==
    UNCHANGED held
      => UNCHANGED [s \in Sites |-> [a \in Nodes |-> View(s, a)]]
  BY DEF View, Of

\* Where the nodes' clocks show the same time, the logs together are one replicated log:
\* a command adds the next record to its author's, a merge the next that a site lacks of
\* it, and no other step, failure or restart changes what is known (Append, mergeOne).
THEOREM LogRefinedCorrect == ASSUME ClocksInStep PROVE Spec => LogRefined
  <1>1. Init => Log!Init
    <2>. SUFFICES ASSUME Init PROVE Log!Init
      OBVIOUS
    <2>1. \A s \in Sites : \A a \in Nodes : Of(a, held[s]) = {}
      BY DEF Init, Of
    <2>2. Whole({}, 0)
      BY DEF Whole, Apart
    <2>3. InOrder({}) \in Seq(Record) /\ Len(InOrder({})) = 0
      BY <2>2, InOrderFacts
    <2>4. InOrder({}) = <<>>
      BY <2>3
    <2>5. Views = [s \in Sites |-> [a \in Nodes |-> <<>>]]
      BY <2>1, <2>4 DEF Views
    <2>. QED
      BY <2>5, ViewsAre DEF Log!Init
  <1>2. TypeInv /\ ReplicationInv /\ [Next]_vars
          => [Log!Next]_([s \in Sites |-> [a \in Nodes |-> View(s, a)]])
    <2>. SUFFICES ASSUME TypeInv, ReplicationInv, [Next]_vars
                  PROVE  Log!Next \/ UNCHANGED held
      BY ViewsStay
    <2>1. ASSUME NEW n \in Nodes, AppendRecord(n) PROVE Log!Next
      BY <2>1, AppendWrites DEF Log!Next
    <2>2. ASSUME NEW x \in Sessions, Merge(x) PROVE Log!Next \/ UNCHANGED held
      BY <2>2, MergeLearns DEF Log!Next
    <2>3. ASSUME NEW n \in Nodes, StampCommand(n) \/ Refuse(n) \/ Restart(n)
          PROVE  UNCHANGED held
      BY <2>3 DEF StampCommand, Refuse, Restart
    <2>4. ASSUME NEW x \in Sessions,
                 \/ Hello(x) \/ Snapshot(x) \/ Collect(x) \/ Receive(x) \/ Ack(x)
                 \/ Finish(x) \/ Drop(x) \/ Fail(x)
          PROVE  UNCHANGED held
      BY <2>4 DEF Hello, Snapshot, Collect, Receive, Ack, Finish, Drop, Fail, LogFrame
    <2>5. ASSUME Tick \/ (\E l \in Links : Dial(l)) \/ UNCHANGED vars PROVE UNCHANGED held
      BY <2>5 DEF Tick, Dial, LogFrame, vars
    <2>. QED
      BY <2>1, <2>2, <2>3, <2>4, <2>5 DEF Next, Step
  <1>. QED
    BY <1>1, <1>2, ReplicationInvariant, PTL DEF Spec, LogRefined, Log!Spec
=============================================================================
