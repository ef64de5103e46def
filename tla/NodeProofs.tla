----------------------------- MODULE NodeProofs -----------------------------
(***************************************************************************)
(* Proofs about a warehouse node, for every history, command, version of    *)
(* the program, failure, crash and wall clock: what it records sorts after  *)
(* all that it had seen, under numbers without a gap; what its log, its     *)
(* read models and its calls are made of stays of their kinds; its commands *)
(* take no place below zero.                                                *)
(***************************************************************************)
EXTENDS NodeProperties, TLAPS, FiniteSetTheorems, SequenceTheorems, WellFoundedInduction

-----------------------------------------------------------------------------
(* Induction over sets of numbers, and functions defined by recursion *)

LEMMA AllNumbers ==
    ASSUME NEW P \in SUBSET Nat, 0 \in P, \A n \in P : n + 1 \in P
    PROVE  P = Nat
  <1> SUFFICES ASSUME P # Nat PROVE FALSE
    OBVIOUS
  <1>1. Nat \ P # {} /\ Nat \ P \subseteq Nat
    OBVIOUS
  <1>2. PICK n \in Nat \ P : \A k \in Nat \ P : ~ (<<k, n>> \in OpToRel(<, Nat))
    BY <1>1, NatLessThanWellFounded, WFMin
  <1>3. \A k \in Nat : k < n => k \in P
    BY <1>2 DEF OpToRel
  <1>4. n \in Nat /\ n \notin P
    OBVIOUS
  <1>5. n # 0
    BY <1>4
  <1>6. n - 1 \in P /\ (n - 1) + 1 = n
    BY <1>3, <1>4, <1>5
  <1> QED BY <1>4, <1>6

\* The readings of a clock that ticks n times.
Ticking(g, prev, wall, n) == g = [i \in 0..n |-> IF i = 0 THEN prev ELSE Tick(g[i - 1], wall)]
TicksFrom(prev, wall, n) == CHOOSE g : Ticking(g, prev, wall, n)

LEMMA Multiples ==
    \A w, v \in Nat : w * Counters \in Nat /\ (w < v => w * Counters + Counters <= v * Counters)
  BY HybridClockAssumption

LEMMA Later ==
    ASSUME NEW prev \in Nat, NEW seen \in Nat, NEW wall \in Nat
    PROVE  /\ Tick(prev, wall) \in Nat /\ prev < Tick(prev, wall)
           /\ Merge(prev, seen, wall) \in Nat
           /\ prev < Merge(prev, seen, wall) /\ seen < Merge(prev, seen, wall)
  <1>1. \A h \in Nat : /\ Wall(h) \in Nat /\ h % Counters \in 0..(Counters - 1)
                       /\ h = Wall(h) * Counters + (h % Counters)
    BY HybridClockAssumption DEF Wall
  <1>2. \A h \in Nat : wall > Wall(h) => h < wall * Counters
    <2> SUFFICES ASSUME NEW h \in Nat, wall > Wall(h) PROVE h < wall * Counters
      OBVIOUS
    <2>1. Wall(h) * Counters + Counters <= wall * Counters /\ Wall(h) * Counters \in Nat
          /\ wall * Counters \in Nat
      BY <1>1, Multiples
    <2>2. h = Wall(h) * Counters + (h % Counters) /\ h % Counters \in 0..(Counters - 1)
      BY <1>1
    <2> QED BY <2>1, <2>2, HybridClockAssumption
  <1>3. wall * Counters \in Nat
    BY Multiples
  <1> QED BY <1>1, <1>2, <1>3 DEF Tick, Merge, Max2

LEMMA TicksExist ==
    ASSUME NEW prev, NEW wall, NEW n \in Nat
    PROVE  \E g : Ticking(g, prev, wall, n)
  <1> DEFINE P == {k \in Nat : \E g : Ticking(g, prev, wall, k)}
  <1>1. 0 \in P
    <2> DEFINE g == [i \in 0..0 |-> prev]
    <2>1. Ticking(g, prev, wall, 0)
      BY DEF Ticking
    <2> QED BY <2>1
  <1>2. ASSUME NEW k \in P PROVE k + 1 \in P
    <2>1. PICK g : Ticking(g, prev, wall, k)
      OBVIOUS
    <2> DEFINE h == [i \in 0..(k + 1) |-> IF i = 0 THEN prev ELSE Tick(g[i - 1], wall)]
    <2>2. k \in Nat
      OBVIOUS
    <2>3. \A i \in 0..k : h[i] = g[i]
      BY <2>1, <2>2 DEF Ticking
    <2>4. \A i \in 0..(k + 1) : i # 0 => i - 1 \in 0..k
      BY <2>2
    <2>5. h = [i \in 0..(k + 1) |-> IF i = 0 THEN prev ELSE Tick(h[i - 1], wall)]
      BY <2>3, <2>4
    <2>6. Ticking(h, prev, wall, k + 1)
      <3> HIDE DEF h
      <3> QED BY <2>5 DEF Ticking
    <2> QED BY <2>2, <2>6
  <1>3. P \in SUBSET Nat
    OBVIOUS
  <1> HIDE DEF P
  <1>4. P = Nat
    BY <1>1, <1>2, <1>3, AllNumbers
  <1> QED BY <1>4 DEF P

LEMMA TicksFacts ==
    ASSUME NEW prev \in Nat, NEW wall \in Nat, NEW n \in Nat
    PROVE  LET g == TicksFrom(prev, wall, n)
           IN /\ g[0] = prev
              /\ \A i \in 0..n : g[i] \in Nat
              /\ \A i \in 0..n, j \in 0..n : i < j => g[i] < g[j]
  <1> DEFINE g == TicksFrom(prev, wall, n)
  <1>1. Ticking(g, prev, wall, n)
    BY TicksExist DEF TicksFrom
  <1>2. /\ g[0] = prev
        /\ \A i \in 0..n : i + 1 \in 0..n => g[i + 1] = Tick(g[i], wall)
    BY <1>1 DEF Ticking
  <1> HIDE DEF g
  <1> DEFINE P == {k \in Nat : k \in 0..n => /\ \A i \in 0..k : g[i] \in Nat
                                             /\ \A i \in 0..k : i < k => g[i] < g[k]}
  <1>3. 0 \in P
    BY <1>2
  <1>4. ASSUME NEW k \in P PROVE k + 1 \in P
    <2> SUFFICES ASSUME k + 1 \in 0..n
                 PROVE  /\ \A i \in 0..(k + 1) : g[i] \in Nat
                        /\ \A i \in 0..(k + 1) : i < k + 1 => g[i] < g[k + 1]
      OBVIOUS
    <2>1. /\ k \in Nat /\ k \in 0..n /\ \A i \in 0..k : g[i] \in Nat
          /\ \A i \in 0..k : i < k => g[i] < g[k]
      OBVIOUS
    <2>2. g[k + 1] \in Nat /\ g[k] < g[k + 1]
      <3>1. g[k] \in Nat /\ g[k + 1] = Tick(g[k], wall)
        BY <1>2, <2>1
      <3>2. Tick(g[k], wall) \in Nat /\ g[k] < Tick(g[k], wall)
        BY <3>1, Later
      <3> QED BY <3>1, <3>2
    <2>3. ASSUME NEW i \in 0..k, i < k PROVE g[i] < g[k + 1]
      <3>1. g[i] < g[k]
        BY <2>1, <2>3
      <3> QED BY <2>1, <2>2, <3>1
    <2> QED BY <2>1, <2>2, <2>3
  <1>5. P \in SUBSET Nat
    OBVIOUS
  <1> HIDE DEF P
  <1>6. P = Nat
    BY <1>3, <1>4, <1>5, AllNumbers
  <1> QED BY <1>2, <1>6 DEF P, g

\* A function of the subsets of a finite set, defined by taking one element away at a time.
Recursion(it, S, base, G, c) ==
    \A s \in SUBSET S : it[s] = IF s = {} THEN base ELSE G[<<s, it[s \ {c[s]}]>>]

LEMMA RecursionExists ==
    ASSUME NEW S, IsFiniteSet(S), NEW V, NEW base \in V, NEW G \in [(SUBSET S) \X V -> V],
           NEW c, \A s \in SUBSET S : s # {} => c[s] \in s
    PROVE  \E it \in [SUBSET S -> V] : Recursion(it, S, base, G, c)
  <1> DEFINE Upto(k) == {s \in SUBSET S : Cardinality(s) <= k}
             Rec(it, k) == \A s \in Upto(k) :
                              it[s] = IF s = {} THEN base ELSE G[<<s, it[s \ {c[s]}]>>]
             P == {k \in Nat : \E it \in [Upto(k) -> V] : Rec(it, k)}
  <1>1. \A s \in SUBSET S : IsFiniteSet(s) /\ Cardinality(s) \in Nat /\ (Cardinality(s) = 0 <=> s = {})
    BY FS_Subset, FS_CardinalityType, FS_EmptySet
  <1>2. \A s \in SUBSET S : s # {} => /\ s \ {c[s]} \in SUBSET S
                                      /\ Cardinality(s \ {c[s]}) = Cardinality(s) - 1
    BY <1>1, FS_RemoveElement
  <1>3. 0 \in P
    <2> DEFINE it == [s \in Upto(0) |-> base]
    <2>1. \A s \in Upto(0) : s = {}
      BY <1>1
    <2>2. it \in [Upto(0) -> V] /\ Rec(it, 0)
      BY <2>1
    <2> QED BY <2>2
  <1>4. ASSUME NEW k \in P PROVE k + 1 \in P
    <2>1. k \in Nat
      OBVIOUS
    <2>2. PICK it \in [Upto(k) -> V] : Rec(it, k)
      OBVIOUS
    <2> DEFINE W == Upto(k + 1)
               new == [s \in W |-> IF s = {} THEN base ELSE G[<<s, it[s \ {c[s]}]>>]]
    <2>3. /\ \A s \in W : s \in SUBSET S /\ (s # {} => s \ {c[s]} \in Upto(k))
          /\ \A s \in Upto(k) : s \in W
      BY <1>1, <1>2, <2>1
    <2>4. \A s \in Upto(k) : it[s] = IF s = {} THEN base ELSE G[<<s, it[s \ {c[s]}]>>]
      BY <2>2
    <2> HIDE DEF Upto, Rec, P, W
    <2>5. \A s \in W : new[s] \in V
      BY <2>2, <2>3
    <2>6. \A s \in Upto(k) : new[s] = it[s]
      BY <2>3, <2>4
    <2>7. \A s \in W : new[s] = IF s = {} THEN base ELSE G[<<s, new[s \ {c[s]}]>>]
      <3> SUFFICES ASSUME NEW s \in W
                   PROVE  new[s] = IF s = {} THEN base ELSE G[<<s, new[s \ {c[s]}]>>]
        OBVIOUS
      <3>1. s # {} => new[s \ {c[s]}] = it[s \ {c[s]}]
        BY <2>3, <2>6
      <3>2. new[s] = IF s = {} THEN base ELSE G[<<s, it[s \ {c[s]}]>>]
        OBVIOUS
      <3> HIDE DEF new
      <3> QED BY <3>1, <3>2
    <2>8. new \in [W -> V]
      BY <2>5
    <2> HIDE DEF new
    <2>9. new \in [Upto(k + 1) -> V] /\ Rec(new, k + 1)
      BY <2>7, <2>8 DEF W, Rec
    <2> QED BY <2>1, <2>9 DEF P
  <1>5. P \in SUBSET Nat
    OBVIOUS
  <1>6. Cardinality(S) \in Nat /\ Upto(Cardinality(S)) = SUBSET S
    BY <1>1, FS_Subset
  <1>7. Cardinality(S) \in P
    <2> HIDE DEF P
    <2>1. P = Nat
      BY <1>3, <1>4, <1>5, AllNumbers
    <2> QED BY <1>6, <2>1
  <1> QED BY <1>6, <1>7 DEF Recursion

-----------------------------------------------------------------------------
(* The clock after a batch *)

LEMMA MaxIs ==
    ASSUME NEW n \in Nat, NEW s \in SUBSET (1..n), s # {}
    PROVE  Max(s) \in s /\ \A y \in s : y <= Max(s)
  <1> DEFINE Above == {y \in Nat : \A x \in s : x <= y}
  <1>1. Above # {} /\ Above \subseteq Nat
    OBVIOUS
  <1>2. PICK y \in Above : \A z \in Above : ~ (<<z, y>> \in OpToRel(<, Nat))
    BY <1>1, NatLessThanWellFounded, WFMin
  <1>3. \A z \in Above : ~ (z < y)
    BY <1>2 DEF OpToRel
  <1>4. y \in s
    <2> SUFFICES ASSUME y \notin s PROVE FALSE
      OBVIOUS
    <2>a. \A x \in s : x \in Nat /\ x >= 1 /\ x <= y /\ y \in Nat
      OBVIOUS
    <2>1. PICK x \in s : x \in Nat /\ x >= 1 /\ x <= y
      BY <2>a
    <2>2. y # 0 /\ y \in Nat /\ \A z \in s : z \in Nat /\ z <= y /\ z # y
      BY <2>1
    <2>3. y - 1 \in Above
      BY <2>2
    <2> QED BY <1>3, <2>2, <2>3
  <1>5. \E x \in s : \A z \in s : x >= z
    BY <1>4
  <1> QED BY <1>5 DEF Max

LEMMA MaxOfRun == ASSUME NEW k \in Nat \ {0} PROVE Max(1..k) = k
  <1>1. k \in 1..k /\ 1..k \in SUBSET (1..k) /\ 1..k # {}
    OBVIOUS
  <1>2. Max(1..k) \in 1..k /\ k <= Max(1..k)
    BY <1>1, MaxIs
  <1> QED BY <1>2

\* The reading after the events of a batch were seen, one after the other.
Seeing(it, h, batch, wall) ==
    it = [s \in SUBSET DOMAIN batch |->
            IF s = {} THEN h ELSE Merge(it[s \ {Max(s)}], batch[Max(s)].at, wall)]
AfterAll(h, batch, wall) == (CHOOSE it : Seeing(it, h, batch, wall))[DOMAIN batch]

LEMMA AfterAllIs ==
    \A h, batch, wall : FoldLeft(LAMBDA g, e : Merge(g, e.at, wall), h, batch) = AfterAll(h, batch, wall)
  BY DEF FoldLeft, MapThenFoldSet, AfterAll, Seeing

LEMMA SeeingExists ==
    ASSUME NEW h \in Nat, NEW wall \in Nat, NEW n \in Nat, NEW batch, DOMAIN batch = 1..n,
           \A i \in 1..n : batch[i].at \in Nat
    PROVE  \E it : Seeing(it, h, batch, wall)
  <1> DEFINE S == 1..n
             G == [p \in (SUBSET S) \X Nat |->
                     IF p[1] = {} THEN 0 ELSE Merge(p[2], batch[Max(p[1])].at, wall)]
             c == [s \in SUBSET S |-> Max(s)]
  <1>1. IsFiniteSet(S)
    BY FS_Interval
  <1>2. \A s \in SUBSET S : s # {} => c[s] = Max(s) /\ c[s] \in s
    BY MaxIs
  <1>3. G \in [(SUBSET S) \X Nat -> Nat]
    <2> SUFFICES ASSUME NEW s \in SUBSET S, NEW v \in Nat, s # {}
                 PROVE  Merge(v, batch[Max(s)].at, wall) \in Nat
      OBVIOUS
    <2>1. Max(s) \in S
      BY MaxIs
    <2>2. batch[Max(s)].at \in Nat
      BY <2>1
    <2> QED BY <2>2, Later
  <1>4. \A s \in SUBSET S, v \in Nat : s # {} => G[<<s, v>>] = Merge(v, batch[Max(s)].at, wall)
    OBVIOUS
  <1> HIDE DEF G, c, S
  <1>5. PICK it \in [SUBSET S -> Nat] : Recursion(it, S, h, G, c)
    BY <1>1, <1>2, <1>3, RecursionExists
  <1>6. \A s \in SUBSET S :
           it[s] = IF s = {} THEN h ELSE Merge(it[s \ {Max(s)}], batch[Max(s)].at, wall)
    BY <1>2, <1>4, <1>5 DEF Recursion
  <1>7. Seeing(it, h, batch, wall)
    BY <1>6 DEF Seeing, S
  <1> QED BY <1>7

LEMMA AfterAllFacts ==
    ASSUME NEW h \in Nat, NEW wall \in Nat, NEW n \in Nat, NEW batch, DOMAIN batch = 1..n,
           \A i \in 1..n : batch[i].at \in Nat
    PROVE  /\ AfterAll(h, batch, wall) \in Nat /\ h <= AfterAll(h, batch, wall)
           /\ \A i \in 1..n : batch[i].at <= AfterAll(h, batch, wall)
  <1> DEFINE it == CHOOSE it : Seeing(it, h, batch, wall)
  <1>1. Seeing(it, h, batch, wall)
    BY SeeingExists
  <1>2. AfterAll(h, batch, wall) = it[1..n]
    BY DEF AfterAll
  <1> HIDE DEF it
  <1>3. it[{}] = h
    BY <1>1 DEF Seeing
  <1>4. ASSUME NEW k \in 1..n PROVE it[1..k] = Merge(it[1..(k - 1)], batch[k].at, wall)
    <2>1. k \in Nat \ {0} /\ k \in 1..k /\ \A i \in 1..k : i \in 1..n
      OBVIOUS
    <2>3. \A i \in 1..k : i # k => i \in 1..(k - 1)
      BY <2>1
    <2>4. \A i \in 1..(k - 1) : i \in 1..k /\ i # k
      BY <2>1
    <2>5. 1..k \in SUBSET DOMAIN batch /\ 1..k # {} /\ (1..k) \ {k} = 1..(k - 1)
      BY <2>1, <2>3, <2>4
    <2>2. Max(1..k) = k
      BY MaxOfRun
    <2> QED BY <1>1, <2>5, <2>2 DEF Seeing
  <1> DEFINE P == {k \in Nat : k \in 0..n => /\ it[1..k] \in Nat /\ h <= it[1..k]
                                             /\ \A i \in 1..k : batch[i].at <= it[1..k]}
  <1>5. 0 \in P
    <2>1. 1..0 = {}
      OBVIOUS
    <2> QED BY <1>3, <2>1
  <1>6. ASSUME NEW k \in P PROVE k + 1 \in P
    <2> SUFFICES ASSUME k + 1 \in 0..n
                 PROVE  /\ it[1..(k + 1)] \in Nat /\ h <= it[1..(k + 1)]
                        /\ \A i \in 1..(k + 1) : batch[i].at <= it[1..(k + 1)]
      OBVIOUS
    <2>1. /\ k \in Nat /\ k + 1 \in 1..n /\ it[1..k] \in Nat /\ h <= it[1..k]
          /\ \A i \in 1..k : batch[i].at <= it[1..k]
      OBVIOUS
    <2>2. it[1..(k + 1)] = Merge(it[1..k], batch[k + 1].at, wall)
      <3>1. (k + 1) - 1 = k
        BY <2>1
      <3> QED BY <1>4, <2>1, <3>1
    <2>3. batch[k + 1].at \in Nat
      BY <2>1
    <2> DEFINE a == it[1..k]
               b == it[1..(k + 1)]
    <2>4. b \in Nat /\ a < b /\ batch[k + 1].at < b
      <3> HIDE DEF a, b
      <3>1. a \in Nat /\ b = Merge(a, batch[k + 1].at, wall)
        BY <2>1, <2>2 DEF a, b
      <3>2. LET m == Merge(a, batch[k + 1].at, wall)
            IN m \in Nat /\ a < m /\ batch[k + 1].at < m
        BY <2>3, <3>1, Later
      <3> QED BY <3>1, <3>2
    <2>5. \A i \in 1..(k + 1) : i = k + 1 \/ i \in 1..k
      BY <2>1
    <2> HIDE DEF a, b
    <2>6. \A i \in 1..k : batch[i].at \in Nat /\ batch[i].at <= a
      BY <2>1 DEF a
    <2>7. h <= b /\ \A i \in 1..(k + 1) : batch[i].at <= b
      BY <2>1, <2>3, <2>4, <2>5, <2>6 DEF a
    <2> QED BY <2>4, <2>7 DEF b
  <1>7. P \in SUBSET Nat
    OBVIOUS
  <1> HIDE DEF P
  <1>8. n \in P
    BY <1>5, <1>6, <1>7, AllNumbers
  <1> QED BY <1>2, <1>8 DEF P

-----------------------------------------------------------------------------
(* What a command records *)

\* Each command's payloads are a sequence.
LEMMA DoIs == ASSUME NEW s, NEW c, c.op \in Operations PROVE \E S : Do(s, c) \in Seq(S)
  <1>1. CASE c.op = "receive"
    <2> DEFINE a == [kind |-> "opened", id |-> c.id]
               b == [kind |-> "line", id |-> c.id]
               d == [kind |-> "received", id |-> c.id, move |-> Into(c.at, c.qty)]
               S == {a, b, d}
    <2>1. Do(s, c) = DoReceive(s, c)
      BY <1>1 DEF Do
    <2>2. DoReceive(s, c) = IF ~ s.listed \/ s.receipts[c.id] = "closed" THEN << >>
                            ELSE (IF s.receipts[c.id] = "none" THEN <<a>> ELSE << >>) \o <<b, d>>
      BY DEF DoReceive, Refused
    <2>3. a \in S /\ b \in S /\ d \in S
      OBVIOUS
    <2> HIDE DEF a, b, d, S
    <2>4. <<a>> \in Seq(S) /\ << >> \in Seq(S) /\ <<b, d>> \in Seq(S)
      BY <2>3
    <2>5. <<a>> \o <<b, d>> \in Seq(S) /\ << >> \o <<b, d>> \in Seq(S)
      BY <2>4
    <2>6. DoReceive(s, c) \in Seq(S)
      BY <2>2, <2>4, <2>5
    <2> QED BY <2>1, <2>6
  <1>2. CASE c.op = "closecount"
    <2> DEFINE count == s.counts[c.id]
               diff == count.qty - s.stock[count.at]
               v == [kind |-> "adjusted", failed |-> "none",
                     move |-> IF diff > 0 THEN Into(count.at, diff) ELSE Out(count.at, -diff)]
               d == [kind |-> "countclosed", id |-> c.id]
               booked == IF count.qty < 0 \/ diff = 0 THEN << >> ELSE Variance(count.at, diff)
               S == {v, d}
    <2>1. Do(s, c) = IF count.status # "open" THEN << >> ELSE Append(booked, d)
      BY <1>2 DEF Do, DoCloseCount, Refused
    <2>2. booked \in {<< >>, <<v>>}
      BY DEF Variance, Adjustment
    <2>3. v \in S /\ d \in S
      OBVIOUS
    <2> HIDE DEF v, d, S, booked
    <2>4. << >> \in Seq(S) /\ booked \in Seq(S)
      <3>1. << >> \in Seq(S) /\ <<v>> \in Seq(S)
        BY <2>3
      <3> QED BY <2>2, <3>1
    <2>5. Append(booked, d) \in Seq(S)
      BY <2>3, <2>4
    <2> QED BY <2>1, <2>4, <2>5
  <1>3. CASE c.op \notin {"receive", "closecount"}
    <2>1. Do(s, c) = << >> \/ \E p : Do(s, c) = <<p>>
      BY <1>3 DEF Operations, Do, DoCloseReceipt, DoPutAway, DoPick, DoReserve, DoEndHold,
                  DoDispatchTransfer, DoReceiveTransfer, DoStartCount, DoCountLine, Refused
    <2>2. << >> \in Seq({}) /\ \A p : <<p>> \in Seq({p})
      OBVIOUS
    <2> QED BY <2>1, <2>2
  <1> QED BY <1>1, <1>2, <1>3

LEMMA SealedIs ==
    ASSUME NEW payloads
    PROVE  Sealed(payloads) =
             [i \in DOMAIN payloads |->
                [author |-> Home, seq |-> seq + i,
                 at |-> TicksFrom(clk[Home], Physical(Home), Len(payloads))[i],
                 recorded |-> Physical(Home), cause |-> 0, says |-> payloads[i]]]
  BY DEF Sealed, TicksFrom, Ticking

-----------------------------------------------------------------------------
(* The invariant *)

\* No reading in the log is past this one; this node's numbers end here, without a gap.
SeenBy(L, h) == \A e \in L : e.at \in Nat /\ e.at <= h
Numbered(L, k) == {e.seq : e \in Own(L)} = 1..k

LogSound == (\E h \in Nat : SeenBy(log, h)) /\ (\E k \in Nat : Numbered(log, k))

\* Central and the other node send events of their own.
QueueSound == \E S : queue \in Seq(S) /\ \A e \in S : e.author \in {Central, Other} /\ e.at \in Nat

\* A process that runs has recovered the clock and the last number.
Recovered == pc # "down" => SeenBy(log, clk[Home]) /\ Numbered(log, seq)

NodeInv ==
    /\ plan \in Plans /\ now \in Nat /\ clk \in [Authors -> Nat] /\ seq \in Nat
    /\ pulled \in Nat /\ call.upto \in Nat
    /\ LogSound /\ QueueSound /\ Recovered

LEMMA HighestIs ==
    ASSUME NEW S \in SUBSET Nat, NEW bound \in Nat, \A x \in S : x <= bound
    PROVE  Highest(S) \in S \cup {0} /\ \A x \in S : x <= Highest(S)
  <1> DEFINE Above == {y \in Nat : \A x \in S : x <= y}
  <1>1. Above # {} /\ Above \subseteq Nat
    OBVIOUS
  <1>2. PICK y \in Above : \A z \in Above : ~ (<<z, y>> \in OpToRel(<, Nat))
    BY <1>1, NatLessThanWellFounded, WFMin
  <1>3. \A z \in Above : ~ (z < y)
    BY <1>2 DEF OpToRel
  <1>4. y \in S \cup {0}
    <2> SUFFICES ASSUME y \notin S, y # 0 PROVE FALSE
      OBVIOUS
    <2>1. y - 1 \in Above
      OBVIOUS
    <2> QED BY <1>3, <2>1
  <1>5. \E x \in S \cup {0} : \A z \in S : z <= x
    BY <1>4
  <1> QED BY <1>5 DEF Highest

\* The readings of a sequence of events have a bound.
LEMMA Bounded ==
    ASSUME NEW n \in Nat, NEW f, \A i \in 1..n : f[i] \in Nat
    PROVE  \E h \in Nat : \A i \in 1..n : f[i] <= h
  <1> DEFINE P == {k \in Nat : k \in 0..n => \E h \in Nat : \A i \in 1..k : f[i] <= h}
  <1>1. 0 \in P
    OBVIOUS
  <1>2. ASSUME NEW k \in P PROVE k + 1 \in P
    <2> SUFFICES ASSUME k + 1 \in 0..n PROVE \E h \in Nat : \A i \in 1..(k + 1) : f[i] <= h
      OBVIOUS
    <2>1. k \in Nat /\ k + 1 \in 1..n
      OBVIOUS
    <2>2. PICK h \in Nat : \A i \in 1..k : f[i] <= h
      BY <2>1
    <2>3. f[k + 1] \in Nat /\ h + f[k + 1] \in Nat
      BY <2>1
    <2>4. \A i \in 1..(k + 1) : i = k + 1 \/ (i \in 1..k /\ i \in 1..n)
      BY <2>1
    <2>5. \A i \in 1..(k + 1) : f[i] <= h + f[k + 1]
      BY <2>2, <2>3, <2>4
    <2> QED BY <2>3, <2>5
  <1>3. P \in SUBSET Nat
    OBVIOUS
  <1> HIDE DEF P
  <1>4. n \in P
    BY <1>1, <1>2, <1>3, AllNumbers
  <1> QED BY <1>4 DEF P

LEMMA NodeInvInit == ASSUME Init PROVE NodeInv
  <1>1. plan \in Plans /\ plan.history \in Seq(Event) /\ log = Range(plan.history)
    BY NodeServiceAssumption DEF Init
  <1> DEFINE n == Len(plan.history)
  <1>2. n \in Nat /\ log = {plan.history[i] : i \in 1..n} /\ \A i \in 1..n : plan.history[i] \in Event
    BY <1>1, LenProperties DEF Range
  <1>3. PICK h \in Nat : SeenBy(log, h)
    <2> DEFINE f == [i \in 1..n |-> plan.history[i].at]
    <2>1. \A i \in 1..n : f[i] \in Nat
      BY <1>2 DEF Event
    <2>2. PICK h \in Nat : \A i \in 1..n : f[i] <= h
      <3> HIDE DEF f, n
      <3> QED BY <1>2, <2>1, Bounded
    <2>3. SeenBy(log, h)
      BY <1>2, <2>1, <2>2 DEF SeenBy
    <2> QED BY <2>3
  <1>4. PICK k \in Nat : Numbered(log, k)
    <2>1. PICK k \in 0..n : {e.seq : e \in {e \in Range(plan.history) : e.author = Home}} = 1..k
      BY <1>1, NodeServiceAssumption
    <2>2. k \in Nat
      BY <1>2, <2>1
    <2>3. Numbered(log, k)
      BY <1>1, <2>1 DEF Numbered, Own
    <2> QED BY <2>2, <2>3
  <1>5. QueueSound
    <2>1. queue = << >> /\ << >> \in Seq({})
      BY DEF Init
    <2> QED BY <2>1 DEF QueueSound
  <1>6. /\ now \in Nat /\ clk \in [Authors -> Nat] /\ seq \in Nat /\ pulled \in Nat
        /\ call.upto \in Nat /\ pc = "down"
    BY DEF Init, Idle
  <1> QED BY <1>1, <1>3, <1>4, <1>5, <1>6 DEF NodeInv, LogSound, Recovered

-----------------------------------------------------------------------------
(* Every step keeps it *)

LEMMA PhysicalIs == ASSUME NodeInv, NEW a \in Authors PROVE Physical(a) \in Nat
  BY NodeServiceAssumption DEF NodeInv, Physical

LEMMA StandingKeeps ==
    ASSUME NodeInv, UNCHANGED <<plan, log, queue, clk, seq>>, now' \in Nat, pulled' \in Nat,
           call'.upto \in Nat, pc' # "down" => pc # "down"
    PROVE  NodeInv'
  BY DEF NodeInv, LogSound, QueueSound, Recovered, SeenBy, Numbered, Own

LEMMA OpenKeeps == ASSUME NodeInv, Open PROVE NodeInv'
  <1>1. /\ UNCHANGED <<plan, log, queue, now, pulled, call>>
        /\ seq' = HighestSeq(log) /\ clk' = [clk EXCEPT ![Home] = LastReading]
    BY DEF Open, disk, bounds
  <1>2. PICK k \in Nat : Numbered(log, k)
    BY DEF NodeInv, LogSound
  <1>3. seq' = k
    <2> DEFINE S == {e.seq : e \in Own(log)}
    <2>1. S = 1..k
      BY <1>2 DEF Numbered
    <2> HIDE DEF S
    <2>2. Highest(S) \in S \cup {0} /\ \A x \in S : x <= Highest(S)
      <3>1. S \in SUBSET Nat /\ \A x \in S : x <= k
        BY <2>1
      <3> QED BY <3>1, HighestIs
    <2>3. Highest(S) = k
      BY <2>1, <2>2
    <2> QED BY <1>1, <2>3 DEF HighestSeq, S
  <1>4. LastReading \in Nat /\ SeenBy(log, LastReading)
    <2> DEFINE S == {e.at : e \in log}
    <2>1. PICK h \in Nat : SeenBy(log, h)
      BY DEF NodeInv, LogSound
    <2>2. S \in SUBSET Nat /\ \A x \in S : x <= h
      BY <2>1 DEF SeenBy
    <2> HIDE DEF S
    <2>3. Highest(S) \in S \cup {0} /\ \A x \in S : x <= Highest(S)
      BY <2>2, HighestIs
    <2>4. Highest(S) \in Nat
      <3>1. \A x \in S \cup {0} : x \in Nat
        BY <2>2
      <3> QED BY <2>3, <3>1
    <2>5. LastReading = Highest(S)
      BY DEF LastReading, S
    <2>6. \A e \in log : e.at \in S
      BY DEF S
    <2> QED BY <2>2, <2>3, <2>4, <2>5, <2>6 DEF SeenBy
  <1>5. clk' \in [Authors -> Nat] /\ clk'[Home] = LastReading
    BY <1>1, <1>4 DEF NodeInv, Authors
  <1> QED BY <1>1, <1>2, <1>3, <1>4, <1>5 DEF NodeInv, LogSound, QueueSound, Recovered, SeenBy, Numbered, Own

LEMMA CrashKeeps == ASSUME NodeInv, Crash PROVE NodeInv'
  <1>1. /\ UNCHANGED <<plan, log, queue, now, pulled>> /\ pc' = "down" /\ seq' = 0
        /\ call'.upto = 0 /\ clk' = [clk EXCEPT ![Home] = 0]
    BY DEF Crash, disk, Idle
  <1>2. clk' \in [Authors -> Nat]
    BY <1>1 DEF NodeInv
  <1> QED BY <1>1, <1>2 DEF NodeInv, LogSound, QueueSound, Recovered, SeenBy, Numbered, Own

LEMMA SendKeeps ==
    ASSUME NodeInv, NEW e, e.author \in {Central, Other}, e.at \in Nat, Send(e)
    PROVE  NodeInv'
  <1>1. /\ UNCHANGED <<plan, log, pc, call, seq, pulled, now>> /\ queue' = Append(queue, e)
        /\ clk' = [clk EXCEPT ![e.author] = e.at]
    BY DEF Send, disk, process, bounds
  <1>2. QueueSound'
    <2>1. PICK S : queue \in Seq(S) /\ \A f \in S : f.author \in {Central, Other} /\ f.at \in Nat
      BY DEF NodeInv, QueueSound
    <2> DEFINE T == S \cup {e}
    <2>2. queue \in Seq(T)
      BY <2>1
    <2>3. queue' \in Seq(T)
      BY <1>1, <2>2
    <2>4. \A f \in T : f.author \in {Central, Other} /\ f.at \in Nat
      BY <2>1
    <2> HIDE DEF T
    <2> QED BY <2>3, <2>4 DEF QueueSound
  <1>3. clk' \in [Authors -> Nat] /\ clk'[Home] = clk[Home]
    BY <1>1 DEF NodeInv, Authors, Central, Other, Home
  <1> QED BY <1>1, <1>2, <1>3 DEF NodeInv, LogSound, Recovered, SeenBy, Numbered, Own

LEMMA ReadingsOf ==
    ASSUME NodeInv, NEW a \in Authors, NEW at \in Nat
    PROVE  /\ Tick(clk[a], Physical(a)) \in Nat /\ Merge(clk[a], at, Physical(a)) \in Nat
           /\ Tick(Merge(clk[a], at, Physical(a)), Physical(a)) \in Nat
  <1>1. clk[a] \in Nat /\ Physical(a) \in Nat
    BY PhysicalIs DEF NodeInv
  <1>2. Tick(clk[a], Physical(a)) \in Nat /\ Merge(clk[a], at, Physical(a)) \in Nat
    BY <1>1, Later
  <1>3. Tick(Merge(clk[a], at, Physical(a)), Physical(a)) \in Nat
    BY <1>1, <1>2, Later
  <1> QED BY <1>2, <1>3

LEMMA RemoteKeeps ==
    ASSUME NodeInv,
           \/ \E e \in Own(log) : \E q : Reject(e, q)
           \/ \E p : Forward(p)
           \/ \E p : \E e \in Own(log) : ForwardArrival(p, e)
    PROVE  NodeInv'
  <1>1. ASSUME NEW a \in {Central, Other}, NEW at \in Nat, NEW cause, NEW p,
               Send(From(a, at, cause, p))
        PROVE  NodeInv'
    <2>1. From(a, at, cause, p).author = a /\ From(a, at, cause, p).at = at
      BY DEF From
    <2> QED BY <1>1, <2>1, SendKeeps
  <1>2. Central \in Authors /\ Other \in Authors /\ \A e \in Own(log) : e.at \in Nat
    BY DEF Authors, NodeInv, LogSound, SeenBy, Own
  <1>3. ASSUME NEW e \in Own(log), NEW q, Reject(e, q) PROVE NodeInv'
    <2>1. \E cause, p : Send(From(Central, Merge(clk[Central], e.at, Physical(Central)), cause, p))
      BY <1>3 DEF Reject
    <2>2. Merge(clk[Central], e.at, Physical(Central)) \in Nat
      BY <1>2, ReadingsOf
    <2> QED BY <1>1, <2>1, <2>2
  <1>4. ASSUME NEW q, Forward(q) PROVE NodeInv'
    <2>1. \E a \in {Central, Other} : \E cause, p : Send(From(a, Tick(clk[a], Physical(a)), cause, p))
      BY <1>4 DEF Forward
    <2>2. \A a \in {Central, Other} : Tick(clk[a], Physical(a)) \in Nat
      BY <1>2, ReadingsOf
    <2> QED BY <1>1, <2>1, <2>2
  <1>5. ASSUME NEW q, NEW e \in Own(log), ForwardArrival(q, e) PROVE NodeInv'
    <2> DEFINE seen == Merge(clk[Other], e.at, Physical(Other))
    <2>1. \E cause, p : Send(From(Other, Tick(seen, Physical(Other)), cause, p))
      BY <1>5 DEF ForwardArrival
    <2>2. Tick(seen, Physical(Other)) \in Nat
      BY <1>2, ReadingsOf
    <2> QED BY <1>1, <2>1, <2>2
  <1> QED BY <1>3, <1>4, <1>5

\* What a command recorded: readings past the clock's, which rise with the numbers.
Recorded(events, n) ==
    /\ DOMAIN events = 1..n
    /\ log' = log \cup {events[i] : i \in 1..n}
    /\ seq' = seq + n /\ clk' = [clk EXCEPT ![Home] = events[n].at]
    /\ \A i \in 1..n : /\ events[i].author = Home /\ events[i].seq = seq + i
                       /\ events[i].at \in Nat /\ clk[Home] < events[i].at
                       /\ \A j \in 1..n : i < j => events[i].at < events[j].at

LEMMA ExecuteIs ==
    ASSUME NodeInv, NEW c \in plan.commands, Execute(c)
    PROVE  \E n \in Nat \ {0} : \E events : Recorded(events, n)
  <1> DEFINE payloads == Do(State(memory), c)
             n == Len(payloads)
             g == TicksFrom(clk[Home], Physical(Home), n)
             events == Sealed(payloads)
  <1>1. c.op \in Operations
    BY NodeServiceAssumption DEF NodeInv, Command, Operations
  <1>2. PICK S : payloads \in Seq(S)
    BY <1>1, DoIs
  <1>3. /\ events # << >> /\ log' = log \cup Range(events) /\ seq' = seq + Len(events)
        /\ clk' = [clk EXCEPT ![Home] = Last(events).at]
    BY DEF Execute
  <1> HIDE DEF payloads
  <1>4. n \in Nat /\ DOMAIN payloads = 1..n
    BY <1>2, LenProperties
  <1>5. events = [i \in 1..n |-> [author |-> Home, seq |-> seq + i, at |-> g[i],
                                  recorded |-> Physical(Home), cause |-> 0, says |-> payloads[i]]]
    BY <1>4, SealedIs
  <1> HIDE DEF n, g, events
  <1>6. Len(events) = n /\ DOMAIN events = 1..n
    <2> DEFINE e(i) == [author |-> Home, seq |-> seq + i, at |-> g[i],
                        recorded |-> Physical(Home), cause |-> 0, says |-> payloads[i]]
               T == {e(i) : i \in 1..n}
    <2>1. events = [i \in 1..n |-> e(i)] /\ \A i \in 1..n : e(i) \in T
      BY <1>5
    <2> HIDE DEF e, T
    <2>2. events \in [1..n -> T]
      BY <2>1
    <2>3. events \in Seq(T) /\ Len(events) = n
      BY <1>4, <2>2
    <2> QED BY <2>2, <2>3
  <1>7. n # 0
    <2> SUFFICES ASSUME n = 0 PROVE FALSE
      OBVIOUS
    <2>1. 1..n = {}
      OBVIOUS
    <2>2. events = << >>
      BY <1>5, <2>1
    <2> QED BY <1>3, <2>2
  <1>8. /\ g[0] = clk[Home] /\ clk[Home] \in Nat /\ \A i \in 0..n : g[i] \in Nat
        /\ \A i \in 0..n, j \in 0..n : i < j => g[i] < g[j]
    <2>1. clk[Home] \in Nat /\ Physical(Home) \in Nat
      BY PhysicalIs DEF NodeInv, Authors
    <2> QED BY <1>4, <2>1, TicksFacts DEF g
  <1>9. ASSUME NEW i \in 1..n
        PROVE  /\ events[i].author = Home /\ events[i].seq = seq + i
               /\ events[i].at \in Nat /\ clk[Home] < events[i].at
               /\ \A j \in 1..n : i < j => events[i].at < events[j].at
    <2>1. \A j \in 1..n : events[j].at = g[j] /\ j \in 0..n
      BY <1>4, <1>5
    <2>2. 0 \in 0..n /\ 0 < i
      BY <1>4
    <2>3. events[i].author = Home /\ events[i].seq = seq + i
      BY <1>5
    <2> QED BY <1>8, <2>1, <2>2, <2>3
  <1>10. Last(events) = events[n]
    BY <1>6 DEF Last
  <1>11. Range(events) = {events[i] : i \in 1..n}
    BY <1>6 DEF Range
  <1>12. Recorded(events, n)
    BY <1>3, <1>6, <1>9, <1>10, <1>11 DEF Recorded
  <1> QED BY <1>4, <1>7, <1>12

LEMMA ExecuteKeeps == ASSUME NodeInv, NEW c \in plan.commands, Execute(c) PROVE NodeInv'
  <1>1. PICK n \in Nat \ {0} : \E events : Recorded(events, n)
    BY ExecuteIs
  <1>2. PICK events : Recorded(events, n)
    BY <1>1
  <1>3. UNCHANGED <<plan, queue, pulled, now>> /\ pc = "up" /\ call'.upto = 0
    BY DEF Execute
  <1>4. SeenBy(log, clk[Home]) /\ Numbered(log, seq) /\ seq \in Nat /\ clk[Home] \in Nat
    BY <1>3 DEF NodeInv, Recovered, Authors
  <1>5. n \in 1..n /\ events[n].at \in Nat /\ clk[Home] < events[n].at
    BY <1>2 DEF Recorded
  <1>6. clk' \in [Authors -> Nat] /\ clk'[Home] = events[n].at
    BY <1>2, <1>5 DEF NodeInv, Authors, Recorded
  <1>7. SeenBy(log', clk'[Home])
    <2>1. ASSUME NEW i \in 1..n PROVE events[i].at \in Nat /\ events[i].at <= events[n].at
      <3>1. i = n \/ i < n
        OBVIOUS
      <3>2. i < n => events[i].at < events[n].at
        BY <1>2, <1>5 DEF Recorded
      <3> QED BY <1>2, <1>5, <3>1, <3>2 DEF Recorded
    <2>2. ASSUME NEW e \in log PROVE e.at \in Nat /\ e.at <= events[n].at
      BY <1>4, <1>5 DEF SeenBy
    <2> QED BY <1>2, <1>6, <2>1, <2>2 DEF SeenBy, Recorded
  <1>8. Numbered(log', seq')
    <2> DEFINE S == {e.seq : e \in Own(log)}
               T == {e.seq : e \in Own(log')}
    <2>1. Own(log') = Own(log) \cup {events[i] : i \in 1..n}
      BY <1>2 DEF Own, Recorded
    <2>2. S = 1..seq
      BY <1>4 DEF Numbered
    <2>3. \A i \in 1..n : events[i].seq = seq + i
      BY <1>2 DEF Recorded
    <2>4. ASSUME NEW k \in T PROVE k \in 1..(seq + n)
      <3>1. k \in S \/ \E i \in 1..n : k = seq + i
        BY <2>1, <2>3
      <3> HIDE DEF S, T
      <3> QED BY <1>4, <2>2, <3>1
    <2>5. ASSUME NEW k \in 1..(seq + n) PROVE k \in T
      <3>1. k \in 1..seq \/ (k - seq \in 1..n /\ k = seq + (k - seq))
        BY <1>4
      <3>2. S \subseteq T /\ \A i \in 1..n : seq + i \in T
        BY <2>1, <2>3
      <3> HIDE DEF S, T
      <3> QED BY <2>2, <3>1, <3>2
    <2> HIDE DEF T
    <2>6. T = 1..(seq + n)
      BY <2>4, <2>5
    <2> QED BY <1>2, <2>6 DEF T, Numbered, Recorded
  <1>9. seq' \in Nat /\ clk'[Home] \in Nat
    BY <1>2, <1>4, <1>5, <1>6 DEF Recorded
  <1>10. LogSound' /\ Recovered'
    BY <1>7, <1>8, <1>9 DEF LogSound, Recovered
  <1>11. QueueSound'
    BY <1>3 DEF NodeInv, QueueSound
  <1> QED BY <1>3, <1>6, <1>9, <1>10, <1>11 DEF NodeInv

\* What a batch of the queue left: events of others, none past the new reading.
TakenIn(batch, n) ==
    /\ pc = "up" /\ call'.upto \in Nat /\ UNCHANGED <<plan, queue, pulled, now>>
    /\ DOMAIN batch = 1..n
    /\ \A k \in 1..n : batch[k].author # Home /\ batch[k].at \in Nat
    /\ log' = log \cup {batch[k] : k \in 1..n}
    /\ clk' = [clk EXCEPT ![Home] = AfterAll(clk[Home], batch, Physical(Home))]
    /\ seq' = Max2(seq, HighestSeq(log'))

LEMMA IngestIs == ASSUME NodeInv, Pull PROVE \E batch : \E n \in Nat : TakenIn(batch, n)
  <1>1. PICK i \in {pulled, pulled + 1} \ {0} : \E j \in pulled + 1 .. Len(queue) : Ingest(i, j)
    BY DEF Pull
  <1>2. PICK j \in pulled + 1 .. Len(queue) : Ingest(i, j)
    BY <1>1
  <1>3. PICK S : queue \in Seq(S) /\ \A e \in S : e.author \in {Central, Other} /\ e.at \in Nat
    BY DEF NodeInv, QueueSound
  <1>4. /\ pulled \in Nat /\ Len(queue) \in Nat /\ queue \in [1..Len(queue) -> S]
        /\ i \in Nat \ {0} /\ j \in Nat /\ i <= j /\ j <= Len(queue)
    BY <1>3, LenProperties DEF NodeInv
  <1> DEFINE batch == SubSeq(queue, i, j)
             n == j - i + 1
  <1>5. batch \in Seq(S) /\ Len(batch) = n /\ n \in Nat
    <2>1. i \in Int /\ j \in Int /\ \A k \in i..j : queue[k] \in S
      BY <1>4
    <2> QED BY <1>4, <2>1, SubSeqProperties
  <1>6. /\ pc = "up" /\ UNCHANGED <<plan, queue, pulled, now>> /\ call'.upto = j
        /\ log' = log \cup Range(batch)
        /\ clk' = [clk EXCEPT ![Home] =
                     FoldLeft(LAMBDA h, e : Merge(h, e.at, Physical(Home)), @, batch)]
        /\ seq' = Max2(seq, HighestSeq(log'))
    BY <1>2 DEF Ingest, bounds
  <1> HIDE DEF batch, n
  <1>7. DOMAIN batch = 1..n /\ \A k \in 1..n : batch[k] \in S
    BY <1>5, LenProperties
  <1>8. clk' = [clk EXCEPT ![Home] = AfterAll(clk[Home], batch, Physical(Home))]
    BY <1>6 DEF FoldLeft, MapThenFoldSet, AfterAll, Seeing
  <1>9. Range(batch) = {batch[k] : k \in 1..n}
    BY <1>7 DEF Range
  <1>10. \A k \in 1..n : batch[k].author # Home /\ batch[k].at \in Nat
    BY <1>3, <1>7 DEF Home, Central, Other
  <1>11. TakenIn(batch, n)
    BY <1>4, <1>6, <1>7, <1>8, <1>9, <1>10 DEF TakenIn
  <1> QED BY <1>5, <1>11

LEMMA IngestKeeps == ASSUME NodeInv, Pull PROVE NodeInv'
  <1>0. PICK batch : \E n \in Nat : TakenIn(batch, n)
    BY IngestIs
  <1>1. PICK n \in Nat : TakenIn(batch, n)
    BY <1>0
  <1> DEFINE h == AfterAll(clk[Home], batch, Physical(Home))
  <1>2. SeenBy(log, clk[Home]) /\ Numbered(log, seq) /\ seq \in Nat /\ clk[Home] \in Nat
        /\ Physical(Home) \in Nat
    BY <1>1, PhysicalIs DEF NodeInv, Recovered, Authors, TakenIn
  <1>3. h \in Nat /\ clk[Home] <= h /\ \A k \in 1..n : batch[k].at <= h
    BY <1>1, <1>2, AfterAllFacts DEF TakenIn
  <1> HIDE DEF h
  <1>4. SeenBy(log', h)
    BY <1>1, <1>2, <1>3 DEF SeenBy, TakenIn
  <1>5. Own(log') = Own(log)
    BY <1>1 DEF Own, TakenIn
  <1>6. seq' = seq
    <2> DEFINE S == {e.seq : e \in Own(log)}
    <2>1. S = 1..seq
      BY <1>2 DEF Numbered
    <2> HIDE DEF S
    <2>2. S \in SUBSET Nat /\ \A x \in S : x <= seq
      BY <1>2, <2>1
    <2>3. Highest(S) \in S \cup {0}
      BY <1>2, <2>2, HighestIs
    <2>4. Highest(S) \in Nat /\ Highest(S) <= seq
      <3>1. \A x \in S \cup {0} : x \in Nat /\ x <= seq
        BY <1>2, <2>2
      <3> QED BY <2>3, <3>1
    <2>5. HighestSeq(log') = Highest(S)
      BY <1>5 DEF HighestSeq, S
    <2> QED BY <1>1, <1>2, <2>4, <2>5 DEF Max2, TakenIn
  <1>7. clk' \in [Authors -> Nat] /\ clk'[Home] = h
    BY <1>1, <1>3 DEF NodeInv, Authors, h, TakenIn
  <1>8. Numbered(log', seq')
    BY <1>2, <1>5, <1>6 DEF Numbered
  <1> QED BY <1>1, <1>2, <1>3, <1>4, <1>6, <1>7, <1>8 DEF NodeInv, LogSound, QueueSound, Recovered, TakenIn

LEMMA NodeInvNext == ASSUME NodeInv, [Next]_vars PROVE NodeInv'
  <1>1. CASE Service \/ FailApply \/ Clock
    <2>1. NodeInv => now \in Nat /\ now + 1 \in Nat /\ pulled \in Nat /\ call.upto \in Nat
      BY DEF NodeInv
    <2>2. CASE Open
      BY <2>2, OpenKeeps
    <2>3. CASE Clear
      <3>1. UNCHANGED <<plan, log, queue, clk, seq, now, pulled, call>> /\ pc # "down"
        BY <2>3 DEF Clear, bounds
      <3> QED BY <2>1, <3>1, StandingKeeps
    <2>4. CASE ApplyNext
      <3>1. UNCHANGED <<plan, log, queue, clk, seq, now, pulled, call>> /\ pc # "down"
        BY <2>4 DEF ApplyNext, bounds
      <3> QED BY <2>1, <3>1, StandingKeeps
    <2>5. CASE Opened
      <3>1. UNCHANGED <<plan, log, queue, clk, seq, now, pulled, call>> /\ pc # "down"
        BY <2>5 DEF Opened, bounds
      <3> QED BY <2>1, <3>1, StandingKeeps
    <2>6. CASE Return
      <3>1. /\ UNCHANGED <<plan, log, queue, clk, seq, now>> /\ pc # "down"
            /\ pulled' \in {pulled, call.upto} /\ call'.upto = 0
        BY <2>6 DEF Return, disk, bounds, Idle
      <3> QED BY <2>1, <3>1, StandingKeeps
    <2>7. CASE FailApply
      <3>1. UNCHANGED <<plan, log, queue, clk, seq, now, pulled>> /\ pc # "down" /\ call'.upto = 0
        BY <2>7 DEF FailApply, disk, Idle
      <3> QED BY <2>1, <3>1, StandingKeeps
    <2>8. CASE Clock
      <3>1. UNCHANGED <<plan, log, queue, clk, seq, pulled, call, pc>> /\ now' = now + 1
        BY <2>8 DEF Clock, disk, process
      <3> QED BY <2>1, <3>1, StandingKeeps
    <2> QED BY <1>1, <2>2, <2>3, <2>4, <2>5, <2>6, <2>7, <2>8 DEF Service
  <1>2. CASE Crash
    BY <1>2, CrashKeeps
  <1>3. CASE \E c \in plan.commands : Execute(c)
    BY <1>3, ExecuteKeeps
  <1>4. CASE Pull
    BY <1>4, IngestKeeps
  <1>5. CASE \/ \E e \in Own(log) : \E q : Reject(e, q)
             \/ \E p : Forward(p)
             \/ \E p : \E e \in Own(log) : ForwardArrival(p, e)
    BY <1>5, RemoteKeeps
  <1>6. CASE Wait \/ UNCHANGED vars
    <2>1. UNCHANGED <<plan, log, queue, clk, seq, now, pulled, call, pc>>
      BY <1>6 DEF Wait, vars, disk, process, bounds
    <2>2. now \in Nat /\ pulled \in Nat /\ call.upto \in Nat
      BY DEF NodeInv
    <2> QED BY <2>1, <2>2, StandingKeeps
  <1> QED BY <1>1, <1>2, <1>3, <1>4, <1>5, <1>6 DEF Next

-----------------------------------------------------------------------------
(* What a step adds of this node's own *)

Sorted(e) ==
    /\ \A f \in log : Before(f, e)
    /\ \A i \in 1..e.seq : \E f \in Own(log') : f.seq = i /\ (i < e.seq => Before(f, e))

LEMMA ExecuteSorts ==
    ASSUME NodeInv, NEW c \in plan.commands, Execute(c), NEW e \in log' \ log PROVE Sorted(e)
  <1>1. PICK n \in Nat \ {0} : \E events : Recorded(events, n)
    BY ExecuteIs
  <1>2. PICK events : Recorded(events, n)
    BY <1>1
  <1>3. pc # "down"
    BY DEF Execute
  <1>4. SeenBy(log, clk[Home]) /\ Numbered(log, seq) /\ seq \in Nat /\ clk[Home] \in Nat
    BY <1>3 DEF NodeInv, Recovered, Authors
  <1>5. PICK k \in 1..n : e = events[k]
    BY <1>2 DEF Recorded
  <1>6. e.seq = seq + k /\ e.at \in Nat /\ clk[Home] < e.at
    BY <1>2, <1>5 DEF Recorded
  <1>7. ASSUME NEW f \in log PROVE Before(f, e)
    <2>1. f.at \in Nat /\ f.at <= clk[Home]
      BY <1>4 DEF SeenBy
    <2> QED BY <1>4, <1>6, <2>1 DEF Before
  <1>8. ASSUME NEW i \in 1..e.seq
        PROVE  \E f \in Own(log') : f.seq = i /\ (i < e.seq => Before(f, e))
    <2>1. i \in Nat /\ 1 <= i /\ i <= seq + k /\ k \in Nat /\ k <= n
      BY <1>4, <1>6
    <2>2. CASE i <= seq
      <3> DEFINE T == {f.seq : f \in Own(log)}
      <3>0. T = 1..seq
        BY <1>4 DEF Numbered
      <3>1. i \in T
        <4> HIDE DEF T
        <4> QED BY <1>4, <2>1, <2>2, <3>0
      <3>2. PICK f \in Own(log) : f.seq = i
        BY <3>1
      <3>3. f \in Own(log') /\ f \in log
        BY <1>2 DEF Own, Recorded
      <3> QED BY <1>7, <3>2, <3>3
    <2>3. CASE seq < i
      <3> DEFINE m == i - seq
      <3>1. m \in 1..n /\ seq + m = i /\ m <= k
        BY <1>4, <2>1, <2>3
      <3> HIDE DEF m
      <3>2. events[m] \in Own(log') /\ events[m].seq = i
        BY <1>2, <3>1 DEF Own, Recorded
      <3>3. i < e.seq => Before(events[m], e)
        <4> SUFFICES ASSUME i < e.seq PROVE Before(events[m], e)
          OBVIOUS
        <4>1. m < k
          BY <1>4, <1>6, <2>1, <3>1
        <4>2. events[m].at < e.at
          BY <1>2, <1>5, <3>1, <4>1 DEF Recorded
        <4> QED BY <4>2 DEF Before
      <3> QED BY <3>2, <3>3
    <2> QED BY <1>4, <2>1, <2>2, <2>3
  <1> QED BY <1>7, <1>8 DEF Sorted

LEMMA NextSorts ==
    ASSUME NodeInv, [Next]_vars PROVE \A e \in Own(log' \ log) : Sorted(e)
  <1>1. CASE \E c \in plan.commands : Execute(c)
    BY <1>1, ExecuteSorts DEF Own
  <1>2. CASE Pull
    <2>1. PICK batch : \E n \in Nat : TakenIn(batch, n)
      BY <1>2, IngestIs
    <2>2. PICK n \in Nat : TakenIn(batch, n)
      BY <2>1
    <2>3. Own(log' \ log) = {}
      BY <2>2 DEF Own, TakenIn
    <2> QED BY <2>3
  <1>3. CASE Service \/ Crash \/ FailApply \/ Clock \/ Wait \/ UNCHANGED vars
    <2>1. log' = log
      BY <1>3 DEF Service, Open, Clear, ApplyNext, Opened, Return, Crash, FailApply, Clock, Wait,
                  vars, disk
    <2> QED BY <2>1 DEF Own
  <1>4. CASE \/ \E e \in Own(log) : \E q : Reject(e, q)
             \/ \E p : Forward(p)
             \/ \E p : \E e \in Own(log) : ForwardArrival(p, e)
    <2>1. \A e : Send(e) => log' = log
      BY DEF Send, disk
    <2>2. log' = log
      BY <1>4, <2>1 DEF Reject, Forward, ForwardArrival
    <2> QED BY <2>2 DEF Own
  <1> QED BY <1>1, <1>2, <1>3, <1>4 DEF Next

\* What a node records sorts after all it had seen, in the order of its own numbers, which
\* have no gap, for any clocks, histories, calls and crashes: the clock and the last number
\* recovered from the log when the process starts bound all that is in it (recover), and
\* each reading is past the last one (Tick, Merge).
THEOREM OwnSortsLastCorrect == Spec => OwnSortsLast
  <1>1. Init => NodeInv
    BY NodeInvInit
  <1>2. NodeInv /\ [Next]_vars => NodeInv'
    BY NodeInvNext
  <1>3. NodeInv /\ [Next]_vars
          => [\A e \in Own(log' \ log) :
                 /\ \A f \in log : Before(f, e)
                 /\ \A i \in 1..e.seq : \E f \in Own(log') :
                       f.seq = i /\ (i < e.seq => Before(f, e))]_vars
    BY NextSorts DEF Sorted
  <1> QED BY <1>1, <1>2, <1>3, PTL DEF Spec, OwnSortsLast

-----------------------------------------------------------------------------
(* The order of a replay *)

Distinct(S) == \A e, f \in S : Id(e) = Id(f) => e = f

LEMMA BeforeOrders ==
    ASSUME NEW e \in Event, NEW f \in Event
    PROVE  /\ ~ Before(e, e)
           /\ Before(e, f) => ~ Before(f, e)
           /\ \A g \in Event : Before(g, e) /\ Before(e, f) => Before(g, f)
           /\ Id(e) # Id(f) => Before(e, f) \/ Before(f, e)
  <1>1. \A g \in Event : g.at \in Nat /\ g.author \in Nat /\ g.seq \in Nat
    BY DEF Event, Authors, Central, Home, Other
  <1> QED BY <1>1 DEF Before, Id

\* A set of events in the order of a replay has each of its events in one place.
Enumerates(q, S) ==
    /\ q \in [1..Cardinality(S) -> S]
    /\ \A e \in S : \E i \in 1..Cardinality(S) : q[i] = e
    /\ \A i, j \in 1..Cardinality(S) : q[i] = q[j] => i = j

LEMMA InOrderIs ==
    ASSUME NEW S \in SUBSET Event, IsFiniteSet(S), Distinct(S)
    PROVE  Enumerates(InOrder(S), S)
  <1> DEFINE N == Cardinality(S)
             Below(e) == {f \in S : Before(f, e)}
             Rank(e) == Cardinality(Below(e))
             r == [e \in S |-> Rank(e) + 1]
  <1>1. N \in Nat /\ \A e \in S : IsFiniteSet(Below(e)) /\ Rank(e) \in Nat
    BY FS_CardinalityType, FS_Subset
  <1>2. ASSUME NEW e \in S PROVE Rank(e) < N
    <2>1. Below(e) \in SUBSET (S \ {e})
      BY BeforeOrders
    <2>2. IsFiniteSet(S \ {e}) /\ Cardinality(S \ {e}) = N - 1
      BY FS_RemoveElement
    <2> HIDE DEF Below, N
    <2>3. Rank(e) <= N - 1
      BY <2>1, <2>2, FS_Subset
    <2> QED BY <1>1, <2>3
  <1>3. ASSUME NEW e \in S, NEW f \in S, Before(e, f) PROVE Rank(e) < Rank(f)
    <2>1. Below(e) \in SUBSET Below(f) /\ e \in Below(f) /\ e \notin Below(e)
      BY <1>3, BeforeOrders
    <2> HIDE DEF Below
    <2>2. Rank(e) <= Rank(f) /\ Rank(e) # Rank(f)
      BY <1>1, <2>1, FS_Subset
    <2> QED BY <1>1, <2>2
  <1>4. ASSUME NEW e \in S, NEW f \in S, Rank(e) = Rank(f) PROVE e = f
    <2>1. ~ Before(e, f) /\ ~ Before(f, e)
      BY <1>1, <1>3, <1>4
    <2> QED BY <2>1, BeforeOrders DEF Distinct
  <1> HIDE DEF N, Below, Rank
  <1>5. r \in Injection(S, 1..N)
    BY <1>1, <1>2, <1>4 DEF Injection, IsInjective
  <1>6. IsFiniteSet(1..N) /\ Cardinality(1..N) = N
    <2>1. 1 \in Int /\ N \in Int
      BY <1>1
    <2>2. IsFiniteSet(1..N) /\ Cardinality(1..N) = IF 1 > N THEN 0 ELSE N - 1 + 1
      BY <2>1, FS_Interval
    <2> QED BY <1>1, <2>2
  <1>7. r \in Surjection(S, 1..N)
    <2> HIDE DEF r
    <2>1. Cardinality(S) = Cardinality(1..N)
      BY <1>6 DEF N
    <2> QED BY <1>5, <1>6, <2>1, FS_Injection
  <1> DEFINE q == InOrder(S)
  <1>8. ASSUME NEW i \in 1..N PROVE q[i] \in S /\ Rank(q[i]) = i - 1
    <2>1. PICK e \in S : r[e] = i
      BY <1>7 DEF Surjection
    <2>2. Rank(e) = i - 1
      BY <1>1, <2>1
    <2>3. q[i] = CHOOSE d \in S : Rank(d) = i - 1
      BY DEF InOrder, N, Rank, Below
    <2> HIDE DEF q
    <2> QED BY <2>2, <2>3
  <1>9. DOMAIN q = 1..N /\ q = [i \in 1..N |-> q[i]]
    <2> DEFINE At(i) == CHOOSE e \in S : Cardinality({f \in S : Before(f, e)}) = i - 1
    <2>1. q = [i \in 1..N |-> At(i)]
      BY DEF InOrder, N
    <2> HIDE DEF q, At
    <2> QED BY <2>1
  <1> HIDE DEF q
  <1>10. ASSUME NEW e \in S PROVE \E i \in 1..N : q[i] = e
    <2>1. Rank(e) + 1 \in 1..N /\ (Rank(e) + 1) - 1 = Rank(e)
      BY <1>1, <1>2
    <2>2. q[Rank(e) + 1] \in S /\ Rank(q[Rank(e) + 1]) = Rank(e)
      BY <1>8, <2>1
    <2> QED BY <1>4, <2>1, <2>2
  <1>11. ASSUME NEW i \in 1..N, NEW j \in 1..N, q[i] = q[j] PROVE i = j
    <2>1. i - 1 = j - 1
      BY <1>8, <1>11
    <2> QED BY <2>1
  <1> QED BY <1>8, <1>9, <1>10, <1>11 DEF Enumerates, q, N

-----------------------------------------------------------------------------
(* Folding a sequence *)

\* Functions of the index sets of a sequence, by which FoldLeft is defined: the value for a
\* set is made of the value without its last index.
Folding(it, V, base, F, n) ==
    /\ it \in [SUBSET (1..n) -> V]
    /\ \A s \in SUBSET (1..n) :
          it[s] = IF s = {} THEN base ELSE F[<<it[s \ {Max(s)}], Max(s)>>]

LEMMA FoldingExists ==
    ASSUME NEW V, NEW base \in V, NEW n \in Nat, NEW F \in [V \X (1..n) -> V]
    PROVE  \E it : Folding(it, V, base, F, n)
  <1> DEFINE S == 1..n
             c == [s \in SUBSET S |-> Max(s)]
             G == [p \in (SUBSET S) \X V |-> IF p[1] = {} THEN p[2] ELSE F[<<p[2], c[p[1]]>>]]
  <1>1. IsFiniteSet(S)
    BY FS_Interval
  <1>2. \A s \in SUBSET S : s # {} => c[s] = Max(s) /\ c[s] \in s /\ c[s] \in S
    BY MaxIs
  <1>3. G \in [(SUBSET S) \X V -> V]
    <2> HIDE DEF c
    <2> QED BY <1>2
  <1>4. \A s \in SUBSET S, v \in V : s # {} => G[<<s, v>>] = F[<<v, c[s]>>]
    OBVIOUS
  <1> HIDE DEF G, c, S
  <1>5. PICK it \in [SUBSET S -> V] : Recursion(it, S, base, G, c)
    BY <1>1, <1>2, <1>3, RecursionExists
  <1>6. ASSUME NEW s \in SUBSET S
        PROVE  it[s] = IF s = {} THEN base ELSE F[<<it[s \ {Max(s)}], Max(s)>>]
    <2>1. it[s] = IF s = {} THEN base ELSE G[<<s, it[s \ {c[s]}]>>]
      BY <1>5 DEF Recursion
    <2>2. s \ {c[s]} \in SUBSET S /\ it[s \ {c[s]}] \in V
      BY <1>5
    <2>3. s # {} => it[s] = F[<<it[s \ {c[s]}], c[s]>>]
      BY <1>4, <2>1, <2>2
    <2> QED BY <1>2, <2>1, <2>3
  <1> QED BY <1>5, <1>6 DEF Folding, S

LEMMA UpToFacts ==
    ASSUME NEW n \in Nat, NEW k \in 1..n
    PROVE  /\ 1..k \in SUBSET (1..n) /\ 1..k # {} /\ Max(1..k) = k
           /\ (1..k) \ {Max(1..k)} = 1..(k - 1)
  <1>0. k \in Nat \ {0} /\ k \in 1..k /\ \A i \in 1..k : i \in 1..n
    OBVIOUS
  <1>1. 1..k \in SUBSET (1..n)
    BY <1>0
  <1>2. Max(1..k) = k
    BY <1>0, MaxOfRun
  <1>3. (1..k) \ {k} = 1..(k - 1)
    <2>1. \A i \in 1..k : i # k => i \in 1..(k - 1)
      BY <1>0
    <2>2. \A i \in 1..(k - 1) : i \in 1..k /\ i # k
      BY <1>0
    <2> QED BY <2>1, <2>2
  <1>4. (1..k) \ {Max(1..k)} = 1..(k - 1)
    BY <1>2, <1>3
  <1>5. 1..k # {}
    BY <1>0
  <1> DEFINE K == 1..k
             J == 1..(k - 1)
             N == 1..n
  <1>6. K \in SUBSET N /\ K # {} /\ Max(K) = k /\ K \ {Max(K)} = J
    BY <1>1, <1>2, <1>4, <1>5
  <1> HIDE DEF K, J, N
  <1> QED BY <1>6 DEF K, J, N

LEMMA StaysIn ==
    ASSUME NEW n \in Nat, NEW V, NEW r, r[0] \in V, \A k \in 1..n : r[k - 1] \in V => r[k] \in V
    PROVE  \A k \in 0..n : r[k] \in V
  <1> DEFINE P == {k \in Nat : k \in 0..n => r[k] \in V}
  <1>1. 0 \in P
    OBVIOUS
  <1>2. ASSUME NEW k \in P PROVE k + 1 \in P
    <2> SUFFICES ASSUME k + 1 \in 0..n PROVE r[k + 1] \in V
      OBVIOUS
    <2>1. k \in Nat /\ k + 1 \in 1..n /\ (k + 1) - 1 = k /\ r[k] \in V
      OBVIOUS
    <2>2. r[(k + 1) - 1] \in V => r[k + 1] \in V
      BY <2>1
    <2> QED BY <2>1, <2>2
  <1>3. P \in SUBSET Nat
    OBVIOUS
  <1> HIDE DEF P
  <1>4. P = Nat
    BY <1>1, <1>2, <1>3, AllNumbers
  <1> QED BY <1>4 DEF P

\* Two runs of one fold go through the same values.
LEMMA RunsAgree ==
    ASSUME NEW n \in Nat, NEW r, NEW t, r[0] = t[0],
           \A k \in 1..n : r[k - 1] = t[k - 1] => r[k] = t[k]
    PROVE  r[n] = t[n]
  <1> DEFINE P == {k \in Nat : k \in 0..n => r[k] = t[k]}
  <1>1. 0 \in P
    OBVIOUS
  <1>2. ASSUME NEW k \in P PROVE k + 1 \in P
    <2> SUFFICES ASSUME k + 1 \in 0..n PROVE r[k + 1] = t[k + 1]
      OBVIOUS
    <2>1. k \in Nat /\ k + 1 \in 1..n /\ (k + 1) - 1 = k /\ r[k] = t[k]
      OBVIOUS
    <2>2. r[(k + 1) - 1] = t[(k + 1) - 1] => r[k + 1] = t[k + 1]
      BY <2>1
    <2> QED BY <2>1, <2>2
  <1>3. P \in SUBSET Nat
    OBVIOUS
  <1> HIDE DEF P
  <1>4. n \in P
    BY <1>1, <1>2, <1>3, AllNumbers
  <1> QED BY <1>4 DEF P

\* The folds of the service.
Applying(it, base, q) ==
    it = [s \in SUBSET DOMAIN q |-> IF s = {} THEN base ELSE Apply(it[s \ {Max(s)}], q[Max(s)])]
Shifting(it, base, q) ==
    it = [s \in SUBSET DOMAIN q |-> IF s = {} THEN base ELSE Moved(it[s \ {Max(s)}], q[Max(s)])]
Counting(it, base, q) ==
    it = [s \in SUBSET DOMAIN q |-> IF s = {} THEN base ELSE it[s \ {Max(s)}] + q[Max(s)].qty]
Leaving(it, base, q) ==
    it = [s \in SUBSET DOMAIN q |->
            IF s = {} THEN base
            ELSE IF IsApplied(table, q[Max(s)]) THEN it[s \ {Max(s)}]
            ELSE Append(it[s \ {Max(s)}], q[Max(s)])]

\* The values these go through, and what they come to.
ApplyRun(r, base, q, n) ==
    /\ r[0] = base /\ \A k \in 1..n : r[k] = Apply(r[k - 1], q[k])
    /\ FoldLeft(Apply, base, q) = r[n]
MovedRun(r, base, q, n) ==
    /\ r[0] = base /\ \A k \in 1..n : r[k] = Moved(r[k - 1], q[k])
    /\ FoldLeft(Moved, base, q) = r[n]
SumRun(r, q, n) ==
    /\ r[0] = 0 /\ \A k \in 1..n : r[k] = r[k - 1] + q[k].qty
    /\ SumOf(q) = r[n]
LeavingRun(r, q, n) ==
    /\ r[0] = << >>
    /\ \A k \in 1..n :
          r[k] = IF IsApplied(table, q[k]) THEN r[k - 1] ELSE Append(r[k - 1], q[k])
    /\ Unapplied(q) = r[n]

LEMMA FoldsAre ==
    /\ \A b, q : FoldLeft(Apply, b, q) = (CHOOSE it : Applying(it, b, q))[DOMAIN q]
    /\ \A b, q : FoldLeft(Moved, b, q) = (CHOOSE it : Shifting(it, b, q))[DOMAIN q]
    /\ \A q : SumOf(q) = (CHOOSE it : Counting(it, 0, q))[DOMAIN q]
    /\ \A q : Unapplied(q) = (CHOOSE it : Leaving(it, << >>, q))[DOMAIN q]
  BY DEF SumOf, Unapplied, FoldLeft, MapThenFoldSet, Applying, Shifting, Counting, Leaving

LEMMA ApplyRuns ==
    ASSUME NEW V, NEW base \in V, NEW n \in Nat, NEW q, DOMAIN q = 1..n,
           \A v \in V, i \in 1..n : Apply(v, q[i]) \in V
    PROVE  \E r \in [0..n -> V] : ApplyRun(r, base, q, n)
  <1> DEFINE F == [p \in V \X (1..n) |-> Apply(p[1], q[p[2]])]
             it == CHOOSE it : Applying(it, base, q)
             r == [k \in 0..n |-> it[1..k]]
  <1>1. F \in [V \X (1..n) -> V] /\ \A v \in V, k \in 1..n : F[<<v, k>>] = Apply(v, q[k])
    OBVIOUS
  <1> HIDE DEF F
  <1>2. PICK jt : Folding(jt, V, base, F, n)
    BY <1>1, FoldingExists
  <1>3. Applying(jt, base, q)
    <2>1. ASSUME NEW s \in SUBSET (1..n), s # {}
          PROVE  jt[s] = Apply(jt[s \ {Max(s)}], q[Max(s)])
      <3>1. s \ {Max(s)} \in SUBSET (1..n) /\ Max(s) \in 1..n
        BY <2>1, MaxIs
      <3> QED BY <1>1, <1>2, <2>1, <3>1 DEF Folding
    <2>2. jt[{}] = base /\ jt = [s \in SUBSET (1..n) |-> jt[s]]
      BY <1>2 DEF Folding
    <2> QED BY <2>1, <2>2 DEF Applying
  <1>4. Applying(it, base, q)
    BY <1>3
  <1>5. FoldLeft(Apply, base, q) = it[1..n]
    BY FoldsAre
  <1> HIDE DEF it
  <1>6. \A s \in SUBSET (1..n) : it[s] = IF s = {} THEN base ELSE Apply(it[s \ {Max(s)}], q[Max(s)])
    BY <1>4 DEF Applying
  <1>7. r[0] = base /\ r[n] = it[1..n]
    <2>1. 1..0 = {} /\ {} \in SUBSET (1..n) /\ 0 \in 0..n /\ n \in 0..n
      OBVIOUS
    <2>2. it[{}] = base
      BY <1>6, <2>1
    <2> QED BY <2>1, <2>2
  <1>8. ASSUME NEW k \in 1..n PROVE r[k] = Apply(r[k - 1], q[k])
    <2>1. k \in 0..n /\ k - 1 \in 0..n
      OBVIOUS
    <2> DEFINE K == 1..k
               J == 1..(k - 1)
               N == 1..n
    <2>2. K \in SUBSET N /\ K # {} /\ Max(K) = k /\ K \ {Max(K)} = J
      BY UpToFacts
    <2>3. \A s \in SUBSET N : s # {} => it[s] = Apply(it[s \ {Max(s)}], q[Max(s)])
      BY <1>6
    <2> HIDE DEF K, J, N
    <2>4. it[K] = Apply(it[J], q[k])
      BY <2>2, <2>3
    <2> DEFINE a == it[K]
               b == it[J]
    <2>5. r[k] = a /\ r[k - 1] = b
      BY <2>1 DEF K, J
    <2> HIDE DEF a, b, r
    <2> QED BY <2>4, <2>5 DEF a, b
  <1>9. r = [k \in 0..n |-> r[k]]
    OBVIOUS
  <1> HIDE DEF r
  <1>10. \A k \in 1..n : r[k - 1] \in V => r[k] \in V
    BY <1>8
  <1>11. \A k \in 0..n : r[k] \in V
    BY <1>7, <1>10, StaysIn
  <1>12. r \in [0..n -> V]
    BY <1>9, <1>11
  <1>13. ApplyRun(r, base, q, n)
    BY <1>5, <1>7, <1>8 DEF ApplyRun
  <1> QED BY <1>12, <1>13

LEMMA MovedRuns ==
    ASSUME NEW V, NEW base \in V, NEW n \in Nat, NEW q, DOMAIN q = 1..n,
           \A v \in V, i \in 1..n : Moved(v, q[i]) \in V
    PROVE  \E r \in [0..n -> V] : MovedRun(r, base, q, n)
  <1> DEFINE F == [p \in V \X (1..n) |-> Moved(p[1], q[p[2]])]
             it == CHOOSE it : Shifting(it, base, q)
             r == [k \in 0..n |-> it[1..k]]
  <1>1. F \in [V \X (1..n) -> V] /\ \A v \in V, k \in 1..n : F[<<v, k>>] = Moved(v, q[k])
    OBVIOUS
  <1> HIDE DEF F
  <1>2. PICK jt : Folding(jt, V, base, F, n)
    BY <1>1, FoldingExists
  <1>3. Shifting(jt, base, q)
    <2>1. ASSUME NEW s \in SUBSET (1..n), s # {}
          PROVE  jt[s] = Moved(jt[s \ {Max(s)}], q[Max(s)])
      <3>1. s \ {Max(s)} \in SUBSET (1..n) /\ Max(s) \in 1..n
        BY <2>1, MaxIs
      <3> QED BY <1>1, <1>2, <2>1, <3>1 DEF Folding
    <2>2. jt[{}] = base /\ jt = [s \in SUBSET (1..n) |-> jt[s]]
      BY <1>2 DEF Folding
    <2> QED BY <2>1, <2>2 DEF Shifting
  <1>4. Shifting(it, base, q)
    BY <1>3
  <1>5. FoldLeft(Moved, base, q) = it[1..n]
    BY FoldsAre
  <1> HIDE DEF it
  <1>6. \A s \in SUBSET (1..n) : it[s] = IF s = {} THEN base ELSE Moved(it[s \ {Max(s)}], q[Max(s)])
    BY <1>4 DEF Shifting
  <1>7. r[0] = base /\ r[n] = it[1..n]
    <2>1. 1..0 = {} /\ {} \in SUBSET (1..n) /\ 0 \in 0..n /\ n \in 0..n
      OBVIOUS
    <2>2. it[{}] = base
      BY <1>6, <2>1
    <2> QED BY <2>1, <2>2
  <1>8. ASSUME NEW k \in 1..n PROVE r[k] = Moved(r[k - 1], q[k])
    <2>1. k \in 0..n /\ k - 1 \in 0..n
      OBVIOUS
    <2> DEFINE K == 1..k
               J == 1..(k - 1)
               N == 1..n
    <2>2. K \in SUBSET N /\ K # {} /\ Max(K) = k /\ K \ {Max(K)} = J
      BY UpToFacts
    <2>3. \A s \in SUBSET N : s # {} => it[s] = Moved(it[s \ {Max(s)}], q[Max(s)])
      BY <1>6
    <2> HIDE DEF K, J, N
    <2>4. it[K] = Moved(it[J], q[k])
      BY <2>2, <2>3
    <2> DEFINE a == it[K]
               b == it[J]
    <2>5. r[k] = a /\ r[k - 1] = b
      BY <2>1 DEF K, J
    <2> HIDE DEF a, b, r
    <2> QED BY <2>4, <2>5 DEF a, b
  <1>9. r = [k \in 0..n |-> r[k]]
    OBVIOUS
  <1> HIDE DEF r
  <1>10. \A k \in 1..n : r[k - 1] \in V => r[k] \in V
    BY <1>8
  <1>11. \A k \in 0..n : r[k] \in V
    BY <1>7, <1>10, StaysIn
  <1>12. r \in [0..n -> V]
    BY <1>9, <1>11
  <1>13. MovedRun(r, base, q, n)
    BY <1>5, <1>7, <1>8 DEF MovedRun
  <1> QED BY <1>12, <1>13

LEMMA SumRuns ==
    ASSUME NEW V, 0 \in V, NEW n \in Nat, NEW q, DOMAIN q = 1..n,
           \A v \in V, i \in 1..n : v + q[i].qty \in V
    PROVE  \E r \in [0..n -> V] : SumRun(r, q, n)
  <1> DEFINE F == [p \in V \X (1..n) |-> p[1] + q[p[2]].qty]
             it == CHOOSE it : Counting(it, 0, q)
             r == [k \in 0..n |-> it[1..k]]
  <1>1. F \in [V \X (1..n) -> V] /\ \A v \in V, k \in 1..n : F[<<v, k>>] = v + q[k].qty
    OBVIOUS
  <1> HIDE DEF F
  <1>2. PICK jt : Folding(jt, V, 0, F, n)
    BY <1>1, FoldingExists
  <1>3. Counting(jt, 0, q)
    <2>1. ASSUME NEW s \in SUBSET (1..n), s # {}
          PROVE  jt[s] = jt[s \ {Max(s)}] + q[Max(s)].qty
      <3>1. s \ {Max(s)} \in SUBSET (1..n) /\ Max(s) \in 1..n
        BY <2>1, MaxIs
      <3> QED BY <1>1, <1>2, <2>1, <3>1 DEF Folding
    <2>2. jt[{}] = 0 /\ jt = [s \in SUBSET (1..n) |-> jt[s]]
      BY <1>2 DEF Folding
    <2> QED BY <2>1, <2>2 DEF Counting
  <1>4. Counting(it, 0, q)
    BY <1>3
  <1>5. SumOf(q) = it[1..n]
    BY FoldsAre
  <1> HIDE DEF it
  <1>6. \A s \in SUBSET (1..n) : it[s] = IF s = {} THEN 0 ELSE it[s \ {Max(s)}] + q[Max(s)].qty
    BY <1>4 DEF Counting
  <1>7. r[0] = 0 /\ r[n] = it[1..n]
    <2>1. 1..0 = {} /\ {} \in SUBSET (1..n) /\ 0 \in 0..n /\ n \in 0..n
      OBVIOUS
    <2>2. it[{}] = 0
      BY <1>6, <2>1
    <2> QED BY <2>1, <2>2
  <1>8. ASSUME NEW k \in 1..n PROVE r[k] = r[k - 1] + q[k].qty
    <2>1. k \in 0..n /\ k - 1 \in 0..n
      OBVIOUS
    <2> DEFINE K == 1..k
               J == 1..(k - 1)
               N == 1..n
    <2>2. K \in SUBSET N /\ K # {} /\ Max(K) = k /\ K \ {Max(K)} = J
      BY UpToFacts
    <2>3. \A s \in SUBSET N : s # {} => it[s] = it[s \ {Max(s)}] + q[Max(s)].qty
      BY <1>6
    <2> HIDE DEF K, J, N
    <2>4. it[K] = it[J] + q[k].qty
      BY <2>2, <2>3
    <2> DEFINE a == it[K]
               b == it[J]
    <2>5. r[k] = a /\ r[k - 1] = b
      BY <2>1 DEF K, J
    <2> HIDE DEF a, b, r
    <2> QED BY <2>4, <2>5 DEF a, b
  <1>9. r = [k \in 0..n |-> r[k]]
    OBVIOUS
  <1> HIDE DEF r
  <1>10. \A k \in 1..n : r[k - 1] \in V => r[k] \in V
    BY <1>8
  <1>11. \A k \in 0..n : r[k] \in V
    BY <1>7, <1>10, StaysIn
  <1>12. r \in [0..n -> V]
    BY <1>9, <1>11
  <1>13. SumRun(r, q, n)
    BY <1>5, <1>7, <1>8 DEF SumRun
  <1> QED BY <1>12, <1>13

LEMMA LeavingRuns ==
    ASSUME NEW V, << >> \in V, NEW n \in Nat, NEW q, DOMAIN q = 1..n,
           \A v \in V, i \in 1..n : (IF IsApplied(table, q[i]) THEN v ELSE Append(v, q[i])) \in V
    PROVE  \E r \in [0..n -> V] : LeavingRun(r, q, n)
  <1> DEFINE F == [p \in V \X (1..n) |-> (IF IsApplied(table, q[p[2]]) THEN p[1] ELSE Append(p[1], q[p[2]]))]
             it == CHOOSE it : Leaving(it, << >>, q)
             r == [k \in 0..n |-> it[1..k]]
  <1>1. F \in [V \X (1..n) -> V] /\ \A v \in V, k \in 1..n : F[<<v, k>>] = (IF IsApplied(table, q[k]) THEN v ELSE Append(v, q[k]))
    OBVIOUS
  <1> HIDE DEF F
  <1>2. PICK jt : Folding(jt, V, << >>, F, n)
    BY <1>1, FoldingExists
  <1>3. Leaving(jt, << >>, q)
    <2>1. ASSUME NEW s \in SUBSET (1..n), s # {}
          PROVE  jt[s] = (IF IsApplied(table, q[Max(s)]) THEN jt[s \ {Max(s)}] ELSE Append(jt[s \ {Max(s)}], q[Max(s)]))
      <3>1. s \ {Max(s)} \in SUBSET (1..n) /\ Max(s) \in 1..n
        BY <2>1, MaxIs
      <3> QED BY <1>1, <1>2, <2>1, <3>1 DEF Folding
    <2>2. jt[{}] = << >> /\ jt = [s \in SUBSET (1..n) |-> jt[s]]
      BY <1>2 DEF Folding
    <2> QED BY <2>1, <2>2 DEF Leaving
  <1>4. Leaving(it, << >>, q)
    BY <1>3
  <1>5. Unapplied(q) = it[1..n]
    BY FoldsAre
  <1> HIDE DEF it
  <1>6. \A s \in SUBSET (1..n) : it[s] = IF s = {} THEN << >> ELSE (IF IsApplied(table, q[Max(s)]) THEN it[s \ {Max(s)}] ELSE Append(it[s \ {Max(s)}], q[Max(s)]))
    BY <1>4 DEF Leaving
  <1>7. r[0] = << >> /\ r[n] = it[1..n]
    <2>1. 1..0 = {} /\ {} \in SUBSET (1..n) /\ 0 \in 0..n /\ n \in 0..n
      OBVIOUS
    <2>2. it[{}] = << >>
      BY <1>6, <2>1
    <2> QED BY <2>1, <2>2
  <1>8. ASSUME NEW k \in 1..n PROVE r[k] = (IF IsApplied(table, q[k]) THEN r[k - 1] ELSE Append(r[k - 1], q[k]))
    <2>1. k \in 0..n /\ k - 1 \in 0..n
      OBVIOUS
    <2> DEFINE K == 1..k
               J == 1..(k - 1)
               N == 1..n
    <2>2. K \in SUBSET N /\ K # {} /\ Max(K) = k /\ K \ {Max(K)} = J
      BY UpToFacts
    <2>3. \A s \in SUBSET N : s # {} => it[s] = (IF IsApplied(table, q[Max(s)]) THEN it[s \ {Max(s)}] ELSE Append(it[s \ {Max(s)}], q[Max(s)]))
      BY <1>6
    <2> HIDE DEF K, J, N
    <2>4. it[K] = (IF IsApplied(table, q[k]) THEN it[J] ELSE Append(it[J], q[k]))
      BY <2>2, <2>3
    <2> DEFINE a == it[K]
               b == it[J]
    <2>5. r[k] = a /\ r[k - 1] = b
      BY <2>1 DEF K, J
    <2> HIDE DEF a, b, r
    <2> QED BY <2>4, <2>5 DEF a, b
  <1>9. r = [k \in 0..n |-> r[k]]
    OBVIOUS
  <1> HIDE DEF r
  <1>10. \A k \in 1..n : r[k - 1] \in V => r[k] \in V
    BY <1>8
  <1>11. \A k \in 0..n : r[k] \in V
    BY <1>7, <1>10, StaysIn
  <1>12. r \in [0..n -> V]
    BY <1>9, <1>11
  <1>13. LeavingRun(r, q, n)
    BY <1>5, <1>7, <1>8 DEF LeavingRun
  <1> QED BY <1>12, <1>13

-----------------------------------------------------------------------------
(* The state in memory *)

Count == [at : Places, status : {"none", "open", "closed"}, qty : Int]
StateSet ==
    [listed : BOOLEAN, stock : [Places -> Int], receipts : [Ids -> {"none", "open", "closed"}],
     holds : [Ids -> Hold], transfers : [Ids -> Transfer], pending : [Ids -> Seq(Move)],
     counts : [Ids -> Count]]

Kinds == {"item", "opened", "line", "closed", "released", "consumed", "countclosed", "received",
          "arrived", "putaway", "picked", "adjusted", "reserved", "dispatched", "started",
          "counted"}

LEMMA PayloadFields ==
    ASSUME NEW p \in Payload
    PROVE  /\ p.kind \in Kinds
           /\ p.kind = "item" => p.deleted \in BOOLEAN
           /\ p.kind \in {"opened", "line", "closed", "released", "consumed", "countclosed",
                          "received", "arrived", "reserved", "dispatched", "started", "counted"}
                => p.id \in Ids
           /\ p.kind \in Moving => p.move \in Move
           /\ p.kind = "adjusted" => p.failed \in Ids \cup {"none"}
           /\ p.kind \in {"reserved", "started"} => p.at \in Places
           /\ p.kind \in {"reserved", "counted"} => p.qty \in Nat
           /\ p.kind = "dispatched" => p.source \in Authors /\ p.target \in Authors
  BY DEF Payload, Kinds, Moving

LEMMA MovedTyped ==
    ASSUME NEW stock \in [Places -> Int], NEW m \in Move
    PROVE  Moved(stock, m) \in [Places -> Int]
  BY DEF Moved, Move

LEMMA AllMovedTyped ==
    ASSUME NEW stock \in [Places -> Int], NEW q \in Seq(Move)
    PROVE  FoldLeft(Moved, stock, q) \in [Places -> Int]
  <1>1. Len(q) \in Nat /\ DOMAIN q = 1..Len(q) /\ \A i \in 1..Len(q) : q[i] \in Move
    BY LenProperties
  <1> DEFINE n == Len(q)
             V == [Places -> Int]
  <1>2. n \in Nat /\ DOMAIN q = 1..n /\ stock \in V /\ \A v \in V, i \in 1..n : Moved(v, q[i]) \in V
    BY <1>1, MovedTyped
  <1> HIDE DEF n, V
  <1>3. PICK r \in [0..n -> V] : MovedRun(r, stock, q, n)
    BY <1>2, MovedRuns
  <1>4. n \in 0..n
    BY <1>2
  <1> QED BY <1>3, <1>4 DEF V, MovedRun

LEMMA SumTyped ==
    ASSUME NEW q \in Seq(Move) PROVE SumOf(q) \in Nat
  <1>1. Len(q) \in Nat /\ DOMAIN q = 1..Len(q) /\ \A i \in 1..Len(q) : q[i] \in Move
    BY LenProperties
  <1> DEFINE n == Len(q)
  <1>2. n \in Nat /\ DOMAIN q = 1..n /\ 0 \in Nat /\ \A v \in Nat, i \in 1..n : v + q[i].qty \in Nat
    BY <1>1 DEF Move
  <1> HIDE DEF n
  <1>3. PICK r \in [0..n -> Nat] : SumRun(r, q, n)
    BY <1>2, SumRuns
  <1>4. n \in 0..n
    BY <1>2
  <1> QED BY <1>3, <1>4 DEF SumRun

LEMMA CompletedTyped ==
    ASSUME NEW t \in Transfer PROVE Completed(t) \in Transfer
  BY DEF Transfer, Completed

\* A state stays one when a part of it is replaced by another of its kind.
LEMMA StateWith ==
    ASSUME NEW s \in StateSet
    PROVE  /\ \A x \in BOOLEAN : [s EXCEPT !.listed = x] \in StateSet
           /\ \A x \in [Places -> Int] : [s EXCEPT !.stock = x] \in StateSet
           /\ \A x \in [Ids -> {"none", "open", "closed"}] : [s EXCEPT !.receipts = x] \in StateSet
           /\ \A x \in [Ids -> Hold] : [s EXCEPT !.holds = x] \in StateSet
           /\ \A x \in [Ids -> Transfer] : [s EXCEPT !.transfers = x] \in StateSet
           /\ \A x \in [Ids -> Seq(Move)] : [s EXCEPT !.pending = x] \in StateSet
           /\ \A x \in [Ids -> Count] : [s EXCEPT !.counts = x] \in StateSet
  BY DEF StateSet

LEMMA DispatchedTyped ==
    ASSUME NEW s \in StateSet, NEW p \in Payload, p.kind = "dispatched"
    PROVE  Dispatched(s, p) \in StateSet
  <1> DEFINE row == s.transfers[p.id]
             old == IF row.status = "none"
                      THEN [row EXCEPT !.source = p.source, !.target = p.target,
                                       !.status = "in_flight"]
                      ELSE row
             early == s.pending[p.id]
             t == [old EXCEPT !.dispatched = @ + p.move.qty, !.received = @ + SumOf(early)]
             left == IF p.source = Home THEN Moved(s.stock, p.move) ELSE s.stock
             u == IF early = <<>> THEN t ELSE Completed(t)
             v == IF p.target = Home THEN FoldLeft(Moved, left, early) ELSE left
  <1>1. /\ p.id \in Ids /\ p.move \in Move /\ p.move.qty \in Nat
        /\ p.source \in Authors /\ p.target \in Authors
    BY PayloadFields DEF Moving, Move
  <1>2. /\ s.transfers \in [Ids -> Transfer] /\ s.pending \in [Ids -> Seq(Move)]
        /\ s.stock \in [Places -> Int]
    BY DEF StateSet
  <1>3. row \in Transfer /\ early \in Seq(Move) /\ SumOf(early) \in Nat
    BY <1>1, <1>2, SumTyped
  <1>4. old \in Transfer
    BY <1>1, <1>3 DEF Transfer
  <1> HIDE DEF old
  <1>5. t \in Transfer
    <2> DEFINE d == old.dispatched + p.move.qty
               g == old.received + SumOf(early)
    <2>1. d \in Nat /\ g \in Nat
      BY <1>1, <1>3, <1>4 DEF Transfer
    <2>2. t = [old EXCEPT !.dispatched = d, !.received = g]
      BY <1>4 DEF Transfer
    <2> HIDE DEF d, g
    <2> QED BY <1>4, <2>1, <2>2 DEF Transfer
  <1> HIDE DEF t
  <1>6. u \in Transfer
    BY <1>5, CompletedTyped
  <1>7. left \in [Places -> Int]
    BY <1>1, <1>2, MovedTyped
  <1> HIDE DEF left
  <1>8. v \in [Places -> Int]
    BY <1>3, <1>7, AllMovedTyped
  <1>9. Dispatched(s, p) = [s EXCEPT !.transfers[p.id] = u, !.pending[p.id] = <<>>, !.stock = v]
    BY DEF Dispatched, u, v, t, old, left
  <1> HIDE DEF u, v, row, early
  <1>10. <<>> \in Seq(Move)
    OBVIOUS
  <1> DEFINE T == [s.transfers EXCEPT ![p.id] = u]
             Q == [s.pending EXCEPT ![p.id] = <<>>]
             s1 == [s EXCEPT !.transfers = T]
             s2 == [s1 EXCEPT !.pending = Q]
  <1>11. T \in [Ids -> Transfer] /\ Q \in [Ids -> Seq(Move)]
    BY <1>1, <1>2, <1>6, <1>10
  <1>12. Dispatched(s, p) = [s2 EXCEPT !.stock = v]
    BY <1>9 DEF StateSet
  <1> HIDE DEF T, Q
  <1>13. s1 \in StateSet
    BY <1>11, StateWith
  <1> HIDE DEF s1
  <1>14. s2 \in StateSet
    BY <1>11, <1>13, StateWith
  <1> HIDE DEF s2
  <1> QED BY <1>8, <1>12, <1>14, StateWith

LEMMA ArrivedTyped ==
    ASSUME NEW s \in StateSet, NEW p \in Payload, p.kind = "arrived"
    PROVE  Arrived(s, p) \in StateSet
  <1> DEFINE row == s.transfers[p.id]
             t == [row EXCEPT !.received = @ + p.move.qty]
             v == IF row.target = Home THEN Moved(s.stock, p.move) ELSE s.stock
             w == Append(s.pending[p.id], p.move)
  <1>1. p.id \in Ids /\ p.move \in Move /\ p.move.qty \in Nat
    BY PayloadFields DEF Moving, Move
  <1>2. /\ s.transfers \in [Ids -> Transfer] /\ s.pending \in [Ids -> Seq(Move)]
        /\ s.stock \in [Places -> Int]
    BY DEF StateSet
  <1>3. row \in Transfer /\ w \in Seq(Move) /\ v \in [Places -> Int]
    <2>1. row \in Transfer /\ s.pending[p.id] \in Seq(Move)
      BY <1>1, <1>2
    <2>2. w \in Seq(Move)
      BY <1>1, <2>1
    <2>3. v \in [Places -> Int]
      BY <1>1, <1>2, MovedTyped
    <2> QED BY <2>1, <2>2, <2>3
  <1>4. t \in Transfer
    BY <1>1, <1>3 DEF Transfer
  <1>5. Completed(t) \in Transfer
    BY <1>4, CompletedTyped
  <1>6. Arrived(s, p) = IF row.status = "none" THEN [s EXCEPT !.pending[p.id] = w]
                        ELSE [s EXCEPT !.transfers[p.id] = Completed(t), !.stock = v]
    BY DEF Arrived
  <1> HIDE DEF t, v, w, row
  <1> DEFINE T == [s.transfers EXCEPT ![p.id] = Completed(t)]
             Q == [s.pending EXCEPT ![p.id] = w]
             s1 == [s EXCEPT !.transfers = T]
  <1>7. T \in [Ids -> Transfer] /\ Q \in [Ids -> Seq(Move)]
    BY <1>1, <1>2, <1>3, <1>5
  <1>8. Arrived(s, p) = IF row.status = "none" THEN [s EXCEPT !.pending = Q]
                        ELSE [s1 EXCEPT !.stock = v]
    BY <1>6 DEF StateSet
  <1> HIDE DEF T, Q
  <1>9. s1 \in StateSet /\ [s EXCEPT !.pending = Q] \in StateSet
    BY <1>7, StateWith
  <1> HIDE DEF s1
  <1>10. [s1 EXCEPT !.stock = v] \in StateSet
    BY <1>3, <1>9, StateWith
  <1> QED BY <1>8, <1>9, <1>10

LEMMA StatusTyped ==
    /\ \A rows \in [Ids -> Hold], i \in Ids, k \in {"released", "consumed"} :
          Status(rows, i, k) \in [Ids -> Hold]
    /\ \A rows \in [Ids -> Count], i \in Ids : Status(rows, i, "closed") \in [Ids -> Count]
    /\ \A rows \in [Ids -> Transfer], i \in Ids : Status(rows, i, "failed") \in [Ids -> Transfer]
  <1>1. \A h \in Hold, k \in {"released", "consumed"} : [h EXCEPT !.status = k] \in Hold
    BY DEF Hold
  <1>2. \A c \in Count : [c EXCEPT !.status = "closed"] \in Count
    BY DEF Count
  <1>3. \A t \in Transfer : [t EXCEPT !.status = "failed"] \in Transfer
    BY DEF Transfer
  <1> QED BY <1>1, <1>2, <1>3 DEF Status

LEMMA ApplyTyped ==
    ASSUME NEW s \in StateSet, NEW e \in Event PROVE Apply(s, e) \in StateSet
  <1> DEFINE p == e.says
  <1>1. p \in Payload
    BY DEF Event
  <1>2. /\ s.stock \in [Places -> Int] /\ s.holds \in [Ids -> Hold] /\ s.counts \in [Ids -> Count]
        /\ s.receipts \in [Ids -> {"none", "open", "closed"}]
    BY DEF StateSet
  <1> HIDE DEF p
  <1>a. CASE p.kind = "item"
    <2>1. Apply(s, e) = [s EXCEPT !.listed = ~ p.deleted]
      BY <1>a DEF Apply, p
    <2>2. (~ p.deleted) \in BOOLEAN
      OBVIOUS
    <2> QED BY <2>1, <2>2, StateWith
  <1>b. CASE p.kind \in {"opened", "closed"}
    <2>1. p.id \in Ids
      BY <1>1, <1>b, PayloadFields
    <2> DEFINE new == IF p.kind = "opened" THEN "open"
                      ELSE IF s.receipts[p.id] = "none" THEN s.receipts[p.id] ELSE "closed"
               R == [s.receipts EXCEPT ![p.id] = new]
    <2>2. R \in [Ids -> {"none", "open", "closed"}]
      BY <1>2, <2>1
    <2>3. Apply(s, e) = [s EXCEPT !.receipts = R]
      BY <1>b DEF Apply, p, StateSet
    <2> HIDE DEF R
    <2> QED BY <2>2, <2>3, StateWith
  <1>c. CASE p.kind = "line"
    BY <1>c DEF Apply, p
  <1>d. CASE p.kind \in {"received", "putaway", "picked", "adjusted"}
    <2>1. p.move \in Move
      BY <1>1, <1>d, PayloadFields DEF Moving
    <2>2. Apply(s, e) = [s EXCEPT !.stock = Moved(s.stock, p.move)]
      BY <1>d DEF Apply, p
    <2>3. Moved(s.stock, p.move) \in [Places -> Int]
      BY <1>2, <2>1, MovedTyped
    <2> QED BY <2>2, <2>3, StateWith
  <1>e. CASE p.kind = "reserved"
    <2>1. p.id \in Ids /\ p.at \in Places /\ p.qty \in Nat
      BY <1>1, <1>e, PayloadFields
    <2> DEFINE h == [at |-> p.at, qty |-> p.qty, status |-> "active"]
    <2>2. h \in Hold
      BY <2>1 DEF Hold
    <2> DEFINE H == [s.holds EXCEPT ![p.id] = h]
    <2>3. Apply(s, e) = [s EXCEPT !.holds = H]
      BY <1>e DEF Apply, p, StateSet
    <2> HIDE DEF h
    <2>4. H \in [Ids -> Hold]
      BY <1>2, <2>1, <2>2
    <2> HIDE DEF H
    <2> QED BY <2>3, <2>4, StateWith
  <1>f. CASE p.kind \in {"released", "consumed"}
    <2>1. p.id \in Ids
      BY <1>1, <1>f, PayloadFields
    <2>2. Apply(s, e) = [s EXCEPT !.holds = Status(s.holds, p.id, p.kind)]
      BY <1>f DEF Apply, p
    <2>3. Status(s.holds, p.id, p.kind) \in [Ids -> Hold]
      BY <1>2, <1>f, <2>1, StatusTyped
    <2> QED BY <2>2, <2>3, StateWith
  <1>g. CASE p.kind = "dispatched"
    <2>1. Apply(s, e) = Dispatched(s, p)
      BY <1>g DEF Apply, p
    <2> QED BY <1>1, <1>g, <2>1, DispatchedTyped
  <1>h. CASE p.kind = "arrived"
    <2>1. Apply(s, e) = Arrived(s, p)
      BY <1>h DEF Apply, p
    <2> QED BY <1>1, <1>h, <2>1, ArrivedTyped
  <1>i. CASE p.kind = "started"
    <2>1. p.id \in Ids /\ p.at \in Places
      BY <1>1, <1>i, PayloadFields
    <2> DEFINE c == [at |-> p.at, status |-> "open", qty |-> -1]
    <2>2. c \in Count
      BY <2>1 DEF Count
    <2> DEFINE C == [s.counts EXCEPT ![p.id] = c]
    <2>3. Apply(s, e) = [s EXCEPT !.counts = C]
      BY <1>i DEF Apply, p, StateSet
    <2> HIDE DEF c
    <2>4. C \in [Ids -> Count]
      BY <1>2, <2>1, <2>2
    <2> HIDE DEF C
    <2> QED BY <2>3, <2>4, StateWith
  <1>j. CASE p.kind = "counted"
    <2>1. p.id \in Ids /\ p.qty \in Nat
      BY <1>1, <1>j, PayloadFields
    <2> DEFINE c == s.counts[p.id]
               d == [c EXCEPT !.qty = IF c.status = "none" THEN @ ELSE p.qty]
    <2>2. c \in Count
      BY <1>2, <2>1
    <2>3. d \in Count
      BY <2>1, <2>2 DEF Count
    <2> DEFINE C == [s.counts EXCEPT ![p.id] = d]
    <2>4. Apply(s, e) = [s EXCEPT !.counts = C]
      BY <1>2, <1>j, <2>1, <2>2 DEF Apply, p, StateSet, Count
    <2> HIDE DEF d
    <2>5. C \in [Ids -> Count]
      BY <1>2, <2>1, <2>3
    <2> HIDE DEF C
    <2> QED BY <2>4, <2>5, StateWith
  <1>k. CASE p.kind = "countclosed"
    <2>1. p.id \in Ids
      BY <1>1, <1>k, PayloadFields
    <2>2. Apply(s, e) = [s EXCEPT !.counts = Status(s.counts, p.id, "closed")]
      BY <1>k DEF Apply, p
    <2>3. Status(s.counts, p.id, "closed") \in [Ids -> Count]
      BY <1>2, <2>1, StatusTyped
    <2> QED BY <2>2, <2>3, StateWith
  <1>l. p.kind \in Kinds
    BY <1>1, PayloadFields
  <1> QED BY <1>a, <1>b, <1>c, <1>d, <1>e, <1>f, <1>g, <1>h, <1>i, <1>j, <1>k, <1>l DEF Kinds

LEMMA NewStateTyped == NewState \in StateSet
  <1>1. NoHold \in Hold /\ NoTransfer \in Transfer /\ NoCount \in Count
    BY DEF NoHold, Hold, NoTransfer, Transfer, NoCount, Count, Places, Authors, Central
  <1>2. NoStock \in [Places -> Int] /\ <<>> \in Seq(Move)
    BY DEF NoStock
  <1> QED BY <1>1, <1>2 DEF NewState, StateSet

LEMMA StateTyped ==
    ASSUME NEW S \in SUBSET Event, IsFiniteSet(S), Distinct(S) PROVE State(S) \in StateSet
  <1> DEFINE n == Cardinality(S)
             q == InOrder(S)
  <1>1. n \in Nat /\ q \in [1..n -> S]
    BY InOrderIs, FS_CardinalityType DEF Enumerates
  <1> HIDE DEF n, q
  <1>2. \A v \in StateSet, i \in 1..n : Apply(v, q[i]) \in StateSet
    BY <1>1, ApplyTyped
  <1>3. PICK r \in [0..n -> StateSet] : ApplyRun(r, NewState, q, n)
    <2>1. DOMAIN q = 1..n
      BY <1>1
    <2> QED BY <1>1, <1>2, <2>1, NewStateTyped, ApplyRuns
  <1>4. n \in 0..n
    BY <1>1
  <1> QED BY <1>3, <1>4 DEF State, q, ApplyRun
\* What a command records is made of payloads.
LEMMA DoTyped ==
    ASSUME NEW s \in StateSet, NEW c \in Command PROVE Do(s, c) \in Seq(Payload)
  <1>0. <<>> \in Seq(Payload)
    OBVIOUS
  <1>1. CASE c.op = "receive"
    <2> DEFINE a == [kind |-> "opened", id |-> c.id]
               b == [kind |-> "line", id |-> c.id]
               d == [kind |-> "received", id |-> c.id, move |-> Into(c.at, c.qty)]
    <2>1. c.id \in Ids /\ c.at \in Places /\ c.qty \in Nat
      BY <1>1 DEF Command
    <2>2. Into(c.at, c.qty) \in Move
      BY <2>1 DEF Into, Move
    <2>3. a \in Payload /\ b \in Payload /\ d \in Payload
      BY <2>1, <2>2 DEF Payload
    <2>4. Do(s, c) = IF ~ s.listed \/ s.receipts[c.id] = "closed" THEN <<>>
                     ELSE (IF s.receipts[c.id] = "none" THEN <<a>> ELSE <<>>) \o <<b, d>>
      BY <1>1 DEF Do, DoReceive, Refused
    <2> HIDE DEF a, b, d
    <2>5. <<a>> \in Seq(Payload) /\ <<b, d>> \in Seq(Payload)
      BY <2>3
    <2>6. <<a>> \o <<b, d>> \in Seq(Payload) /\ <<>> \o <<b, d>> \in Seq(Payload)
      BY <1>0, <2>5
    <2> QED BY <1>0, <2>4, <2>6
  <1>2. CASE c.op = "closecount"
    <2> DEFINE count == s.counts[c.id]
               diff == count.qty - s.stock[count.at]
               m == IF diff > 0 THEN Into(count.at, diff) ELSE Out(count.at, -diff)
               v == [kind |-> "adjusted", move |-> m, failed |-> "none"]
               d == [kind |-> "countclosed", id |-> c.id]
               booked == IF count.qty < 0 \/ diff = 0 THEN <<>> ELSE Variance(count.at, diff)
    <2>1. c.id \in Ids
      BY <1>2 DEF Command
    <2>2. s.counts \in [Ids -> Count] /\ s.stock \in [Places -> Int]
      BY DEF StateSet
    <2>3. count \in Count
      BY <2>1, <2>2
    <2>4. count.at \in Places /\ diff \in Int
      BY <2>2, <2>3 DEF Count
    <2>5. m \in Move
      <3> HIDE DEF diff, count
      <3>1. diff > 0 => diff \in Nat
        BY <2>4
      <3>2. ~ (diff > 0) => -diff \in Nat
        BY <2>4
      <3> QED BY <2>4, <3>1, <3>2 DEF Into, Out, Move
    <2>6. v \in Payload /\ d \in Payload
      <3> HIDE DEF m
      <3> QED BY <2>1, <2>5 DEF Payload
    <2>7. Do(s, c) = IF count.status # "open" THEN <<>> ELSE Append(booked, d)
      BY <1>2 DEF Do, DoCloseCount, Refused
    <2>8. booked = IF count.qty < 0 \/ diff = 0 THEN <<>> ELSE <<v>>
      BY DEF Variance, Adjustment
    <2> HIDE DEF v, d, booked, diff, count
    <2>9. booked \in Seq(Payload)
      BY <1>0, <2>6, <2>8
    <2>10. Append(booked, d) \in Seq(Payload)
      BY <2>6, <2>9
    <2> QED BY <1>0, <2>7, <2>10
  <1>3. CASE c.op \in {"close", "release", "consume"}
    <2>1. c.id \in Ids
      BY <1>3 DEF Command
    <2>2. \E k \in {"closed", "released", "consumed"} :
             Do(s, c) \in {<<>>, <<[kind |-> k, id |-> c.id]>>}
      BY <1>3 DEF Do, DoCloseReceipt, DoEndHold, Refused
    <2>3. \A k \in {"closed", "released", "consumed"} : [kind |-> k, id |-> c.id] \in Payload
      BY <2>1 DEF Payload
    <2>4. PICK k \in {"closed", "released", "consumed"} :
             Do(s, c) \in {<<>>, <<[kind |-> k, id |-> c.id]>>}
      BY <2>2
    <2> DEFINE d == [kind |-> k, id |-> c.id]
    <2>5. d \in Payload
      BY <2>3
    <2> HIDE DEF d
    <2>6. <<d>> \in Seq(Payload)
      BY <2>5
    <2> QED BY <1>0, <2>4, <2>6 DEF d
  <1>4. CASE c.op \in {"putaway", "pick"}
    <2> DEFINE m == IF c.op = "pick" THEN Out(c.at, c.qty)
                    ELSE [from |-> c.at, to |-> c.to, qty |-> c.qty]
               k == IF c.op = "pick" THEN "picked" ELSE "putaway"
               d == [kind |-> k, move |-> m]
    <2>1. c.at \in Places /\ c.qty \in Nat /\ (c.op = "putaway" => c.to \in Places)
      BY <1>4 DEF Command
    <2>2. m \in Move
      BY <1>4, <2>1 DEF Out, Move
    <2>3. Do(s, c) \in {<<>>, <<d>>}
      BY <1>4 DEF Do, DoPutAway, DoPick, Refused
    <2> HIDE DEF m
    <2>4. d \in Payload
      BY <2>2 DEF Payload
    <2> HIDE DEF d
    <2>5. <<d>> \in Seq(Payload)
      BY <2>4
    <2> QED BY <1>0, <2>3, <2>5
  <1>5. CASE c.op = "reserve"
    <2> DEFINE d == [kind |-> "reserved", id |-> c.id, at |-> c.at, qty |-> c.qty]
    <2>1. c.id \in Ids /\ c.at \in Places /\ c.qty \in Nat
      BY <1>5 DEF Command
    <2>2. d \in Payload
      BY <2>1 DEF Payload
    <2>3. Do(s, c) \in {<<>>, <<d>>}
      BY <1>5 DEF Do, DoReserve, Refused
    <2> HIDE DEF d
    <2>4. <<d>> \in Seq(Payload)
      BY <2>2
    <2> QED BY <1>0, <2>3, <2>4
  <1>6. CASE c.op = "dispatch"
    <2> DEFINE d == [kind |-> "dispatched", id |-> c.id, move |-> Out(c.at, c.qty),
                     source |-> Home, target |-> Other]
    <2>1. c.id \in Ids /\ c.at \in Places /\ c.qty \in Nat
      BY <1>6 DEF Command
    <2>2. Out(c.at, c.qty) \in Move /\ Home \in Authors /\ Other \in Authors
      BY <2>1 DEF Out, Move, Authors
    <2>3. d \in Payload
      BY <2>1, <2>2 DEF Payload
    <2>4. Do(s, c) \in {<<>>, <<d>>}
      BY <1>6 DEF Do, DoDispatchTransfer, Refused
    <2> HIDE DEF d
    <2>5. <<d>> \in Seq(Payload)
      BY <2>3
    <2> QED BY <1>0, <2>4, <2>5
  <1>7. CASE c.op = "arrive"
    <2> DEFINE d == [kind |-> "arrived", id |-> c.id, move |-> Into(c.at, c.qty)]
    <2>1. c.id \in Ids /\ c.at \in Places /\ c.qty \in Nat
      BY <1>7 DEF Command
    <2>2. Into(c.at, c.qty) \in Move
      BY <2>1 DEF Into, Move
    <2>3. d \in Payload
      BY <2>1, <2>2 DEF Payload
    <2>4. Do(s, c) \in {<<>>, <<d>>}
      BY <1>7 DEF Do, DoReceiveTransfer, Refused
    <2> HIDE DEF d
    <2>5. <<d>> \in Seq(Payload)
      BY <2>3
    <2> QED BY <1>0, <2>4, <2>5
  <1>8. CASE c.op = "startcount"
    <2> DEFINE d == [kind |-> "started", id |-> c.id, at |-> c.at]
    <2>1. c.id \in Ids /\ c.at \in Places
      BY <1>8 DEF Command
    <2>2. d \in Payload
      BY <2>1 DEF Payload
    <2>3. Do(s, c) \in {<<>>, <<d>>}
      BY <1>8 DEF Do, DoStartCount, Refused
    <2> HIDE DEF d
    <2>4. <<d>> \in Seq(Payload)
      BY <2>2
    <2> QED BY <1>0, <2>3, <2>4
  <1>9. CASE c.op = "count"
    <2> DEFINE d == [kind |-> "counted", id |-> c.id, qty |-> c.qty]
    <2>1. c.id \in Ids /\ c.qty \in Nat
      BY <1>9 DEF Command
    <2>2. d \in Payload
      BY <2>1 DEF Payload
    <2>3. Do(s, c) \in {<<>>, <<d>>}
      BY <1>9 DEF Do, DoCountLine, Refused
    <2> HIDE DEF d
    <2>4. <<d>> \in Seq(Payload)
      BY <2>2
    <2> QED BY <1>0, <2>3, <2>4
  <1>10. c.op \in Operations
    BY DEF Command, Operations
  <1> QED BY <1>1, <1>2, <1>3, <1>4, <1>5, <1>6, <1>7, <1>8, <1>9, <1>10 DEF Operations

-----------------------------------------------------------------------------
(* The read models *)

TableSet ==
    [stock_on_hand : [Places -> Int], reservations : [Ids -> Hold],
     exceptions : [compensations : SUBSET EventId, negative : [Places -> Flag]],
     transfers : [Ids -> Transfer], key_touched : [Places -> Nat \cup {-1}],
     projection_applied : SUBSET EventId]

LEMMA NoRowsTyped == NoRows \in TableSet
  <1>1. NoHold \in Hold /\ NoTransfer \in Transfer /\ NoFlag \in Flag
    BY DEF NoHold, Hold, NoTransfer, Transfer, NoFlag, Flag, Places, Authors, Central
  <1>2. NoStock \in [Places -> Int]
    BY DEF NoStock
  <1>3. [l \in Places |-> -1] \in [Places -> Nat \cup {-1}]
    OBVIOUS
  <1> QED BY <1>1, <1>2, <1>3 DEF NoRows, TableSet

\* A time that was noted is one, and any time is past no time at all.
LEMMA TouchTyped ==
    ASSUME NEW t \in TableSet, NEW l \in Places, NEW e \in Event
    PROVE  Touch(t, l, e) \in Nat
  <1>1. t.key_touched \in [Places -> Nat \cup {-1}] /\ e.recorded \in Nat
    BY DEF TableSet, Event
  <1> DEFINE k == t.key_touched[l]
             g == e.recorded
  <1>2. k \in Nat \cup {-1} /\ g \in Nat
    BY <1>1
  <1> HIDE DEF k, g
  <1>3. Second \in Nat \ {0}
    BY NodeServiceAssumption
  <1>4. k = -1 => TextOrder(k) < TextOrder(g)
    <2>1. CASE Second = 1
      <3>1. (-1) % 1 = 0 /\ g % 1 = 0
        BY <1>2
      <3> QED BY <1>2, <2>1, <3>1 DEF TextOrder
    <2>2. CASE Second # 1
      <3>1. (-1) % Second # 0
        BY <1>3, <2>2
      <3>2. g % Second \in Nat
        BY <1>2, <1>3
      <3>3. g = 0 => g % Second = 0
        BY <1>3
      <3> QED BY <1>2, <1>3, <2>2, <3>1, <3>2, <3>3 DEF TextOrder
    <2> QED BY <2>1, <2>2
  <1>5. Touch(t, l, e) = IF TextOrder(k) < TextOrder(g) THEN g ELSE k
    BY DEF Touch, k, g
  <1> QED BY <1>2, <1>4, <1>5

LEMMA FlaggedTyped ==
    ASSUME NEW flag \in Flag, NEW qty \in Int, NEW at \in Nat
    PROVE  Flagged(flag, qty, at) \in Flag
  BY DEF Flagged, Flag

LEMMA ProjectTyped ==
    ASSUME NEW t \in TableSet, NEW e \in Event PROVE Project(t, e) \in TableSet
  <1> DEFINE p == e.says
  <1>1. p \in Payload /\ Id(e) \in EventId
    BY DEF Event, Id, EventId
  <1>2. /\ t.stock_on_hand \in [Places -> Int] /\ t.reservations \in [Ids -> Hold]
        /\ t.transfers \in [Ids -> Transfer] /\ t.key_touched \in [Places -> Nat \cup {-1}]
        /\ t.exceptions.negative \in [Places -> Flag]
        /\ t.exceptions.compensations \in SUBSET EventId
        /\ t.projection_applied \in SUBSET EventId
    BY DEF TableSet
  <1> HIDE DEF p
  <1> DEFINE stock == ApplyStock(t, p)
  <1>3. stock \in [Places -> Int]
    <2>1. p.kind \in Moving => Moved(t.stock_on_hand, p.move) \in [Places -> Int]
      BY <1>1, <1>2, PayloadFields, MovedTyped
    <2> QED BY <1>2, <2>1 DEF ApplyStock
  <1>4. ApplyReservation(t, p) \in [Ids -> Hold]
    <2>1. CASE p.kind = "reserved"
      <3> DEFINE h == [at |-> p.at, qty |-> p.qty, status |-> "active"]
      <3>1. p.id \in Ids /\ h \in Hold
        BY <1>1, <2>1, PayloadFields DEF Hold
      <3>2. ApplyReservation(t, p) = [t.reservations EXCEPT ![p.id] = h]
        BY <2>1 DEF ApplyReservation
      <3> HIDE DEF h
      <3> QED BY <1>2, <3>1, <3>2
    <2>2. CASE p.kind \in {"released", "consumed"}
      <3>1. p.id \in Ids
        BY <1>1, <2>2, PayloadFields
      <3>2. ApplyReservation(t, p) = Status(t.reservations, p.id, p.kind)
        BY <2>2 DEF ApplyReservation
      <3> QED BY <1>2, <2>2, <3>1, <3>2, StatusTyped
    <2>3. CASE p.kind \notin {"reserved", "released", "consumed"}
      BY <1>2, <2>3 DEF ApplyReservation
    <2> QED BY <2>1, <2>2, <2>3
  <1>5. ApplyTransfer(t, p) \in [Ids -> Transfer]
    <2> DEFINE row == t.transfers[p.id]
    <2>1. CASE p.kind = "dispatched"
      <3> DEFINE st == IF row.status = "none" THEN "in_flight"
                       ELSE IF row.received >= p.move.qty THEN "complete" ELSE row.status
                 new == [source |-> p.source, target |-> p.target, dispatched |-> p.move.qty,
                         received |-> row.received, status |-> st]
      <3>1. p.id \in Ids /\ p.move.qty \in Nat /\ p.source \in Authors /\ p.target \in Authors
        BY <1>1, <2>1, PayloadFields DEF Moving, Move
      <3>2. row \in Transfer
        BY <1>2, <3>1
      <3>3. ApplyTransfer(t, p) = [t.transfers EXCEPT ![p.id] = new]
        BY <1>2, <2>1, <3>1 DEF ApplyTransfer
      <3>4. st \in {"in_flight", "complete", "failed"} /\ row.received \in Nat
        BY <3>2 DEF Transfer
      <3> HIDE DEF st, row
      <3>5. new \in Transfer
        BY <3>1, <3>4 DEF Transfer
      <3> HIDE DEF new
      <3> QED BY <1>2, <3>1, <3>3, <3>5
    <2>2. CASE p.kind = "arrived"
      <3> DEFINE st == IF row.status = "none" THEN "in_flight"
                       ELSE IF row.dispatched > 0 /\ row.received + p.move.qty >= row.dispatched
                              THEN "complete" ELSE row.status
                 sum == row.received + p.move.qty
                 new == [row EXCEPT !.received = sum, !.status = st]
      <3>1. p.id \in Ids /\ p.move.qty \in Nat
        BY <1>1, <2>2, PayloadFields DEF Moving, Move
      <3>2. row \in Transfer
        BY <1>2, <3>1
      <3>3. ApplyTransfer(t, p) = [t.transfers EXCEPT ![p.id] = new]
        BY <1>2, <2>2, <3>1, <3>2 DEF ApplyTransfer, Transfer
      <3>4. st \in {"in_flight", "complete", "failed"} /\ sum \in Nat
        BY <3>1, <3>2 DEF Transfer
      <3> HIDE DEF st, row, sum
      <3>5. new \in Transfer
        BY <3>2, <3>4 DEF Transfer
      <3> HIDE DEF new
      <3> QED BY <1>2, <3>1, <3>3, <3>5
    <2>3. CASE p.kind = "adjusted" /\ p.failed # "none"
      <3>1. p.failed \in Ids
        BY <1>1, <2>3, PayloadFields
      <3>2. ApplyTransfer(t, p) = Status(t.transfers, p.failed, "failed")
        BY <2>3 DEF ApplyTransfer
      <3> QED BY <1>2, <3>1, <3>2, StatusTyped
    <2>4. CASE p.kind \notin {"dispatched", "arrived"} /\ ~ (p.kind = "adjusted" /\ p.failed # "none")
      BY <1>2, <2>4 DEF ApplyTransfer
    <2> QED BY <2>1, <2>2, <2>3, <2>4
  <1> DEFINE touched == [l \in Places |-> IF l \in Touched(p) THEN Touch(t, l, e)
                                          ELSE t.key_touched[l]]
             flags == RefreshNegatives(t, e, stock)
             comps == IF e.cause > 0 THEN RecordCompensation(t, e) ELSE t.exceptions.compensations
             marks == t.projection_applied \cup {Id(e)}
  <1> HIDE DEF stock
  <1>6. touched \in [Places -> Nat \cup {-1}]
    BY <1>2, TouchTyped
  <1>7. flags \in [Places -> Flag]
    <2>1. ASSUME NEW l \in Places
          PROVE  Flagged(t.exceptions.negative[l], stock[l], Touch(t, l, e)) \in Flag
                 /\ t.exceptions.negative[l] \in Flag
      BY <1>2, <1>3, FlaggedTyped, TouchTyped
    <2> QED BY <2>1 DEF RefreshNegatives
  <1>8. comps \in SUBSET EventId /\ marks \in SUBSET EventId
    BY <1>1, <1>2 DEF RecordCompensation
  <1>9. Project(t, e) =
          [stock_on_hand |-> stock, reservations |-> ApplyReservation(t, p),
           transfers |-> ApplyTransfer(t, p),
           exceptions |-> [compensations |-> comps, negative |-> flags],
           key_touched |-> touched, projection_applied |-> marks]
    BY DEF Project, ApplyException, stock, p
  <1> HIDE DEF touched, flags, comps, marks
  <1> QED BY <1>3, <1>4, <1>5, <1>6, <1>7, <1>8, <1>9 DEF TableSet

LEMMA UnappliedTyped ==
    ASSUME NEW S, NEW n \in Nat, NEW q \in [1..n -> S] PROVE Unapplied(q) \in Seq(S)
  <1> DEFINE V == Seq(S)
  <1>1. DOMAIN q = 1..n /\ << >> \in V
    OBVIOUS
  <1>2. ASSUME NEW v \in V, NEW i \in 1..n
        PROVE  (IF IsApplied(table, q[i]) THEN v ELSE Append(v, q[i])) \in V
    <2>1. q[i] \in S /\ Append(v, q[i]) \in V
      OBVIOUS
    <2> QED BY <2>1
  <1> HIDE DEF V
  <1>3. PICK r \in [0..n -> V] : LeavingRun(r, q, n)
    BY <1>1, <1>2, LeavingRuns
  <1>4. n \in 0..n
    OBVIOUS
  <1> QED BY <1>3, <1>4 DEF V, LeavingRun

-----------------------------------------------------------------------------
(* What holds of the variables' types, and of the identity of events, in every state *)

EventsTyped ==
    /\ log \in SUBSET Event /\ IsFiniteSet(log)
    /\ queue \in Seq(Event)
    /\ Distinct(log \cup Range(queue))

CallTyped ==
    /\ pc \in Pcs
    /\ call.op \in {"none", "execute", "ingest"} /\ call.events \subseteq log
    /\ call.upto \in 0..Len(queue) /\ pulled \in 0..Len(queue)
    /\ todo \in Seq(log) /\ memory \subseteq log /\ lost \subseteq log

BoundsTyped ==
    /\ plan \in Plans /\ {version, code} \subseteq plan.versions \cup {0}
    /\ now \in 0..plan.ticks /\ executed \in 0..plan.quota /\ failures \in 0..plan.faults

Typed == EventsTyped /\ CallTyped /\ BoundsTyped /\ table \in TableSet

LEMMA RangeIs ==
    ASSUME NEW S, NEW q \in Seq(S)
    PROVE  /\ Range(q) \in SUBSET S /\ IsFiniteSet(Range(q))
           /\ \A T : Range(q) \subseteq T => q \in Seq(T)
  <1> DEFINE n == Len(q)
  <1>1. n \in Nat /\ q \in [1..n -> S] /\ DOMAIN q = 1..n
    BY LenProperties
  <1> HIDE DEF n
  <1>2. IsFiniteSet(1..n)
    BY <1>1, FS_Interval
  <1>3. Range(q) = {q[i] : i \in 1..n}
    BY <1>1 DEF Range
  <1>4. IsFiniteSet({q[i] : i \in 1..n})
    <2> DEFINE R == {q[i] : i \in 1..n}
    <2>1. q \in Surjection(1..n, R)
      BY <1>1 DEF Surjection
    <2> HIDE DEF R
    <2>2. IsFiniteSet(R)
      BY <1>2, <2>1, FS_Surjection
    <2> QED BY <2>2 DEF R
  <1>5. ASSUME NEW T, Range(q) \subseteq T PROVE q \in Seq(T)
    <2>1. \A i \in 1..n : q[i] \in T
      BY <1>3, <1>5
    <2>2. q \in [1..n -> T]
      BY <1>1, <2>1
    <2> QED BY <1>1, <2>2
  <1> QED BY <1>1, <1>3, <1>4, <1>5

LEMMA CatchUpTyped == ASSUME EventsTyped PROVE ToCatchUp \in Seq(log)
  <1>1. Distinct(log)
    BY DEF EventsTyped, Distinct
  <1>2. Enumerates(InOrder(log), log) /\ Cardinality(log) \in Nat
    BY <1>1, InOrderIs, FS_CardinalityType DEF EventsTyped
  <1> QED BY <1>2, UnappliedTyped DEF Enumerates, ToCatchUp

LEMMA TypedInit == ASSUME Init PROVE Typed
  <1>1. /\ plan \in Plans /\ plan.history \in Seq(Event) /\ log = Range(plan.history)
        /\ \A e, f \in Range(plan.history) : e.author = f.author /\ e.seq = f.seq => e = f
        /\ plan.ticks \in Nat /\ plan.quota \in Nat /\ plan.faults \in Nat
    BY NodeServiceAssumption DEF Init
  <1>2. queue = << >> /\ << >> \in Seq(Event) /\ << >> \in Seq(log) /\ Len(queue) = 0
        /\ Range(queue) = {}
    BY DEF Init, Range
  <1>3. EventsTyped
    <2>1. Distinct(log \cup Range(queue))
      BY <1>1, <1>2 DEF Distinct, Id
    <2> QED BY <1>1, <1>2, <2>1, RangeIs DEF EventsTyped
  <1>4. CallTyped
    BY <1>2 DEF Init, CallTyped, Idle, Pcs
  <1>5. BoundsTyped
    BY <1>1 DEF Init, BoundsTyped
  <1> QED BY <1>3, <1>4, <1>5, NoRowsTyped DEF Typed, Init

-----------------------------------------------------------------------------
(* Every step keeps it: the process *)

LEMMA LeastTable ==
    ASSUME NEW full \in SUBSET DOMAIN Tables, full # {}
    PROVE  (CHOOSE i \in full : \A k \in full : i <= k) \in full
  <1>1. full \subseteq Nat
    BY DEF Tables
  <1>2. PICK i \in full : \A k \in full : ~ (<<k, i>> \in OpToRel(<, Nat))
    BY <1>1, NatLessThanWellFounded, WFMin
  <1>3. \A k \in full : i <= k
    <2>1. \A k \in full : ~ (k < i) /\ k \in Nat /\ i \in Nat
      BY <1>1, <1>2 DEF OpToRel
    <2> QED BY <2>1
  <1> QED BY <1>3

LEMMA ClearedTyped ==
    ASSUME table \in TableSet, NEW i \in DOMAIN Tables
    PROVE  [table EXCEPT ![Tables[i]] = NoRows[Tables[i]]] \in TableSet
  <1>1. Tables[i] \in {"stock_on_hand", "reservations", "exceptions", "transfers", "key_touched",
                       "projection_applied"}
    BY DEF Tables
  <1> DEFINE r == NoRows
  <1>2. r \in TableSet
    BY NoRowsTyped
  <1> HIDE DEF r
  <1>3. \A f \in {"stock_on_hand", "reservations", "exceptions", "transfers", "key_touched",
                  "projection_applied"} : [table EXCEPT ![f] = r[f]] \in TableSet
    BY <1>2 DEF TableSet
  <1> QED BY <1>1, <1>3 DEF r

LEMMA ProcessTyped ==
    ASSUME Typed, Service \/ Crash \/ FailApply \/ Clock \/ Wait \/ UNCHANGED vars PROVE Typed'
  <1>1. EventsTyped /\ CallTyped /\ BoundsTyped /\ table \in TableSet
    BY DEF Typed
  <1>2. << >> \in Seq(log) /\ Len(queue) \in Nat /\ log \subseteq Event
    BY <1>1 DEF EventsTyped
  <1>3. plan.ticks \in Nat /\ plan.quota \in Nat /\ plan.faults \in Nat
    BY <1>1, NodeServiceAssumption DEF BoundsTyped
  <1>4. UNCHANGED <<log, queue>> => EventsTyped'
    BY <1>1 DEF EventsTyped, Distinct, Range
  <1>5. CASE Open
    <2>1. UNCHANGED <<plan, log, table, version, call, memory, queue, pulled, lost, now, executed, failures>>
          /\ code' \in plan.versions /\ pc' \in Pcs /\ todo' \in {ToCatchUp, << >>}
      BY <1>5 DEF Open, disk, bounds, Pcs
    <2>2. ToCatchUp \in Seq(log)
      BY <1>1, CatchUpTyped
    <2>3. CallTyped'
      BY <1>1, <1>2, <2>1, <2>2 DEF CallTyped
    <2>4. BoundsTyped'
      BY <1>1, <2>1 DEF BoundsTyped
    <2> QED BY <1>1, <1>4, <2>1, <2>3, <2>4 DEF Typed
  <1>6. CASE Clear
    <2> DEFINE full == {i \in DOMAIN Tables : table[Tables[i]] # NoRows[Tables[i]]}
               k == CHOOSE i \in full : \A j \in full : i <= j
    <2>1. /\ UNCHANGED <<plan, log, version, code, call, memory, queue, pulled, lost, now, executed, failures>>
          /\ \/ pc' = "catchup" /\ todo' = ToCatchUp /\ UNCHANGED table
             \/ /\ full # {} /\ table' = [table EXCEPT ![Tables[k]] = NoRows[Tables[k]]]
                /\ UNCHANGED <<pc, todo>>
      BY <1>6 DEF Clear, bounds
    <2>2. full # {} => k \in DOMAIN Tables
      BY LeastTable
    <2> HIDE DEF full, k
    <2>3. table' \in TableSet
      BY <1>1, <2>1, <2>2, ClearedTyped
    <2>4. ToCatchUp \in Seq(log)
      BY <1>1, CatchUpTyped
    <2>5. CallTyped'
      BY <1>1, <1>2, <2>1, <2>4 DEF CallTyped, Pcs
    <2>6. BoundsTyped'
      BY <1>1, <2>1 DEF BoundsTyped
    <2> QED BY <1>4, <2>1, <2>3, <2>5, <2>6 DEF Typed
  <1>7. CASE ApplyNext
    <2>1. UNCHANGED <<plan, log, version, code, pc, call, memory, queue, pulled, lost, now, executed, failures>>
          /\ todo # << >> /\ table' = Project(table, Head(todo)) /\ todo' = Tail(todo)
      BY <1>7 DEF ApplyNext, bounds
    <2>2. todo \in Seq(log)
      BY <1>1 DEF CallTyped
    <2>3. Head(todo) \in log /\ Tail(todo) \in Seq(log)
      BY <2>1, <2>2, HeadTailProperties
    <2>4. table' \in TableSet
      BY <1>1, <1>2, <2>1, <2>3, ProjectTyped
    <2>5. CallTyped'
      BY <1>1, <2>1, <2>3 DEF CallTyped
    <2>6. BoundsTyped'
      BY <1>1, <2>1 DEF BoundsTyped
    <2> QED BY <1>4, <2>1, <2>4, <2>5, <2>6 DEF Typed
  <1>8. CASE Opened
    <2>1. /\ UNCHANGED <<plan, log, table, code, call, todo, queue, pulled, lost, now, executed, failures>>
          /\ version' \in {version, code} /\ pc' \in {pc, "up"} /\ memory' \in {memory, log}
      BY <1>8 DEF Opened, bounds
    <2>2. CallTyped'
      BY <1>1, <2>1 DEF CallTyped, Pcs
    <2>3. BoundsTyped'
      BY <1>1, <2>1 DEF BoundsTyped
    <2> QED BY <1>1, <1>4, <2>1, <2>2, <2>3 DEF Typed
  <1>9. CASE Return
    <2>1. /\ UNCHANGED <<plan, log, table, version, code, todo, queue, lost, now, executed, failures>>
          /\ memory' = log /\ pulled' \in {pulled, call.upto} /\ pc' = "up" /\ call' = Idle
      BY <1>9 DEF Return, disk, bounds
    <2>2. CallTyped'
      BY <1>1, <1>2, <2>1 DEF CallTyped, Pcs, Idle
    <2>3. BoundsTyped'
      BY <1>1, <2>1 DEF BoundsTyped
    <2> QED BY <1>1, <1>4, <2>1, <2>2, <2>3 DEF Typed
  <1>10. CASE Crash
    <2>1. /\ UNCHANGED <<plan, log, table, version, code, queue, pulled, lost, now, executed>>
          /\ pc' = "down" /\ call' = Idle /\ todo' = << >> /\ memory' = {}
          /\ failures < plan.faults /\ failures' = failures + 1
      BY <1>10 DEF Crash, disk
    <2>2. CallTyped'
      BY <1>1, <1>2, <2>1 DEF CallTyped, Pcs, Idle
    <2>3. BoundsTyped'
      BY <1>1, <1>3, <2>1 DEF BoundsTyped
    <2> QED BY <1>1, <1>4, <2>1, <2>2, <2>3 DEF Typed
  <1>11. CASE FailApply
    <2>1. /\ UNCHANGED <<plan, log, table, version, code, memory, queue, pulled, now, executed>>
          /\ lost' = lost \cup call.events /\ pc' = "up" /\ call' = Idle /\ todo' = << >>
          /\ failures < plan.faults /\ failures' = failures + 1
      BY <1>11 DEF FailApply, disk
    <2>2. CallTyped'
      BY <1>1, <1>2, <2>1 DEF CallTyped, Pcs, Idle
    <2>3. BoundsTyped'
      BY <1>1, <1>3, <2>1 DEF BoundsTyped
    <2> QED BY <1>1, <1>4, <2>1, <2>2, <2>3 DEF Typed
  <1>12. CASE Clock
    <2>1. /\ UNCHANGED <<plan, log, table, version, code, pc, call, todo, memory, queue, pulled, lost,
                         executed, failures>>
          /\ now < plan.ticks /\ now' = now + 1
      BY <1>12 DEF Clock, disk, process
    <2>2. CallTyped'
      BY <1>1, <2>1 DEF CallTyped
    <2>3. BoundsTyped'
      BY <1>1, <1>3, <2>1 DEF BoundsTyped
    <2> QED BY <1>1, <1>4, <2>1, <2>2, <2>3 DEF Typed
  <1>13. CASE Wait \/ UNCHANGED vars
    <2>1. UNCHANGED <<plan, log, table, version, code, pc, call, todo, memory, queue, pulled, lost, now,
                      executed, failures>>
      BY <1>13 DEF Wait, vars, disk, process, bounds
    <2>2. CallTyped' /\ BoundsTyped'
      BY <1>1, <2>1 DEF CallTyped, BoundsTyped
    <2> QED BY <1>1, <1>4, <2>1, <2>2 DEF Typed
  <1> QED BY <1>5, <1>6, <1>7, <1>8, <1>9, <1>10, <1>11, <1>12, <1>13 DEF Service

-----------------------------------------------------------------------------
(* Every step keeps it: what is recorded, taken in and sent *)

LEMMA SealedTyped ==
    ASSUME NodeInv, NEW payloads \in Seq(Payload)
    PROVE  /\ Sealed(payloads) \in Seq(Event)
           /\ \A e \in Range(Sealed(payloads)) :
                 e.author = Home /\ \E i \in DOMAIN payloads : e.seq = seq + i /\ Sealed(payloads)[i] = e
  <1> DEFINE n == Len(payloads)
             g == TicksFrom(clk[Home], Physical(Home), n)
             events == Sealed(payloads)
  <1>1. n \in Nat /\ DOMAIN payloads = 1..n /\ \A i \in 1..n : payloads[i] \in Payload
    BY LenProperties
  <1>2. clk[Home] \in Nat /\ Physical(Home) \in Nat /\ seq \in Nat /\ Home \in Authors
    BY PhysicalIs DEF NodeInv, Authors
  <1>3. \A i \in 0..n : g[i] \in Nat
    BY <1>1, <1>2, TicksFacts
  <1>4. events = [i \in 1..n |-> [author |-> Home, seq |-> seq + i, at |-> g[i],
                                  recorded |-> Physical(Home), cause |-> 0, says |-> payloads[i]]]
    BY <1>1, SealedIs
  <1> HIDE DEF n, g, events
  <1>5. ASSUME NEW i \in 1..n
        PROVE  events[i] \in Event /\ events[i].author = Home /\ events[i].seq = seq + i
    <2>1. g[i] \in Nat /\ seq + i \in Nat \ {0} /\ payloads[i] \in Payload
      BY <1>1, <1>2, <1>3
    <2>2. events[i] = [author |-> Home, seq |-> seq + i, at |-> g[i],
                       recorded |-> Physical(Home), cause |-> 0, says |-> payloads[i]]
      BY <1>4
    <2> QED BY <1>2, <2>1, <2>2 DEF Event
  <1>6. events \in [1..n -> Event] /\ DOMAIN events = 1..n
    <2>1. DOMAIN events = 1..n /\ events = [i \in 1..n |-> events[i]]
      BY <1>4
    <2> QED BY <1>5, <2>1
  <1>7. events \in Seq(Event)
    BY <1>1, <1>6
  <1>8. Range(events) = {events[i] : i \in 1..n}
    BY <1>6 DEF Range
  <1> QED BY <1>1, <1>5, <1>7, <1>8 DEF events

\* The events of a command are new: their numbers follow the last one in the log, and
\* nobody else writes under this node's name.
LEMMA RecordedAreNew ==
    ASSUME NodeInv, EventsTyped, pc # "down", NEW payloads \in Seq(Payload)
    PROVE  Distinct(log \cup Range(Sealed(payloads)) \cup Range(queue))
  <1> DEFINE events == Sealed(payloads)
  <1>1. /\ events \in Seq(Event)
        /\ \A e \in Range(events) :
              e.author = Home /\ \E i \in DOMAIN payloads : e.seq = seq + i /\ events[i] = e
    BY SealedTyped
  <1> HIDE DEF events
  <1>2. Numbered(log, seq) /\ seq \in Nat
    BY DEF NodeInv, Recovered
  <1>3. \A f \in log : f.author = Home => f.seq \in 1..seq
    BY <1>2 DEF Numbered, Own
  <1>4. \A f \in Range(queue) : f.author # Home
    <2>1. PICK S : queue \in Seq(S) /\ \A f \in S : f.author \in {Central, Other} /\ f.at \in Nat
      BY DEF NodeInv, QueueSound
    <2>2. Range(queue) \in SUBSET S
      BY <2>1, RangeIs
    <2> QED BY <2>1, <2>2 DEF Home, Central, Other
  <1>5. \A i \in DOMAIN payloads : i \in Nat /\ i > 0
    <2>1. Len(payloads) \in Nat /\ DOMAIN payloads = 1..Len(payloads)
      BY LenProperties
    <2> QED BY <2>1
  <1>6. ASSUME NEW e \in Range(events), NEW f \in log \cup Range(queue) PROVE Id(e) # Id(f)
    <2>1. e.author = Home /\ \E i \in Nat : i > 0 /\ e.seq = seq + i
      BY <1>1, <1>5
    <2>2. f.author = Home => f.seq \in Nat /\ f.seq <= seq
      BY <1>2, <1>3, <1>4
    <2> QED BY <1>2, <2>1, <2>2 DEF Id
  <1>7. ASSUME NEW e \in Range(events), NEW f \in Range(events), Id(e) = Id(f) PROVE e = f
    <2>1. PICK i \in DOMAIN payloads : e.seq = seq + i /\ events[i] = e
      BY <1>1
    <2>2. PICK j \in DOMAIN payloads : f.seq = seq + j /\ events[j] = f
      BY <1>1
    <2>3. seq + i = seq + j /\ i \in Nat /\ j \in Nat
      BY <1>5, <1>7, <2>1, <2>2 DEF Id
    <2>4. i = j
      BY <1>2, <2>3
    <2> QED BY <2>1, <2>2, <2>4
  <1>8. \A e, f \in log \cup Range(queue) : Id(e) = Id(f) => e = f
    BY DEF EventsTyped, Distinct
  <1>9. Distinct(log \cup Range(events) \cup Range(queue))
    BY <1>6, <1>7, <1>8 DEF Distinct
  <1> QED BY <1>9 DEF events

LEMMA ExecuteTyped ==
    ASSUME NodeInv, Typed, NEW c \in plan.commands, Execute(c) PROVE Typed'
  <1> DEFINE payloads == Do(State(memory), c)
             events == Sealed(payloads)
  <1>1. /\ UNCHANGED <<plan, table, version, code, memory, queue, pulled, lost, now, failures>>
        /\ pc = "up" /\ pc' = "apply" /\ executed < plan.quota /\ executed' = executed + 1
        /\ log' = log \cup Range(events) /\ todo' = events
        /\ call' = [op |-> "execute", events |-> Range(events), upto |-> 0]
    BY DEF Execute
  <1>2. EventsTyped /\ CallTyped /\ BoundsTyped /\ table \in TableSet
    BY DEF Typed
  <1>3. payloads \in Seq(Payload)
    <2>1. memory \in SUBSET Event /\ IsFiniteSet(memory) /\ Distinct(memory)
      BY <1>2, FS_Subset DEF EventsTyped, CallTyped, Distinct
    <2>2. c \in Command
      BY <1>2, NodeServiceAssumption DEF BoundsTyped
    <2> QED BY <2>1, <2>2, StateTyped, DoTyped
  <1> HIDE DEF payloads
  <1>4. events \in Seq(Event) /\ Distinct(log \cup Range(events) \cup Range(queue))
    BY <1>1, <1>2, <1>3, SealedTyped, RecordedAreNew
  <1> HIDE DEF events
  <1>5. Range(events) \in SUBSET Event /\ IsFiniteSet(Range(events)) /\ events \in Seq(log')
    BY <1>1, <1>4, RangeIs
  <1>6. EventsTyped'
    <2>1. log' \in SUBSET Event /\ IsFiniteSet(log')
      BY <1>1, <1>2, <1>5, FS_Union DEF EventsTyped
    <2>2. Range(queue)' = Range(queue) /\ Distinct(log' \cup Range(queue))
      BY <1>1, <1>4 DEF Range
    <2> QED BY <1>1, <1>2, <2>1, <2>2 DEF EventsTyped, Distinct
  <1>7. CallTyped'
    <2>1. Len(queue) \in Nat
      BY <1>2, LenProperties DEF EventsTyped
    <2> QED BY <1>1, <1>2, <1>5, <2>1 DEF CallTyped, Pcs
  <1>8. BoundsTyped'
    <2>1. plan.quota \in Nat
      BY <1>2, NodeServiceAssumption DEF BoundsTyped
    <2> QED BY <1>1, <1>2, <2>1 DEF BoundsTyped
  <1> QED BY <1>1, <1>2, <1>6, <1>7, <1>8 DEF Typed

LEMMA IngestTyped == ASSUME NodeInv, Typed, Pull PROVE Typed'
  <1>1. EventsTyped /\ CallTyped /\ BoundsTyped /\ table \in TableSet
    BY DEF Typed
  <1>2. queue \in Seq(Event) /\ pulled \in Nat
    BY <1>1 DEF EventsTyped, NodeInv
  <1>3. Len(queue) \in Nat /\ DOMAIN queue = 1..Len(queue) /\ queue \in [1..Len(queue) -> Event]
    BY <1>2, LenProperties
  <1>4. PICK i \in {pulled, pulled + 1} \ {0} : \E j \in pulled + 1 .. Len(queue) : Ingest(i, j)
    BY DEF Pull
  <1>5. PICK j \in pulled + 1 .. Len(queue) : Ingest(i, j)
    BY <1>4
  <1> DEFINE batch == SubSeq(queue, i, j)
             n == j - i + 1
             S == Range(queue)
  <1>6. /\ UNCHANGED <<plan, table, version, code, memory, queue, pulled, lost, now, executed, failures>>
        /\ pc' = "apply" /\ log' = log \cup Range(batch) /\ todo' = Unapplied(batch)
        /\ call' = [op |-> "ingest", events |-> {}, upto |-> j]
    BY <1>5 DEF Ingest, ToApply, bounds
  <1>7. batch \in Seq(S) /\ S \in SUBSET Event
    <2>1. i \in Int /\ j \in Int /\ i >= 1 /\ j <= Len(queue)
      BY <1>2, <1>3
    <2>2. queue \in Seq(S) /\ S \in SUBSET Event
      BY <1>2, RangeIs
    <2>3. \A k \in i..j : queue[k] \in S
      BY <1>3, <2>1 DEF Range
    <2> HIDE DEF S
    <2> QED BY <2>1, <2>2, <2>3, SubSeqProperties
  <1> HIDE DEF batch, S
  <1>8. Range(batch) \in SUBSET S /\ IsFiniteSet(Range(batch)) /\ batch \in Seq(Range(batch))
    BY <1>7, RangeIs
  <1>9. todo' \in Seq(log')
    <2>1. Len(batch) \in Nat /\ batch \in [1..Len(batch) -> Range(batch)]
      BY <1>8, LenProperties
    <2>2. batch \in [1..Len(batch) -> log']
      BY <1>6, <2>1
    <2> QED BY <1>6, <2>1, <2>2, UnappliedTyped
  <1>10. EventsTyped'
    <2>1. log' \in SUBSET Event /\ IsFiniteSet(log')
      BY <1>1, <1>6, <1>7, <1>8, FS_Union DEF EventsTyped
    <2>2. Range(queue)' = Range(queue) /\ log' \cup Range(queue) = log \cup Range(queue)
      BY <1>6, <1>8 DEF Range, S
    <2> QED BY <1>1, <1>6, <2>1, <2>2 DEF EventsTyped, Distinct
  <1>11. CallTyped'
    <2>1. j \in 0..Len(queue)
      BY <1>2, <1>3
    <2> QED BY <1>1, <1>6, <1>9, <2>1 DEF CallTyped, Pcs
  <1>12. BoundsTyped'
    BY <1>1, <1>6 DEF BoundsTyped
  <1> QED BY <1>1, <1>6, <1>10, <1>11, <1>12 DEF Typed

\* The next number of a sender is past all of its numbers.
LEMMA NextSeqIs ==
    ASSUME EventsTyped, NEW a \in Authors
    PROVE  /\ NextSeq(a) \in Nat \ {0}
           /\ \A f \in log \cup Range(queue) : f.author = a => f.seq # NextSeq(a)
  <1> DEFINE T == log \cup Range(queue)
             q == InOrder(T)
             N == Cardinality(T)
             S == {e.seq : e \in {f \in T : f.author = a}}
  <1>1. T \in SUBSET Event /\ IsFiniteSet(T) /\ Distinct(T)
    BY RangeIs, FS_Union DEF EventsTyped
  <1> HIDE DEF T
  <1>2. N \in Nat /\ Enumerates(q, T)
    BY <1>1, InOrderIs, FS_CardinalityType
  <1> HIDE DEF N, q
  <1>3. \A i \in 1..N : q[i] \in T /\ q[i].seq \in Nat
    BY <1>1, <1>2 DEF Enumerates, N, Event
  <1> DEFINE f == [i \in 1..N |-> q[i].seq]
  <1>4. \A i \in 1..N : f[i] \in Nat
    BY <1>3
  <1> HIDE DEF f
  <1>5. PICK h \in Nat : \A i \in 1..N : f[i] <= h
    BY <1>2, <1>4, Bounded
  <1>6. \A e \in T : e.seq \in Nat /\ e.seq <= h
    <2> TAKE e \in T
    <2>1. PICK i \in 1..N : q[i] = e
      BY <1>2 DEF Enumerates, N
    <2> QED BY <1>3, <1>5, <2>1 DEF f
  <1>7. S \in SUBSET Nat /\ \A x \in S : x <= h
    BY <1>6
  <1>8. \A e \in T : e.author = a => e.seq \in S
    OBVIOUS
  <1>9. NextSeq(a) = 1 + Highest(S)
    BY DEF NextSeq, T
  <1> HIDE DEF S
  <1>10. Highest(S) \in S \cup {0} /\ \A x \in S : x <= Highest(S)
    BY <1>5, <1>7, HighestIs
  <1>11. Highest(S) \in Nat /\ 1 + Highest(S) \in Nat \ {0} /\ 1 + Highest(S) \notin S
    <2> DEFINE m == Highest(S)
    <2>1. m \in S \cup {0} /\ \A x \in S : x \in Nat /\ x <= m
      BY <1>7, <1>10
    <2> HIDE DEF m
    <2>2. m \in Nat
      BY <2>1
    <2>3. 1 + m \notin S
      BY <2>1, <2>2
    <2> QED BY <2>2, <2>3 DEF m
  <1> QED BY <1>8, <1>9, <1>11 DEF T

LEMMA SendTyped ==
    ASSUME NodeInv, Typed, NEW a \in Authors, NEW at \in Nat, NEW cause \in Nat, NEW p \in Payload,
           Send(From(a, at, cause, p))
    PROVE  Typed'
  <1> DEFINE e == From(a, at, cause, p)
             T == log \cup Range(queue)
  <1>1. EventsTyped /\ CallTyped /\ BoundsTyped /\ table \in TableSet
    BY DEF Typed
  <1>2. /\ UNCHANGED <<plan, log, table, version, code, pc, call, todo, memory, pulled, lost,
                       now, executed, failures>>
        /\ queue' = Append(queue, e)
    BY DEF Send, disk, process, bounds
  <1>3. e \in Event
    BY <1>1, NextSeqIs, PhysicalIs DEF From, Event
  <1>4. \A f \in T : Id(f) # Id(e)
    BY <1>1, NextSeqIs DEF From, Id
  <1> HIDE DEF e
  <1>5. queue \in Seq(Event)
    BY <1>1 DEF EventsTyped
  <1>6. /\ queue' \in Seq(Event) /\ Len(queue) \in Nat /\ Len(queue') = Len(queue) + 1
        /\ Range(queue)' \subseteq Range(queue) \cup {e}
    <2>1. /\ queue' \in Seq(Event) /\ Len(queue') = Len(queue) + 1
          /\ \A i \in 1..Len(queue) : queue'[i] = queue[i]
          /\ queue'[Len(queue) + 1] = e
      BY <1>2, <1>3, <1>5, AppendProperties
    <2>2. Len(queue) \in Nat /\ DOMAIN queue = 1..Len(queue) /\ DOMAIN queue' = 1..(Len(queue) + 1)
      BY <1>5, <2>1, LenProperties
    <2>3. \A i \in 1..(Len(queue) + 1) : i \in 1..Len(queue) \/ i = Len(queue) + 1
      BY <2>2
    <2>4. \A i \in DOMAIN queue' : queue'[i] \in Range(queue) \cup {e}
      BY <2>1, <2>2, <2>3 DEF Range
    <2> QED BY <2>1, <2>2, <2>4 DEF Range
  <1>7. EventsTyped'
    <2>1. \A x, y \in T : Id(x) = Id(y) => x = y
      BY <1>1 DEF EventsTyped, Distinct
    <2>2. \A x, y \in T \cup {e} : Id(x) = Id(y) => x = y
      <3> HIDE DEF T
      <3> QED BY <1>4, <2>1
    <2>3. (log \cup Range(queue))' \subseteq T \cup {e}
      BY <1>2, <1>6
    <2>4. Distinct(log \cup Range(queue))'
      BY <2>2, <2>3 DEF Distinct, Id
    <2> QED BY <1>1, <1>2, <1>6, <2>4 DEF EventsTyped
  <1>8. CallTyped'
    <2>1. \A k \in 0..Len(queue) : k \in 0..Len(queue')
      BY <1>6
    <2> QED BY <1>1, <1>2, <2>1 DEF CallTyped
  <1>9. BoundsTyped'
    BY <1>1, <1>2 DEF BoundsTyped
  <1> QED BY <1>1, <1>2, <1>7, <1>8, <1>9 DEF Typed

LEMMA RemoteTyped ==
    ASSUME NodeInv, Typed,
           \/ \E e \in Own(log) : e.says.kind \in Moving /\ \E q \in 1..e.says.move.qty : Reject(e, q)
           \/ \E p \in plan.foreign : Forward(p)
           \/ \E p \in plan.foreign : \E e \in Own(log) : ForwardArrival(p, e)
    PROVE  Typed'
  <1>1. /\ Central \in Authors /\ Other \in Authors /\ plan.foreign \subseteq Payload
        /\ \A e \in Own(log) : e \in Event
    BY NodeServiceAssumption DEF Authors, NodeInv, Typed, EventsTyped, Own
  <1>2. \A e \in Own(log) : e.at \in Nat /\ e.seq \in Nat /\ e.says \in Payload
    BY <1>1 DEF Event
  <1>3. ASSUME NEW e \in Own(log), e.says.kind \in Moving, NEW q \in 1..e.says.move.qty, Reject(e, q)
        PROVE  Typed'
    <2> DEFINE p == e.says
               at == Merge(clk[Central], e.at, Physical(Central))
               back == [from |-> p.move.to, to |-> p.move.from, qty |-> q]
               failed == IF p.kind = "dispatched" THEN p.id ELSE "none"
               says == [kind |-> "adjusted", move |-> back, failed |-> failed]
    <2>1. Send(From(Central, at, e.seq, says))
      BY <1>3 DEF Reject
    <2>2. at \in Nat
      BY <1>1, <1>2, ReadingsOf
    <2>3. p.move \in Move /\ (p.kind = "dispatched" => p.id \in Ids)
      BY <1>2, <1>3, PayloadFields
    <2>4. back \in Move
      BY <2>3 DEF Move
    <2>5. says \in Payload
      <3> HIDE DEF back
      <3> QED BY <2>3, <2>4 DEF Payload
    <2> HIDE DEF says, at
    <2> QED BY <1>1, <1>2, <2>1, <2>2, <2>5, SendTyped
  <1>4. ASSUME NEW p \in plan.foreign, Forward(p) PROVE Typed'
    <2>1. \E a \in {Central, Other} : Send(From(a, Tick(clk[a], Physical(a)), 0, p))
      BY <1>4 DEF Forward
    <2>2. \A a \in {Central, Other} : Tick(clk[a], Physical(a)) \in Nat
      BY <1>1, ReadingsOf
    <2> QED BY <1>1, <2>1, <2>2, SendTyped
  <1>5. ASSUME NEW p \in plan.foreign, NEW e \in Own(log), ForwardArrival(p, e) PROVE Typed'
    <2> DEFINE at == Tick(Merge(clk[Other], e.at, Physical(Other)), Physical(Other))
    <2>1. Send(From(Other, at, 0, p))
      BY <1>5 DEF ForwardArrival
    <2>2. at \in Nat
      BY <1>1, <1>2, ReadingsOf
    <2> HIDE DEF at
    <2> QED BY <1>1, <2>1, <2>2, SendTyped
  <1> QED BY <1>3, <1>4, <1>5

\* The types, for any history, commands, versions, failures, crashes and clocks: whatever a
\* command finds in memory it records events of the log's kind, under numbers nobody used,
\* and whatever a replay or an event meets in a state or a read model leaves one (Execute,
\* State.Apply, Set.Apply, Rebuild).
THEOREM TypeCorrect == Spec => []TypeOK
  <1>1. Init => NodeInv /\ Typed
    BY NodeInvInit, TypedInit
  <1>2. NodeInv /\ Typed /\ [Next]_vars => NodeInv' /\ Typed'
    <2> SUFFICES ASSUME NodeInv, Typed, [Next]_vars PROVE NodeInv' /\ Typed'
      OBVIOUS
    <2>1. NodeInv'
      BY NodeInvNext
    <2>2. Typed'
      BY ProcessTyped, ExecuteTyped, IngestTyped, RemoteTyped DEF Next
    <2> QED BY <2>1, <2>2
  <1>3. NodeInv /\ Typed => TypeOK
    <2> SUFFICES ASSUME NodeInv, Typed PROVE TypeOK
      OBVIOUS
    <2>1. EventsTyped /\ CallTyped /\ BoundsTyped /\ table \in TableSet
      BY DEF Typed
    <2>2. Range(queue) \in SUBSET Event /\ Range(todo) \in SUBSET log
      BY <2>1, RangeIs DEF EventsTyped, CallTyped
    <2>3. \A e \in log \cup Range(queue) : e \in Event
      BY <2>1, <2>2 DEF EventsTyped
    <2>4. /\ table.stock_on_hand \in [Places -> Int]
          /\ table.reservations \in [Ids -> Hold]
          /\ table.transfers \in [Ids -> Transfer]
          /\ table.exceptions.negative \in [Places -> Flag]
          /\ table.exceptions.compensations \cup table.projection_applied \subseteq EventId
          /\ table.key_touched \in [Places -> Nat \cup {-1}]
      BY <2>1 DEF TableSet
    <2>5. Range(todo) \cup memory \cup lost \subseteq log
      BY <2>1, <2>2 DEF CallTyped
    <2>6. seq \in Nat /\ clk \in [Authors -> Nat]
      BY DEF NodeInv
    <2> QED BY <2>1, <2>3, <2>4, <2>5, <2>6 DEF TypeOK, CallTyped, BoundsTyped
  <1> QED BY <1>1, <1>2, <1>3, PTL DEF Spec

-----------------------------------------------------------------------------
(* Sums over finite sets *)

Totalling(it, f, S) ==
    it = [s \in SUBSET S |->
            IF s = {} THEN 0 ELSE f[CHOOSE x \in s : TRUE] + it[s \ {CHOOSE x \in s : TRUE}]]
Total(f, S) == (CHOOSE it : Totalling(it, f, S))[S]

\* Sums of the subsets of S.
Sums(it, f, S) ==
    /\ it \in [SUBSET S -> Int] /\ it[{}] = 0
    /\ \A s \in SUBSET S : s # {} =>
          it[s] = f[CHOOSE x \in s : TRUE] + it[s \ {CHOOSE x \in s : TRUE}]

\* A property of the subsets of a finite set that grows with the set.
Growing(Q, S, c) ==
    /\ Q \in SUBSET (SUBSET S) /\ {} \in Q
    /\ \A s \in SUBSET S : s # {} => c[s] \in s /\ (s \ {c[s]} \in Q => s \in Q)

LEMMA Induct == ASSUME NEW S, IsFiniteSet(S), NEW Q, NEW c, Growing(Q, S, c) PROVE S \in Q
  <1> DEFINE M == {k \in Nat : \A s \in SUBSET S : Cardinality(s) = k => s \in Q}
  <1>1. \A s \in SUBSET S : IsFiniteSet(s) /\ Cardinality(s) \in Nat /\ (Cardinality(s) = 0 <=> s = {})
    BY FS_Subset, FS_CardinalityType, FS_EmptySet
  <1>2. \A s \in SUBSET S : s # {} => /\ s \ {c[s]} \in SUBSET S
                                      /\ Cardinality(s \ {c[s]}) = Cardinality(s) - 1
    <2> SUFFICES ASSUME NEW s \in SUBSET S, s # {}
                 PROVE  s \ {c[s]} \in SUBSET S /\ Cardinality(s \ {c[s]}) = Cardinality(s) - 1
      OBVIOUS
    <2>1. IsFiniteSet(s) /\ c[s] \in s
      BY <1>1 DEF Growing
    <2> QED BY <2>1, FS_RemoveElement
  <1>3. 0 \in M
    BY <1>1 DEF Growing
  <1>4. ASSUME NEW k \in M PROVE k + 1 \in M
    <2>1. k \in Nat /\ \A s \in SUBSET S : Cardinality(s) = k => s \in Q
      OBVIOUS
    <2>2. ASSUME NEW s \in SUBSET S, Cardinality(s) = k + 1 PROVE s \in Q
      <3>1. s # {}
        BY <1>1, <2>1, <2>2
      <3>2. s \ {c[s]} \in SUBSET S /\ Cardinality(s \ {c[s]}) = k
        BY <1>2, <2>1, <2>2, <3>1
      <3> QED BY <2>1, <3>1, <3>2 DEF Growing
    <2> QED BY <2>1, <2>2
  <1>5. M \in SUBSET Nat
    OBVIOUS
  <1>6. M = Nat
    <2> HIDE DEF M
    <2> QED BY <1>3, <1>4, <1>5, AllNumbers
  <1> QED BY <1>1, <1>6

LEMMA SumsExist ==
    ASSUME NEW S, IsFiniteSet(S), NEW f, \A x \in S : f[x] \in Int
    PROVE  \E it : Sums(it, f, S) /\ Totalling(it, f, S)
  <1> DEFINE c == [s \in SUBSET S |-> CHOOSE x \in s : TRUE]
             G == [p \in (SUBSET S) \X Int |-> IF p[1] = {} THEN 0 ELSE f[c[p[1]]] + p[2]]
  <1>1. \A s \in SUBSET S : s # {} => c[s] = (CHOOSE x \in s : TRUE) /\ c[s] \in s /\ c[s] \in S
    OBVIOUS
  <1> HIDE DEF c
  <1>2. G \in [(SUBSET S) \X Int -> Int]
    BY <1>1
  <1>3. \A s \in SUBSET S : \A v \in Int : s # {} => G[<<s, v>>] = f[c[s]] + v
    OBVIOUS
  <1> HIDE DEF G
  <1>4. PICK it \in [SUBSET S -> Int] : Recursion(it, S, 0, G, c)
    <2>1. 0 \in Int
      OBVIOUS
    <2> QED BY <1>1, <1>2, <2>1, RecursionExists
  <1>5. ASSUME NEW s \in SUBSET S
        PROVE  it[s] = IF s = {} THEN 0
                       ELSE f[CHOOSE x \in s : TRUE] + it[s \ {CHOOSE x \in s : TRUE}]
    <2>1. it[s] = IF s = {} THEN 0 ELSE G[<<s, it[s \ {c[s]}]>>]
      BY <1>4 DEF Recursion
    <2>2. s \ {c[s]} \in SUBSET S /\ it[s \ {c[s]}] \in Int
      BY <1>4
    <2>3. s # {} => it[s] = f[c[s]] + it[s \ {c[s]}]
      BY <1>3, <2>1, <2>2
    <2> QED BY <1>1, <2>1, <2>3
  <1>6. Totalling(it, f, S)
    BY <1>4, <1>5 DEF Totalling
  <1>7. Sums(it, f, S)
    BY <1>4, <1>5 DEF Sums
  <1> QED BY <1>6, <1>7

LEMMA TotallingSums ==
    ASSUME NEW S, IsFiniteSet(S), NEW f, \A x \in S : f[x] \in Int, NEW it, Totalling(it, f, S)
    PROVE  Sums(it, f, S)
  <1>1. /\ DOMAIN it = SUBSET S /\ it = [s \in SUBSET S |-> it[s]] /\ it[{}] = 0
        /\ \A s \in SUBSET S : s # {} =>
              it[s] = f[CHOOSE x \in s : TRUE] + it[s \ {CHOOSE x \in s : TRUE}]
    BY DEF Totalling
  <1> DEFINE c == [s \in SUBSET S |-> CHOOSE x \in s : TRUE]
  <1>2. \A s \in SUBSET S : s # {} => c[s] = (CHOOSE x \in s : TRUE) /\ c[s] \in s
    OBVIOUS
  <1> HIDE DEF c
  <1>3. ASSUME NEW T \in SUBSET S PROVE it[T] \in Int
    <2> DEFINE Q == {s \in SUBSET T : it[s] \in Int}
    <2>1. IsFiniteSet(T) /\ {} \in Q
      BY <1>1, FS_Subset
    <2>2. ASSUME NEW s \in SUBSET T, s # {}, s \ {c[s]} \in Q PROVE s \in Q
      <3>1. it[s] = f[c[s]] + it[s \ {c[s]}] /\ c[s] \in S
        BY <1>1, <1>2, <2>2
      <3> QED BY <2>2, <3>1
    <2>3. Growing(Q, T, c)
      BY <1>2, <2>1, <2>2 DEF Growing
    <2> HIDE DEF Q
    <2>4. T \in Q
      BY <2>1, <2>3, Induct
    <2> QED BY <2>4 DEF Q
  <1> QED BY <1>1, <1>3 DEF Sums

\* The sum over a subset does not depend on the set it is taken from.
LEMMA SumsAgree ==
    ASSUME NEW S, IsFiniteSet(S), NEW T \in SUBSET S, NEW f, NEW g, \A x \in T : f[x] = g[x],
           NEW it, Sums(it, f, S), NEW jt, Sums(jt, g, T)
    PROVE  it[T] = jt[T]
  <1> DEFINE Q == {s \in SUBSET T : it[s] = jt[s]}
             c == [s \in SUBSET T |-> CHOOSE x \in s : TRUE]
  <1>1. \A s \in SUBSET T : s # {} => c[s] = (CHOOSE x \in s : TRUE) /\ c[s] \in s
    OBVIOUS
  <1> HIDE DEF c
  <1>2. ASSUME NEW s \in SUBSET T, s # {}, s \ {c[s]} \in Q PROVE s \in Q
    <2>0. s \in SUBSET S /\ c[s] = CHOOSE x \in s : TRUE
      BY <1>1, <1>2
    <2>1. it[s] = f[c[s]] + it[s \ {c[s]}] /\ jt[s] = g[c[s]] + jt[s \ {c[s]}]
      BY <1>2, <2>0 DEF Sums
    <2> QED BY <1>1, <1>2, <2>1
  <1>3. IsFiniteSet(T) /\ {} \in Q
    BY FS_Subset DEF Sums
  <1>4. Growing(Q, T, c)
    BY <1>1, <1>2, <1>3 DEF Growing
  <1> HIDE DEF Q
  <1>5. T \in Q
    BY <1>3, <1>4, Induct
  <1> QED BY <1>5 DEF Q

LEMMA TotalOf ==
    ASSUME NEW S, IsFiniteSet(S), NEW f, \A x \in S : f[x] \in Int
    PROVE  /\ Total(f, S) \in Int
           /\ \E it : Sums(it, f, S) /\ \A T \in SUBSET S : it[T] = Total(f, T)
  <1>1. \A T \in SUBSET S : \E jt : Sums(jt, f, T) /\ jt[T] = Total(f, T)
    <2> TAKE T \in SUBSET S
    <2> DEFINE jt == CHOOSE jt : Totalling(jt, f, T)
    <2>1. IsFiniteSet(T) /\ \A x \in T : f[x] \in Int
      BY FS_Subset
    <2>2. Totalling(jt, f, T)
      BY <2>1, SumsExist
    <2>3. Sums(jt, f, T)
      <3> HIDE DEF jt
      <3> QED BY <2>1, <2>2, TotallingSums
    <2> QED BY <2>3 DEF Total
  <1>2. PICK it : Sums(it, f, S) /\ it[S] = Total(f, S)
    BY <1>1
  <1>3. \A T \in SUBSET S : it[T] = Total(f, T)
    BY <1>1, <1>2, SumsAgree
  <1>4. S \in SUBSET S /\ it \in [SUBSET S -> Int]
    BY <1>2 DEF Sums
  <1>5. it[S] \in Int
    BY <1>4
  <1> QED BY <1>2, <1>3, <1>5

\* The law of a sum: any element may be taken out of it.
LEMMA TotalLaw ==
    ASSUME NEW S, IsFiniteSet(S), NEW f, \A x \in S : f[x] \in Int
    PROVE  /\ Total(f, {}) = 0 /\ \A T \in SUBSET S : Total(f, T) \in Int
           /\ \A T \in SUBSET S : \A x \in T : Total(f, T) = f[x] + Total(f, T \ {x})
  <1>1. PICK it : Sums(it, f, S) /\ \A T \in SUBSET S : it[T] = Total(f, T)
    BY TotalOf
  <1> DEFINE c == [s \in SUBSET S |-> CHOOSE x \in s : TRUE]
             M == {k \in Nat : \A s \in SUBSET S :
                      Cardinality(s) = k => \A y \in s : it[s] = f[y] + it[s \ {y}]}
  <1>2. \A s \in SUBSET S : s # {} => c[s] = (CHOOSE x \in s : TRUE) /\ c[s] \in s
    OBVIOUS
  <1>3. \A s \in SUBSET S : s # {} => it[s] = f[c[s]] + it[s \ {c[s]}]
    BY <1>1, <1>2 DEF Sums
  <1> HIDE DEF c
  <1>4. \A s \in SUBSET S : /\ IsFiniteSet(s) /\ Cardinality(s) \in Nat /\ it[s] \in Int
                            /\ (Cardinality(s) = 0 <=> s = {})
    BY <1>1, FS_Subset, FS_CardinalityType, FS_EmptySet DEF Sums
  <1>5. 0 \in M
    BY <1>4
  <1>6. ASSUME NEW k \in M PROVE k + 1 \in M
    <2> SUFFICES ASSUME NEW s \in SUBSET S, Cardinality(s) = k + 1, NEW y \in s
                 PROVE  it[s] = f[y] + it[s \ {y}]
      OBVIOUS
    <2> DEFINE z == c[s]
               a == s \ {z}
               b == s \ {y}
    <2>1. z \in s /\ it[s] = f[z] + it[a] /\ z \in S /\ y \in S /\ f[z] \in Int /\ f[y] \in Int
      BY <1>2, <1>3
    <2> HIDE DEF z
    <2>2. a \in SUBSET S /\ b \in SUBSET S /\ Cardinality(a) = k /\ Cardinality(b) = k
      <3>1. Cardinality(a) = Cardinality(s) - 1 /\ Cardinality(b) = Cardinality(s) - 1
        BY <1>4, <2>1, FS_RemoveElement
      <3> QED BY <3>1
    <2>3. CASE y = z
      BY <2>1, <2>3
    <2>4. CASE y # z
      <3>1. y \in a /\ z \in b /\ a \ {y} = b \ {z}
        BY <2>1, <2>4
      <3>2. it[a] = f[y] + it[a \ {y}] /\ it[b] = f[z] + it[b \ {z}]
        BY <2>2, <3>1
      <3>3. it[a \ {y}] \in Int /\ it[a] \in Int /\ it[b] \in Int /\ it[s] \in Int
        BY <1>4, <2>2
      <3> DEFINE u == it[s]
                 v == it[a]
                 w == it[b]
                 t == it[a \ {y}]
      <3>4. u = f[z] + v /\ v = f[y] + t /\ w = f[z] + t
        BY <2>1, <3>1, <3>2
      <3> HIDE DEF u, v, w, t
      <3>5. u = f[y] + w
        BY <2>1, <3>3, <3>4 DEF u, v, w, t
      <3> QED BY <3>5 DEF u, w
    <2> QED BY <2>3, <2>4
  <1>7. M \in SUBSET Nat
    OBVIOUS
  <1>8. M = Nat
    <2> HIDE DEF M
    <2> QED BY <1>5, <1>6, <1>7, AllNumbers
  <1>9. \A s \in SUBSET S : \A y \in s : it[s] = f[y] + it[s \ {y}]
    BY <1>4, <1>8
  <1>10. it[{}] = 0
    BY <1>1 DEF Sums
  <1>11. {} \in SUBSET S /\ \A T \in SUBSET S : \A x \in T : T \ {x} \in SUBSET S
    OBVIOUS
  <1> QED BY <1>1, <1>4, <1>9, <1>10, <1>11

LEMMA TotalUnion ==
    ASSUME NEW S, NEW T, IsFiniteSet(S), IsFiniteSet(T), S \cap T = {},
           NEW f, \A x \in S \cup T : f[x] \in Int
    PROVE  Total(f, S \cup T) = Total(f, S) + Total(f, T)
  <1> DEFINE U == S \cup T
             Q == {s \in SUBSET T : Total(f, S \cup s) = Total(f, S) + Total(f, s)}
             c == [s \in SUBSET T |-> CHOOSE x \in s : TRUE]
  <1>1. IsFiniteSet(U) /\ S \in SUBSET U /\ \A s \in SUBSET T : s \in SUBSET U /\ S \cup s \in SUBSET U
    BY FS_Union
  <1>2. /\ Total(f, {}) = 0 /\ \A s \in SUBSET U : Total(f, s) \in Int
        /\ \A s \in SUBSET U : \A x \in s : Total(f, s) = f[x] + Total(f, s \ {x})
    BY <1>1, TotalLaw
  <1>3. \A s \in SUBSET T : s # {} => c[s] \in s
    OBVIOUS
  <1> HIDE DEF c, U
  <1>4. {} \in Q
    BY <1>1, <1>2
  <1>5. ASSUME NEW s \in SUBSET T, s # {}, s \ {c[s]} \in Q PROVE s \in Q
    <2> DEFINE x == c[s]
               a == s \ {x}
    <2>1. x \in s /\ x \in T /\ x \notin S /\ f[x] \in Int
      BY <1>3, <1>5
    <2> HIDE DEF x
    <2>2. a \in SUBSET T /\ S \cup a = (S \cup s) \ {x}
      BY <2>1
    <2>3. Total(f, s) = f[x] + Total(f, a) /\ Total(f, S \cup s) = f[x] + Total(f, S \cup a)
      BY <1>1, <1>2, <2>1, <2>2
    <2>4. Total(f, S \cup a) = Total(f, S) + Total(f, a)
      BY <1>5 DEF x
    <2>5. Total(f, a) \in Int /\ Total(f, S) \in Int
      BY <1>1, <1>2, <2>2
    <2> HIDE DEF a
    <2>6. Total(f, S \cup s) = Total(f, S) + Total(f, s)
      BY <2>1, <2>3, <2>4, <2>5
    <2> QED BY <2>6
  <1>6. Growing(Q, T, c)
    BY <1>3, <1>4, <1>5 DEF Growing
  <1> HIDE DEF Q
  <1>7. T \in Q
    BY <1>6, Induct
  <1> QED BY <1>7 DEF Q

LEMMA TotalAdds ==
    ASSUME NEW S, IsFiniteSet(S), NEW f, NEW g, NEW h, \A x \in S : f[x] \in Int /\ g[x] \in Int,
           \A x \in S : h[x] = f[x] + g[x]
    PROVE  Total(h, S) = Total(f, S) + Total(g, S)
  <1> DEFINE Q == {s \in SUBSET S : Total(h, s) = Total(f, s) + Total(g, s)}
             c == [s \in SUBSET S |-> CHOOSE x \in s : TRUE]
             Law(k) == /\ Total(k, {}) = 0 /\ \A s \in SUBSET S : Total(k, s) \in Int
                       /\ \A s \in SUBSET S : \A x \in s : Total(k, s) = k[x] + Total(k, s \ {x})
  <1>1. Law(f) /\ Law(g) /\ Law(h)
    <2>1. \A x \in S : h[x] \in Int
      OBVIOUS
    <2> QED BY <2>1, TotalLaw
  <1>2. \A s \in SUBSET S : s # {} => c[s] \in s
    OBVIOUS
  <1> HIDE DEF c
  <1>3. {} \in Q
    BY <1>1
  <1>4. ASSUME NEW s \in SUBSET S, s # {}, s \ {c[s]} \in Q PROVE s \in Q
    <2> DEFINE x == c[s]
               a == s \ {x}
    <2>1. x \in s /\ x \in S /\ a \in SUBSET S
      BY <1>2, <1>4
    <2> HIDE DEF x
    <2>2. /\ Total(h, s) = h[x] + Total(h, a) /\ Total(f, s) = f[x] + Total(f, a)
          /\ Total(g, s) = g[x] + Total(g, a)
      BY <1>1, <2>1
    <2>3. Total(h, a) = Total(f, a) + Total(g, a)
      BY <1>4 DEF x
    <2>4. /\ Total(h, a) \in Int /\ Total(f, a) \in Int /\ Total(g, a) \in Int
          /\ f[x] \in Int /\ g[x] \in Int /\ h[x] = f[x] + g[x]
      BY <1>1, <2>1
    <2> HIDE DEF a
    <2>5. Total(h, s) = Total(f, s) + Total(g, s)
      BY <2>2, <2>3, <2>4
    <2> QED BY <2>5
  <1>5. Growing(Q, S, c)
    BY <1>2, <1>3, <1>4 DEF Growing
  <1> HIDE DEF Q
  <1>6. S \in Q
    BY <1>5, Induct
  <1> QED BY <1>6 DEF Q

LEMMA TotalSign ==
    ASSUME NEW S, IsFiniteSet(S), NEW f, \A x \in S : f[x] \in Int /\ f[x] >= 0
    PROVE  Total(f, S) >= 0
  <1> DEFINE Q == {s \in SUBSET S : Total(f, s) >= 0}
             c == [s \in SUBSET S |-> CHOOSE x \in s : TRUE]
  <1>1. /\ Total(f, {}) = 0 /\ \A s \in SUBSET S : Total(f, s) \in Int
        /\ \A s \in SUBSET S : \A x \in s : Total(f, s) = f[x] + Total(f, s \ {x})
    BY TotalLaw
  <1>2. \A s \in SUBSET S : s # {} => c[s] \in s
    OBVIOUS
  <1> HIDE DEF c
  <1>3. ASSUME NEW s \in SUBSET S, s # {}, s \ {c[s]} \in Q PROVE s \in Q
    <2>1. c[s] \in s /\ c[s] \in S /\ s \ {c[s]} \in SUBSET S
      BY <1>2, <1>3
    <2>2. Total(f, s) = f[c[s]] + Total(f, s \ {c[s]}) /\ Total(f, s \ {c[s]}) \in Int
      BY <1>1, <2>1
    <2> QED BY <1>3, <2>1, <2>2
  <1>4. {} \in Q
    BY <1>1
  <1>5. Growing(Q, S, c)
    BY <1>2, <1>3, <1>4 DEF Growing
  <1> HIDE DEF Q
  <1>6. S \in Q
    BY <1>5, Induct
  <1> QED BY <1>6 DEF Q

LEMMA TotalZero ==
    ASSUME NEW S, IsFiniteSet(S), NEW f, \A x \in S : f[x] = 0
    PROVE  Total(f, S) = 0
  <1>1. \A x \in S : f[x] \in Int /\ f[x] = f[x] + f[x]
    OBVIOUS
  <1>2. Total(f, S) = Total(f, S) + Total(f, S)
    BY <1>1, TotalAdds
  <1>3. Total(f, S) \in Int
    BY <1>1, TotalLaw
  <1> DEFINE t == Total(f, S)
  <1>4. t = t + t /\ t \in Int
    BY <1>2, <1>3
  <1> HIDE DEF t
  <1>5. t = 0
    BY <1>4
  <1> QED BY <1>5 DEF t

LEMMA TotalCompares ==
    ASSUME NEW S, IsFiniteSet(S), NEW f, NEW g,
           \A x \in S : f[x] \in Int /\ g[x] \in Int /\ f[x] <= g[x]
    PROVE  Total(f, S) <= Total(g, S)
  <1> DEFINE h == [x \in S |-> g[x] - f[x]]
  <1>1. \A x \in S : h[x] \in Int /\ h[x] >= 0 /\ g[x] = f[x] + h[x]
    OBVIOUS
  <1> HIDE DEF h
  <1>2. Total(g, S) = Total(f, S) + Total(h, S) /\ Total(h, S) >= 0
    BY <1>1, TotalAdds, TotalSign
  <1>3. Total(f, S) \in Int /\ Total(h, S) \in Int
    BY <1>1, TotalLaw
  <1> QED BY <1>2, <1>3

LEMMA TotalSame ==
    ASSUME NEW S, IsFiniteSet(S), NEW f, NEW g, \A x \in S : f[x] \in Int /\ f[x] = g[x]
    PROVE  Total(f, S) = Total(g, S)
  <1>1. Total(f, S) <= Total(g, S) /\ Total(g, S) <= Total(f, S)
    BY TotalCompares
  <1>2. Total(f, S) \in Int /\ Total(g, S) \in Int
    BY TotalLaw
  <1> QED BY <1>1, <1>2

-----------------------------------------------------------------------------
(* The stock of a replay, as sums that do not depend on its order *)

Delta(m, l) == (IF m.to = l THEN m.qty ELSE 0) - (IF m.from = l THEN m.qty ELSE 0)

\* What an event moves at a place by itself, what an arrival brings there once its transfer
\* is known to come here, and what the events of X take from it.
PlainAt(l) ==
    [e \in Event |->
        IF \/ e.says.kind \in {"received", "putaway", "picked", "adjusted"}
           \/ e.says.kind = "dispatched" /\ e.says.source = Home
        THEN Delta(e.says.move, l) ELSE 0]
LandAt(i, l) ==
    [e \in Event |-> IF e.says.kind = "arrived" /\ e.says.id = i THEN Delta(e.says.move, l) ELSE 0]
Debit(X, l) ==
    [e \in Event |-> IF e \in X /\ e.says.kind \in Moving /\ e.says.move.from = l
                     THEN e.says.move.qty ELSE 0]

Sends(d, i) == d.says.kind = "dispatched" /\ d.says.id = i
OneTarget(S) ==
    \A d, e \in S : d.says.kind = "dispatched" /\ Sends(e, d.says.id) => d.says.target = e.says.target

Landed(S, i) == \E d \in S : Sends(d, i) /\ d.says.target = Home
Land(S, i, l) == IF Landed(S, i) THEN Total(LandAt(i, l), S) ELSE 0
Value(S, l) == Total(PlainAt(l), S) + Land(S, "x", l) + Land(S, "y", l)

LEMMA FlowsTyped ==
    ASSUME NEW e \in Event, NEW l \in Places
    PROVE  /\ PlainAt(l)[e] \in Int
           /\ \A i \in Ids : LandAt(i, l)[e] \in Int
           /\ \A X : Debit(X, l)[e] \in Nat
  <1> DEFINE p == e.says
  <1>1. p \in Payload
    BY DEF Event
  <1> HIDE DEF p
  <1>2. p.kind \in Moving => p.move \in Move
    BY <1>1, PayloadFields
  <1>3. p.kind \in Moving => p.move.qty \in Nat /\ Delta(p.move, l) \in Int
    BY <1>2 DEF Move, Delta
  <1> QED BY <1>3 DEF PlainAt, LandAt, Debit, Moving, p

LEMMA TakenIs ==
    ASSUME NEW T \in SUBSET Event, IsFiniteSet(T), NEW X, NEW S, S = T \cap X, NEW l \in Places
    PROVE  Taken(l, S) = Total(Debit(X, l), T)
  <1> DEFINE K == {e \in S : e.says.kind \in Moving /\ e.says.move.from = l}
             g == Debit(X, l)
             Taking(it) ==
                it = [s \in SUBSET K |->
                        IF s = {} THEN 0
                        ELSE (CHOOSE x \in s : TRUE).says.move.qty + it[s \ {CHOOSE x \in s : TRUE}]]
             jt == CHOOSE it : Taking(it)
  <1>1. Taken(l, S) = jt[K]
    BY DEF Taken, MapThenSumSet, MapThenFoldSet
  <1>2. \A e \in T : g[e] \in Int
    BY FlowsTyped
  <1>3. \A e \in K : g[e] = e.says.move.qty /\ g[e] \in Int
    BY <1>2 DEF Debit
  <1>4. \A e \in T \ K : g[e] = 0
    BY DEF Debit
  <1>5. K \in SUBSET T /\ IsFiniteSet(K) /\ IsFiniteSet(T \ K) /\ K \cup (T \ K) = T
    BY FS_Subset
  <1> HIDE DEF K, g
  <1>6. \A it : Taking(it) <=> Totalling(it, g, K)
    <2>1. ASSUME NEW it
          PROVE  [s \in SUBSET K |->
                    IF s = {} THEN 0
                    ELSE (CHOOSE x \in s : TRUE).says.move.qty + it[s \ {CHOOSE x \in s : TRUE}]]
                 = [s \in SUBSET K |->
                      IF s = {} THEN 0
                      ELSE g[CHOOSE x \in s : TRUE] + it[s \ {CHOOSE x \in s : TRUE}]]
      <3>1. \A s \in SUBSET K : s # {} => g[CHOOSE x \in s : TRUE] = (CHOOSE x \in s : TRUE).says.move.qty
        BY <1>3
      <3> QED BY <3>1
    <2> QED BY <2>1 DEF Totalling
  <1>7. \E it : Totalling(it, g, K)
    BY <1>3, <1>5, SumsExist
  <1>8. Totalling(jt, g, K)
    <2> HIDE DEF Taking
    <2> QED BY <1>6, <1>7
  <1> HIDE DEF jt
  <1>9. jt[K] = Total(g, K)
    <2>1. Sums(jt, g, K)
      BY <1>3, <1>5, <1>8, TotallingSums
    <2>2. PICK it : Sums(it, g, K) /\ \A U \in SUBSET K : it[U] = Total(g, U)
      BY <1>3, <1>5, TotalOf
    <2>3. K \in SUBSET K /\ it[K] = jt[K]
      BY <1>5, <2>1, <2>2, SumsAgree
    <2> QED BY <2>2, <2>3
  <1>10. Total(g, T) = Total(g, K) + Total(g, T \ K)
    BY <1>2, <1>5, TotalUnion
  <1>11. Total(g, T \ K) = 0 /\ Total(g, K) \in Int
    BY <1>3, <1>4, <1>5, TotalZero, TotalLaw
  <1> QED BY <1>1, <1>9, <1>10, <1>11 DEF g

\* One more event adds what it moves.
LEMMA OneMore ==
    ASSUME NEW S \in SUBSET Event, IsFiniteSet(S), NEW e \in Event, e \notin S, NEW l \in Places
    PROVE  /\ Total(PlainAt(l), S \cup {e}) = Total(PlainAt(l), S) + PlainAt(l)[e]
           /\ \A i \in Ids : Total(LandAt(i, l), S \cup {e}) = Total(LandAt(i, l), S) + LandAt(i, l)[e]
           /\ Total(PlainAt(l), S) \in Int /\ \A i \in Ids : Total(LandAt(i, l), S) \in Int
  <1> DEFINE T == S \cup {e}
  <1>1. IsFiniteSet(T) /\ T \in SUBSET T /\ T \ {e} = S /\ S \in SUBSET T /\ e \in T /\ T \in SUBSET Event
    BY FS_AddElement
  <1> HIDE DEF T
  <1>2. ASSUME NEW f, \A x \in T : f[x] \in Int
        PROVE  Total(f, T) = Total(f, S) + f[e] /\ Total(f, S) \in Int
    <2>1. Total(f, T) = f[e] + Total(f, S) /\ Total(f, S) \in Int
      BY <1>1, <1>2, TotalLaw
    <2> QED BY <1>1, <1>2, <2>1
  <1>3. \A x \in T : PlainAt(l)[x] \in Int /\ \A i \in Ids : LandAt(i, l)[x] \in Int
    BY <1>1, FlowsTyped
  <1> QED BY <1>2, <1>3 DEF T

\* One more event, which is no arrival.
LEMMA NoneLands ==
    ASSUME NEW S \in SUBSET Event, IsFiniteSet(S), NEW e \in Event, e \notin S, NEW l \in Places,
           \A j \in Ids : LandAt(j, l)[e] = 0
    PROVE  /\ Total(PlainAt(l), S \cup {e}) = Total(PlainAt(l), S) + PlainAt(l)[e]
           /\ \A j \in Ids : Total(LandAt(j, l), S \cup {e}) = Total(LandAt(j, l), S)
           /\ Total(PlainAt(l), S) \in Int /\ PlainAt(l)[e] \in Int
           /\ \A j \in Ids : Total(LandAt(j, l), S) \in Int
  <1> DEFINE T == S \cup {e}
  <1>1. /\ Total(PlainAt(l), T) = Total(PlainAt(l), S) + PlainAt(l)[e]
        /\ \A j \in Ids : Total(LandAt(j, l), T) = Total(LandAt(j, l), S) + LandAt(j, l)[e]
        /\ Total(PlainAt(l), S) \in Int
        /\ \A j \in Ids : Total(LandAt(j, l), S) \in Int
    BY OneMore
  <1>2. PlainAt(l)[e] \in Int
    BY FlowsTyped
  <1>3. \A j \in Ids : Total(LandAt(j, l), T) = Total(LandAt(j, l), S)
    <2> SUFFICES ASSUME NEW j \in Ids PROVE Total(LandAt(j, l), T) = Total(LandAt(j, l), S)
      OBVIOUS
    <2> DEFINE a == Total(LandAt(j, l), S)
    <2>1. a \in Int /\ Total(LandAt(j, l), T) = a + 0
      BY <1>1
    <2> HIDE DEF a
    <2>2. a + 0 = a
      BY <2>1
    <2> QED BY <2>1, <2>2 DEF a
  <1> QED BY <1>1, <1>2, <1>3

\* No move, and one more move, in a fold of moves.
LEMMA FoldNone ==
    ASSUME NEW st \in [Places -> Int]
    PROVE  FoldLeft(Moved, st, << >>) = st
  <1> DEFINE V == [Places -> Int]
  <1>1. DOMAIN << >> = 1..0 /\ 0 \in Nat /\ 1..0 = {} /\ st \in V
    OBVIOUS
  <1>2. \A v \in V, i \in 1..0 : Moved(v, << >>[i]) \in V
    BY <1>1
  <1> HIDE DEF V
  <1>3. PICK z \in [0..0 -> V] : MovedRun(z, st, << >>, 0)
    BY <1>1, <1>2, MovedRuns
  <1> QED BY <1>3 DEF MovedRun

LEMMA FoldMoves ==
    ASSUME NEW st \in [Places -> Int], NEW q \in Seq(Move), NEW m \in Move
    PROVE  FoldLeft(Moved, st, Append(q, m)) = Moved(FoldLeft(Moved, st, q), m)
  <1> DEFINE V == [Places -> Int]
             n == Len(q)
             w == Append(q, m)
  <1>1. n \in Nat /\ DOMAIN q = 1..n /\ \A i \in 1..n : q[i] \in Move
    BY LenProperties
  <1>2. n + 1 \in Nat /\ DOMAIN w = 1..(n + 1) /\ w[n + 1] = m /\ \A i \in 1..n : w[i] = q[i]
    <2>1. w \in Seq(Move) /\ Len(w) = n + 1 /\ w[n + 1] = m /\ \A i \in 1..n : w[i] = q[i]
      BY AppendProperties
    <2> QED BY <1>1, <2>1, LenProperties
  <1> HIDE DEF n, w
  <1>3. \A i \in 1..(n + 1) : w[i] \in Move
    <2>1. \A i \in 1..(n + 1) : i \in 1..n \/ i = n + 1
      BY <1>1
    <2> QED BY <1>1, <1>2, <2>1
  <1>4. \A v \in V : \A k \in Move : Moved(v, k) \in V
    BY MovedTyped
  <1> HIDE DEF V
  <1>5. st \in V
    BY DEF V
  <1>6. PICK r \in [0..n -> V] : MovedRun(r, st, q, n)
    BY <1>1, <1>4, <1>5, MovedRuns
  <1>7. PICK t \in [0..(n + 1) -> V] : MovedRun(t, st, w, n + 1)
    BY <1>2, <1>3, <1>4, <1>5, MovedRuns
  <1>8. r[n] = t[n]
    <2>1. r[0] = t[0]
      BY <1>6, <1>7 DEF MovedRun
    <2>2. ASSUME NEW k \in 1..n, r[k - 1] = t[k - 1] PROVE r[k] = t[k]
      <3>1. k \in 1..(n + 1)
        BY <1>1
      <3> QED BY <1>2, <1>6, <1>7, <2>2, <3>1 DEF MovedRun
    <2> QED BY <1>1, <2>1, <2>2, RunsAgree
  <1>9. t[n + 1] = Moved(t[n], m)
    <2>1. n + 1 \in 1..(n + 1) /\ (n + 1) - 1 = n
      BY <1>1
    <2> QED BY <1>2, <1>7, <2>1 DEF MovedRun
  <1> QED BY <1>6, <1>7, <1>8, <1>9 DEF MovedRun, w

\* What a replay of S has come to.
Sent(S, i) == \E d \in S : Sends(d, i)
Matches(s, S) ==
    /\ \A i \in Ids : s.transfers[i].status # "none" <=> Sent(S, i)
    /\ \A i \in Ids : \A d \in S :
          Sends(d, i) => s.transfers[i].target = d.says.target /\ s.pending[i] = << >>
    /\ \A i \in Ids : ~ Sent(S, i) =>
          \A st \in [Places -> Int] : \A l \in Places :
             FoldLeft(Moved, st, s.pending[i])[l] = st[l] + Total(LandAt(i, l), S)
    /\ \A l \in Places : s.stock[l] = Value(S, l)

LEMMA MovedIs ==
    ASSUME NEW st \in [Places -> Int], NEW m \in Move, NEW l \in Places
    PROVE  Moved(st, m)[l] = st[l] + Delta(m, l)
  BY DEF Moved, Delta, Move

\* An event that sends nothing and brings nothing.
LEMMA PlainMatches ==
    ASSUME NEW s \in StateSet, NEW S \in SUBSET Event, IsFiniteSet(S), NEW e \in Event, e \notin S,
           Matches(s, S), e.says.kind \notin {"dispatched", "arrived"},
           NEW t, t.transfers = s.transfers, t.pending = s.pending,
           \A l \in Places : t.stock[l] = s.stock[l] + PlainAt(l)[e]
    PROVE  Matches(t, S \cup {e})
  <1> DEFINE T == S \cup {e}
  <1>1. \A i \in Ids : \A d \in T : Sends(d, i) => d \in S
    BY DEF Sends
  <1>2. \A i \in Ids : (Sent(T, i) <=> Sent(S, i)) /\ (Landed(T, i) <=> Landed(S, i))
    BY <1>1 DEF Sent, Landed
  <1>3. \A l \in Places : /\ Total(PlainAt(l), T) = Total(PlainAt(l), S) + PlainAt(l)[e]
                          /\ \A i \in Ids : Total(LandAt(i, l), T) = Total(LandAt(i, l), S)
                          /\ Total(PlainAt(l), S) \in Int /\ PlainAt(l)[e] \in Int
                          /\ \A i \in Ids : Total(LandAt(i, l), S) \in Int
    <2> TAKE l \in Places
    <2>1. \A i \in Ids : LandAt(i, l)[e] = 0
      BY DEF LandAt
    <2> QED BY <2>1, NoneLands
  <1>4. ASSUME NEW l \in Places PROVE t.stock[l] = Value(T, l)
    <2> DEFINE c == PlainAt(l)[e]
               a == Total(PlainAt(l), S)
               x == Land(S, "x", l)
               y == Land(S, "y", l)
    <2>1. Land(T, "x", l) = x /\ Land(T, "y", l) = y /\ x \in Int /\ y \in Int
      <3>1. \A i \in Ids : Land(T, i, l) = Land(S, i, l) /\ Land(S, i, l) \in Int
        <4> SUFFICES ASSUME NEW i \in Ids PROVE Land(T, i, l) = Land(S, i, l) /\ Land(S, i, l) \in Int
          OBVIOUS
        <4>1. Landed(T, i) <=> Landed(S, i)
          BY <1>2
        <4>2. Total(LandAt(i, l), T) = Total(LandAt(i, l), S) /\ Total(LandAt(i, l), S) \in Int
          BY <1>3
        <4> HIDE DEF T
        <4> QED BY <4>1, <4>2 DEF Land
      <3> QED BY <3>1 DEF Ids
    <2>2. a \in Int /\ c \in Int /\ Total(PlainAt(l), T) = a + c /\ t.stock[l] = s.stock[l] + c
      BY <1>3
    <2>3. s.stock[l] = a + x + y
      BY DEF Matches, Value
    <2>4. Value(T, l) = Total(PlainAt(l), T) + Land(T, "x", l) + Land(T, "y", l)
      BY DEF Value
    <2> HIDE DEF a, c, x, y, T
    <2>5. Value(T, l) = (a + c) + x + y /\ t.stock[l] = (a + x + y) + c
      BY <2>1, <2>2, <2>3, <2>4
    <2> QED BY <2>1, <2>2, <2>5
  <1> HIDE DEF T
  <1>5. Matches(t, T)
    BY <1>1, <1>2, <1>3, <1>4 DEF Matches
  <1> QED BY <1>5 DEF T

\* Only one of the two sums of arrivals can change.
LEMMA ValueChanges ==
    ASSUME NEW S, NEW T, NEW l, NEW i \in Ids,
           Total(PlainAt(l), S) \in Int, Total(PlainAt(l), T) \in Int,
           \A j \in Ids : Land(S, j, l) \in Int /\ Land(T, j, l) \in Int,
           \A j \in Ids : j # i => Land(T, j, l) = Land(S, j, l)
    PROVE  Value(T, l) = Value(S, l) + (Total(PlainAt(l), T) - Total(PlainAt(l), S))
                                     + (Land(T, i, l) - Land(S, i, l))
  <1>1. i = "x" \/ i = "y"
    BY DEF Ids
  <1> DEFINE a == Total(PlainAt(l), S)
             b == Total(PlainAt(l), T)
             x == Land(S, "x", l)
             y == Land(S, "y", l)
             v == Land(T, "x", l)
             w == Land(T, "y", l)
  <1>2. /\ a \in Int /\ b \in Int /\ x \in Int /\ y \in Int /\ v \in Int /\ w \in Int
        /\ i = "x" => w = y
        /\ i = "y" => v = x
    BY DEF Ids
  <1>3. Value(S, l) = a + x + y /\ Value(T, l) = b + v + w
    BY DEF Value
  <1> HIDE DEF a, b, x, y, v, w
  <1>4. CASE i = "x"
    <2>1. Land(T, i, l) = v /\ Land(S, i, l) = x
      BY <1>4 DEF v, x
    <2>2. Value(T, l) = Value(S, l) + (b - a) + (v - x)
      BY <1>2, <1>3, <1>4
    <2> QED BY <2>1, <2>2 DEF a, b
  <1>5. CASE i = "y"
    <2>1. Land(T, i, l) = w /\ Land(S, i, l) = y
      BY <1>5 DEF w, y
    <2>2. Value(T, l) = Value(S, l) + (b - a) + (w - y)
      BY <1>2, <1>3, <1>5
    <2> QED BY <2>1, <2>2 DEF a, b
  <1> QED BY <1>1, <1>4, <1>5

LEMMA DispatchMatches ==
    ASSUME NEW s \in StateSet, NEW S \in SUBSET Event, IsFiniteSet(S), NEW e \in Event, e \notin S,
           OneTarget(S \cup {e}), Matches(s, S), e.says.kind = "dispatched"
    PROVE  Matches(Dispatched(s, e.says), S \cup {e})
  <1> DEFINE T == S \cup {e}
             p == e.says
             i == p.id
             row == s.transfers[i]
             early == s.pending[i]
             left == IF p.source = Home THEN Moved(s.stock, p.move) ELSE s.stock
             u == Dispatched(s, p)
  <1>1. p \in Payload /\ i \in Ids /\ p.move \in Move /\ Sends(e, i)
    BY PayloadFields DEF Event, Moving, Sends
  <1>2. /\ s.transfers \in [Ids -> Transfer] /\ s.pending \in [Ids -> Seq(Move)]
        /\ s.stock \in [Places -> Int]
    BY DEF StateSet
  <1> HIDE DEF p
  <1>3. row \in Transfer /\ early \in Seq(Move)
    BY <1>1, <1>2
  <1>4. /\ DOMAIN u.transfers = Ids /\ DOMAIN u.pending = Ids
        /\ \A j \in Ids : j # i => u.transfers[j] = s.transfers[j] /\ u.pending[j] = s.pending[j]
        /\ u.pending[i] = << >>
        /\ u.transfers[i].target = IF row.status = "none" THEN p.target ELSE row.target
        /\ u.transfers[i].status # "none"
        /\ u.stock = IF p.target = Home THEN FoldLeft(Moved, left, early) ELSE left
    <2> DEFINE old == IF row.status = "none"
                        THEN [row EXCEPT !.source = p.source, !.target = p.target,
                                         !.status = "in_flight"]
                        ELSE row
               t == [old EXCEPT !.dispatched = @ + p.move.qty, !.received = @ + SumOf(early)]
               new == IF early = << >> THEN t ELSE Completed(t)
    <2>1. u = [s EXCEPT !.transfers[i] = new, !.pending[i] = << >>,
                        !.stock = IF p.target = Home THEN FoldLeft(Moved, left, early) ELSE left]
      BY DEF Dispatched
    <2>2. new.target = old.target /\ (new.status = "none" => old.status = "none")
      <3>1. t.target = old.target /\ t.status = old.status
        BY <1>3 DEF Transfer
      <3>2. Completed(t).target = t.target /\ (Completed(t).status = "none" => t.status = "none")
        BY <1>3 DEF Completed, Transfer
      <3> HIDE DEF t
      <3> QED BY <3>1, <3>2
    <2>3. old.target = (IF row.status = "none" THEN p.target ELSE row.target) /\ old.status # "none"
      BY <1>3 DEF Transfer
    <2> HIDE DEF new, old, u, left
    <2>4. /\ u.transfers = [s.transfers EXCEPT ![i] = new]
          /\ u.pending = [s.pending EXCEPT ![i] = << >>]
          /\ u.stock = IF p.target = Home THEN FoldLeft(Moved, left, early) ELSE left
      BY <2>1 DEF StateSet
    <2> QED BY <1>1, <1>2, <2>2, <2>3, <2>4
  <1>5. left \in [Places -> Int] /\ \A l \in Places : left[l] = s.stock[l] + PlainAt(l)[e]
    <2>1. \A l \in Places : PlainAt(l)[e] = IF p.source = Home THEN Delta(p.move, l) ELSE 0
      BY DEF PlainAt, p
    <2>2. \A l \in Places : s.stock[l] + 0 = s.stock[l]
      BY <1>2
    <2> QED BY <1>1, <1>2, <2>1, <2>2, MovedTyped, MovedIs
  <1> HIDE DEF u, left
  <1>6. \A j \in Ids : \A d \in T : Sends(d, j) => d \in S \/ (j = i /\ d = e)
    BY DEF Sends, p
  <1>7. \A j \in Ids : /\ Sent(T, j) <=> Sent(S, j) \/ j = i
                       /\ j # i => (Landed(T, j) <=> Landed(S, j))
    BY <1>1, <1>6 DEF Sent, Landed
  <1>8. Landed(T, i) <=> p.target = Home
    <2>1. \A d \in T : Sends(d, i) => d.says.target = p.target
      BY <1>1 DEF OneTarget, Sends, p
    <2> QED BY <1>1, <2>1 DEF Landed, p
  <1>9. Sent(S, i) => (Landed(S, i) <=> p.target = Home)
    <2>1. \A d \in S : Sends(d, i) => d.says.target = p.target
      BY <1>1 DEF OneTarget, Sends, p
    <2> QED BY <2>1 DEF Landed, Sent
  <1>10. \A l \in Places : /\ Total(PlainAt(l), T) = Total(PlainAt(l), S) + PlainAt(l)[e]
                           /\ \A j \in Ids : Total(LandAt(j, l), T) = Total(LandAt(j, l), S)
                           /\ Total(PlainAt(l), S) \in Int /\ PlainAt(l)[e] \in Int
                           /\ \A j \in Ids : Total(LandAt(j, l), S) \in Int
    <2> TAKE l \in Places
    <2>1. \A j \in Ids : LandAt(j, l)[e] = 0
      BY DEF LandAt
    <2> QED BY <2>1, NoneLands
  <1>11. ASSUME NEW l \in Places PROVE u.stock[l] = Value(T, l)
    <2> DEFINE k == IF ~ Sent(S, i) /\ p.target = Home THEN Total(LandAt(i, l), S) ELSE 0
    <2>1. \A j \in Ids : j # i => Land(T, j, l) = Land(S, j, l)
      BY <1>7, <1>10 DEF Land
    <2>2. \A j \in Ids : Land(S, j, l) \in Int
      BY <1>10 DEF Land
    <2>3. ~ Sent(S, i) => ~ Landed(S, i)
      BY DEF Sent, Landed
    <2>4. Land(T, i, l) = Land(S, i, l) + k /\ k \in Int
      <3> DEFINE a == Total(LandAt(i, l), S)
      <3>1. a \in Int /\ Total(LandAt(i, l), T) = a
        BY <1>1, <1>10
      <3> HIDE DEF a
      <3>2. /\ Land(T, i, l) = IF p.target = Home THEN a ELSE 0
            /\ Land(S, i, l) = IF Landed(S, i) THEN a ELSE 0
            /\ k = IF ~ Sent(S, i) /\ p.target = Home THEN a ELSE 0
        BY <1>8, <3>1 DEF Land, a
      <3>3. /\ Landed(S, i) => Sent(S, i)
            /\ Sent(S, i) => (Landed(S, i) <=> p.target = Home)
        BY <1>9, <2>3
      <3> HIDE DEF k
      <3>4. a + 0 = a /\ 0 + a = a
        BY <3>1
      <3> QED BY <3>1, <3>2, <3>3, <3>4
    <2>5. u.stock[l] = left[l] + k
      <3>1. CASE Sent(S, i)
        <4>1. early = << >>
          BY <1>1, <3>1 DEF Matches, Sent
        <4>2. u.stock = left
          BY <1>4, <1>5, <4>1, FoldNone
        <4> QED BY <1>5, <3>1, <4>2
      <3>2. CASE ~ Sent(S, i)
        <4>1. FoldLeft(Moved, left, early)[l] = left[l] + Total(LandAt(i, l), S)
          BY <1>1, <1>5, <3>2 DEF Matches
        <4>2. left[l] \in Int
          BY <1>5
        <4> QED BY <1>4, <3>2, <4>1, <4>2
      <3> QED BY <3>1, <3>2
    <2>6. s.stock[l] = Value(S, l)
      BY DEF Matches
    <2> HIDE DEF k
    <2>7. Value(T, l) = Value(S, l) + PlainAt(l)[e] + k
      <3> DEFINE c == PlainAt(l)[e]
                 a == Total(PlainAt(l), S)
                 b == Total(PlainAt(l), T)
      <3>1. i \in Ids /\ c \in Int /\ a \in Int /\ b = a + c
        BY <1>1, <1>10
      <3> HIDE DEF c, T, i
      <3>2. \A j \in Ids : Land(S, j, l) \in Int /\ Land(T, j, l) \in Int
        <4> SUFFICES ASSUME NEW j \in Ids PROVE Land(S, j, l) \in Int /\ Land(T, j, l) \in Int
          OBVIOUS
        <4>1. Land(S, j, l) \in Int
          BY <2>2
        <4> QED BY <2>1, <2>2, <2>4, <4>1
      <3> HIDE DEF a, b
      <3>3. b \in Int
        BY <3>1
      <3>4. Value(T, l) = Value(S, l) + (b - a) + (Land(T, i, l) - Land(S, i, l))
        BY <2>1, <3>1, <3>2, <3>3, ValueChanges DEF a, b
      <3>5. Land(S, i, l) \in Int
        BY <2>2, <3>1
      <3>6. b - a = c /\ Land(T, i, l) - Land(S, i, l) = k
        BY <2>4, <3>1, <3>3, <3>5
      <3> QED BY <3>4, <3>6 DEF c
    <2> QED BY <1>5, <2>5, <2>6, <2>7
  <1>12. ASSUME NEW j \in Ids, NEW d \in T, Sends(d, j)
         PROVE  u.transfers[j].target = d.says.target /\ u.pending[j] = << >>
    <2>1. CASE j # i
      BY <1>4, <1>6, <1>12, <2>1 DEF Matches
    <2>2. CASE j = i
      <3>1. d.says.target = p.target
        BY <1>1, <1>12, <2>2 DEF OneTarget, Sends, p
      <3>2. row.status # "none" => row.target = p.target
        <4> SUFFICES ASSUME row.status # "none" PROVE row.target = p.target
          OBVIOUS
        <4>1. PICK f \in S : Sends(f, i)
          BY <1>1 DEF Matches, Sent
        <4>2. row.target = f.says.target
          BY <1>1, <4>1 DEF Matches
        <4> QED BY <1>1, <4>1, <4>2 DEF OneTarget, Sends, p
      <3> QED BY <1>4, <2>2, <3>1, <3>2
    <2> QED BY <2>1, <2>2
  <1>13. \A j \in Ids : u.transfers[j].status # "none" <=> Sent(T, j)
    BY <1>4, <1>7 DEF Matches
  <1>14. ASSUME NEW j \in Ids, ~ Sent(T, j), NEW st \in [Places -> Int], NEW l \in Places
         PROVE  FoldLeft(Moved, st, u.pending[j])[l] = st[l] + Total(LandAt(j, l), T)
    <2>1. j # i /\ ~ Sent(S, j)
      BY <1>7, <1>14
    <2> QED BY <1>4, <1>10, <1>14, <2>1 DEF Matches
  <1> HIDE DEF T
  <1>15. Matches(u, T)
    BY <1>11, <1>12, <1>13, <1>14 DEF Matches
  <1> QED BY <1>15 DEF T, u, p

LEMMA ArriveMatches ==
    ASSUME NEW s \in StateSet, NEW S \in SUBSET Event, IsFiniteSet(S), NEW e \in Event, e \notin S,
           OneTarget(S), Matches(s, S), e.says.kind = "arrived"
    PROVE  Matches(Arrived(s, e.says), S \cup {e})
  <1> DEFINE T == S \cup {e}
             p == e.says
             i == p.id
             row == s.transfers[i]
             u == Arrived(s, p)
  <1>1. p \in Payload /\ i \in Ids /\ p.move \in Move
    BY PayloadFields DEF Event, Moving
  <1>2. /\ s.transfers \in [Ids -> Transfer] /\ s.pending \in [Ids -> Seq(Move)]
        /\ s.stock \in [Places -> Int]
    BY DEF StateSet
  <1>3. \A j \in Ids : \A d \in T : Sends(d, j) => d \in S
    BY DEF Sends
  <1>4. \A j \in Ids : (Sent(T, j) <=> Sent(S, j)) /\ (Landed(T, j) <=> Landed(S, j))
    BY <1>3 DEF Sent, Landed
  <1>5. \A l \in Places :
           /\ Total(PlainAt(l), T) = Total(PlainAt(l), S) /\ Total(PlainAt(l), S) \in Int
           /\ \A j \in Ids : /\ Total(LandAt(j, l), S) \in Int
                             /\ Total(LandAt(j, l), T) = IF j = i THEN Total(LandAt(j, l), S) + Delta(p.move, l)
                                                         ELSE Total(LandAt(j, l), S)
    <2> TAKE l \in Places
    <2>1. PlainAt(l)[e] = 0 /\ \A j \in Ids : LandAt(j, l)[e] = IF j = i THEN Delta(p.move, l) ELSE 0
      BY DEF PlainAt, LandAt
    <2>2. /\ Total(PlainAt(l), T) = Total(PlainAt(l), S) + PlainAt(l)[e]
          /\ \A j \in Ids : Total(LandAt(j, l), T) = Total(LandAt(j, l), S) + LandAt(j, l)[e]
          /\ Total(PlainAt(l), S) \in Int
          /\ \A j \in Ids : Total(LandAt(j, l), S) \in Int
      BY OneMore
    <2>3. Total(PlainAt(l), T) = Total(PlainAt(l), S)
      <3> DEFINE a == Total(PlainAt(l), S)
      <3>1. a \in Int /\ Total(PlainAt(l), T) = a + 0
        BY <2>1, <2>2
      <3> HIDE DEF a
      <3>2. a + 0 = a
        BY <3>1
      <3> QED BY <3>1, <3>2 DEF a
    <2>4. ASSUME NEW j \in Ids
          PROVE  Total(LandAt(j, l), T) = IF j = i THEN Total(LandAt(j, l), S) + Delta(p.move, l)
                                          ELSE Total(LandAt(j, l), S)
      <3> DEFINE a == Total(LandAt(j, l), S)
                 c == LandAt(j, l)[e]
      <3>1. a \in Int /\ Total(LandAt(j, l), T) = a + c
        BY <2>2
      <3>2. c = IF j = i THEN Delta(p.move, l) ELSE 0
        BY <2>1
      <3> HIDE DEF a, c, T, i
      <3>3. a + 0 = a
        BY <3>1
      <3> QED BY <3>1, <3>2, <3>3 DEF a
    <2> QED BY <2>2, <2>3, <2>4
  <1>6. \A l \in Places : Delta(p.move, l) \in Int
    BY <1>1 DEF Delta, Move
  <1> HIDE DEF p, T
  <1>7. row.status # "none" <=> Sent(S, i)
    BY <1>1 DEF Matches
  <1>8. CASE row.status = "none"
    <2>1. /\ u.transfers = s.transfers /\ u.stock = s.stock
          /\ u.pending = [s.pending EXCEPT ![i] = Append(@, p.move)]
      BY <1>8 DEF Arrived, StateSet
    <2> HIDE DEF u
    <2>2. \A l \in Places : \A j \in Ids : Land(T, j, l) = Land(S, j, l) /\ Land(S, j, l) \in Int
      <3> SUFFICES ASSUME NEW l \in Places, NEW j \in Ids
                   PROVE  Land(T, j, l) = Land(S, j, l) /\ Land(S, j, l) \in Int
        OBVIOUS
      <3>1. Landed(T, j) <=> Landed(S, j)
        BY <1>4
      <3>2. Total(LandAt(j, l), S) \in Int
        BY <1>5
      <3>3. CASE j = i
        <4>1. ~ Landed(S, j)
          BY <1>7, <1>8, <3>3 DEF Sent, Landed
        <4> QED BY <3>1, <4>1 DEF Land
      <3>4. CASE j # i
        <4>1. Total(LandAt(j, l), T) = Total(LandAt(j, l), S)
          BY <1>5, <3>4
        <4> QED BY <3>1, <3>2, <4>1 DEF Land
      <3> QED BY <3>3, <3>4
    <2>3. \A l \in Places : Value(T, l) = Value(S, l)
      <3> TAKE l \in Places
      <3>1. Total(PlainAt(l), T) = Total(PlainAt(l), S)
        BY <1>5
      <3>2. Land(T, "x", l) = Land(S, "x", l) /\ Land(T, "y", l) = Land(S, "y", l)
        <4>1. "x" \in Ids /\ "y" \in Ids
          BY DEF Ids
        <4> QED BY <2>2, <4>1
      <3> QED BY <3>1, <3>2 DEF Value
    <2>4. ASSUME NEW j \in Ids, ~ Sent(T, j), NEW st \in [Places -> Int], NEW l \in Places
          PROVE  FoldLeft(Moved, st, u.pending[j])[l] = st[l] + Total(LandAt(j, l), T)
      <3> DEFINE q == s.pending[j]
                 a == FoldLeft(Moved, st, q)
      <3>1. q \in Seq(Move) /\ a \in [Places -> Int] /\ st[l] \in Int
        BY <1>2, AllMovedTyped
      <3>2. a[l] = st[l] + Total(LandAt(j, l), S)
        BY <1>4, <2>4 DEF Matches
      <3> HIDE DEF a
      <3>3. CASE j = i
        <4>1. u.pending[j] = Append(q, p.move)
          BY <1>1, <1>2, <2>1, <3>3
        <4>2. FoldLeft(Moved, st, u.pending[j]) = Moved(a, p.move)
          <5> DEFINE m == p.move
          <5>1. m \in Move /\ q \in Seq(Move)
            BY <1>1, <3>1
          <5> HIDE DEF m, q
          <5>2. FoldLeft(Moved, st, Append(q, m)) = Moved(FoldLeft(Moved, st, q), m)
            BY <5>1, FoldMoves
          <5> QED BY <4>1, <5>2 DEF a, m
        <4>3. Moved(a, p.move)[l] = a[l] + Delta(p.move, l)
          BY <1>1, <3>1, MovedIs
        <4> QED BY <1>5, <1>6, <3>1, <3>2, <3>3, <4>2, <4>3
      <3>4. CASE j # i
        <4>1. u.pending[j] = q
          BY <1>2, <2>1, <3>4
        <4> QED BY <1>5, <3>2, <3>4, <4>1 DEF a
      <3> QED BY <3>3, <3>4
    <2>5. ASSUME NEW j \in Ids, NEW d \in T, Sends(d, j)
          PROVE  u.transfers[j].target = d.says.target /\ u.pending[j] = << >>
      <3>1. d \in S /\ j # i
        BY <1>3, <1>7, <1>8, <2>5 DEF Sent
      <3> QED BY <1>2, <2>1, <2>5, <3>1 DEF Matches
    <2>6. \A l \in Places : u.stock[l] = Value(T, l)
      BY <2>1, <2>3 DEF Matches
    <2>7. \A j \in Ids : u.transfers[j].status # "none" <=> Sent(T, j)
      BY <1>4, <2>1 DEF Matches
    <2> HIDE DEF T
    <2>8. Matches(u, T)
      BY <2>4, <2>5, <2>6, <2>7 DEF Matches
    <2> QED BY <2>8 DEF T, u, p
  <1>9. CASE row.status # "none"
    <2> DEFINE new == Completed([row EXCEPT !.received = @ + p.move.qty])
    <2>1. /\ u.transfers = [s.transfers EXCEPT ![i] = new] /\ u.pending = s.pending
          /\ u.stock = IF row.target = Home THEN Moved(s.stock, p.move) ELSE s.stock
      BY <1>9 DEF Arrived, StateSet
    <2>2. row \in Transfer
      BY <1>1, <1>2
    <2>3. new.target = row.target /\ new.status # "none"
      BY <1>9, <2>2 DEF Completed, Transfer
    <2> HIDE DEF u, new
    <2>4. Landed(S, i) <=> row.target = Home
      <3>1. \A d \in S : Sends(d, i) => d.says.target = row.target
        BY <1>1 DEF Matches
      <3> QED BY <1>7, <1>9, <3>1 DEF Landed, Sent
    <2>5. ASSUME NEW l \in Places PROVE u.stock[l] = Value(T, l)
      <3> DEFINE k == IF row.target = Home THEN Delta(p.move, l) ELSE 0
      <3>1. \A j \in Ids : j # i => Land(T, j, l) = Land(S, j, l)
        BY <1>4, <1>5 DEF Land
      <3>2. \A j \in Ids : Land(S, j, l) \in Int
        BY <1>5 DEF Land
      <3>3. Land(T, i, l) = Land(S, i, l) + k /\ k \in Int
        BY <1>1, <1>4, <1>5, <1>6, <2>4 DEF Land
      <3> HIDE DEF k
      <3>4. Value(T, l) = Value(S, l) + 0 + k
        <4>1. 0 \in Int /\ Total(PlainAt(l), S) \in Int /\ Total(PlainAt(l), T) = Total(PlainAt(l), S) + 0
          BY <1>5
        <4> QED BY <1>1, <3>1, <3>2, <3>3, <4>1, ValueChanges
      <3>5. u.stock[l] = s.stock[l] + k /\ s.stock[l] \in Int
        BY <1>1, <1>2, <2>1, MovedIs DEF k
      <3>6. s.stock[l] = Value(S, l)
        BY DEF Matches
      <3> QED BY <3>3, <3>4, <3>5, <3>6
    <2>6. ASSUME NEW j \in Ids, NEW d \in T, Sends(d, j)
          PROVE  u.transfers[j].target = d.says.target /\ u.pending[j] = << >>
      <3>1. d \in S
        BY <1>3, <2>6
      <3>2. s.transfers[j].target = d.says.target /\ s.pending[j] = << >>
        BY <2>6, <3>1 DEF Matches
      <3>3. u.transfers[j].target = s.transfers[j].target
        BY <1>1, <1>2, <2>1, <2>3
      <3> QED BY <2>1, <3>2, <3>3
    <2>7. ASSUME NEW j \in Ids PROVE u.transfers[j].status # "none" <=> Sent(T, j)
      <3>1. u.transfers[j].status # "none" <=> s.transfers[j].status # "none"
        BY <1>1, <1>2, <1>9, <2>1, <2>3
      <3> QED BY <1>4, <3>1 DEF Matches
    <2>8. ASSUME NEW j \in Ids, ~ Sent(T, j), NEW st \in [Places -> Int], NEW l \in Places
          PROVE  FoldLeft(Moved, st, u.pending[j])[l] = st[l] + Total(LandAt(j, l), T)
      <3>1. ~ Sent(S, j) /\ j # i
        BY <1>4, <1>7, <1>9, <2>8
      <3> QED BY <1>5, <2>1, <3>1 DEF Matches
    <2> HIDE DEF T
    <2>9. Matches(u, T)
      BY <2>5, <2>6, <2>7, <2>8 DEF Matches
    <2> QED BY <2>9 DEF T, u, p
  <1> QED BY <1>8, <1>9
LEMMA ApplyMatches ==
    ASSUME NEW s \in StateSet, NEW S \in SUBSET Event, IsFiniteSet(S), NEW e \in Event, e \notin S,
           OneTarget(S \cup {e}), Matches(s, S)
    PROVE  Matches(Apply(s, e), S \cup {e})
  <1> DEFINE p == e.says
             t == Apply(s, e)
  <1>1. p \in Payload /\ p.kind \in Kinds
    BY PayloadFields DEF Event
  <1>2. s.stock \in [Places -> Int]
    BY DEF StateSet
  <1> HIDE DEF p
  <1>3. CASE p.kind = "dispatched"
    <2>1. t = Dispatched(s, p)
      BY <1>3 DEF Apply, p
    <2> QED BY <1>3, <2>1, DispatchMatches DEF p
  <1>4. CASE p.kind = "arrived"
    <2>1. t = Arrived(s, p)
      BY <1>4 DEF Apply, p
    <2>2. OneTarget(S)
      BY DEF OneTarget
    <2> QED BY <1>4, <2>1, <2>2, ArriveMatches DEF p
  <1>5. CASE p.kind \in {"received", "putaway", "picked", "adjusted"}
    <2>1. p.move \in Move
      BY <1>1, <1>5, PayloadFields DEF Moving
    <2>2. t = [s EXCEPT !.stock = Moved(s.stock, p.move)]
      BY <1>5 DEF Apply, p
    <2>3. t.transfers = s.transfers /\ t.pending = s.pending /\ t.stock = Moved(s.stock, p.move)
      BY <2>2 DEF StateSet
    <2>4. \A l \in Places : PlainAt(l)[e] = Delta(p.move, l)
      BY <1>5 DEF PlainAt, p
    <2> HIDE DEF t
    <2>5. \A l \in Places : t.stock[l] = s.stock[l] + PlainAt(l)[e]
      BY <1>2, <2>1, <2>3, <2>4, MovedIs
    <2>6. e.says.kind \notin {"dispatched", "arrived"}
      BY <1>5 DEF p
    <2> QED BY <2>3, <2>5, <2>6, PlainMatches DEF t
  <1>6. CASE p.kind \in {"item", "opened", "line", "closed", "released", "consumed", "countclosed",
                         "reserved", "started", "counted"}
    <2>1. t.transfers = s.transfers /\ t.pending = s.pending /\ t.stock = s.stock
      <3>1. CASE p.kind \in {"item", "opened", "line", "closed"}
        BY <3>1 DEF Apply, StateSet, p
      <3>2. CASE p.kind \in {"released", "consumed", "countclosed"}
        BY <3>2 DEF Apply, StateSet, p
      <3>3. CASE p.kind \in {"reserved", "started", "counted"}
        BY <3>3 DEF Apply, StateSet, p
      <3> QED BY <1>6, <3>1, <3>2, <3>3
    <2> HIDE DEF t
    <2>2. \A l \in Places : PlainAt(l)[e] = 0
      BY <1>6 DEF PlainAt, p
    <2>3. \A l \in Places : t.stock[l] = s.stock[l] + PlainAt(l)[e]
      <3> SUFFICES ASSUME NEW l \in Places PROVE t.stock[l] = s.stock[l] + PlainAt(l)[e]
        OBVIOUS
      <3> DEFINE a == s.stock[l]
      <3>1. a \in Int /\ t.stock[l] = a /\ PlainAt(l)[e] = 0
        BY <1>2, <2>1, <2>2
      <3> HIDE DEF a
      <3>2. a = a + 0
        BY <3>1
      <3> QED BY <3>1, <3>2 DEF a
    <2>4. e.says.kind \notin {"dispatched", "arrived"}
      BY <1>6 DEF p
    <2> QED BY <2>1, <2>3, <2>4, PlainMatches DEF t
  <1> QED BY <1>1, <1>3, <1>4, <1>5, <1>6 DEF Kinds

LEMMA NothingMatches == Matches(NewState, {})
  <1>1. \A i \in Ids : ~ Sent({}, i) /\ ~ Landed({}, i)
    BY DEF Sent, Landed
  <1>2. IsFiniteSet({}) /\ {} \in SUBSET Event
    BY FS_EmptySet
  <1>3. \A f : Total(f, {}) = 0
    BY <1>2, TotalZero
  <1>4. \A i \in Ids : NewState.transfers[i].status = "none" /\ NewState.pending[i] = << >>
    BY DEF NewState, NoTransfer
  <1>5. \A l \in Places : NewState.stock[l] = 0
    BY DEF NewState, NoStock
  <1>6. \A l \in Places : Value({}, l) = 0
    <2> TAKE l \in Places
    <2>1. Land({}, "x", l) = 0 /\ Land({}, "y", l) = 0
      BY <1>1, <1>3 DEF Land, Ids
    <2>2. Total(PlainAt(l), {}) = 0
      BY <1>3
    <2> QED BY <2>1, <2>2 DEF Value
  <1>7. ASSUME NEW i \in Ids, NEW st \in [Places -> Int], NEW l \in Places
        PROVE  FoldLeft(Moved, st, NewState.pending[i])[l] = st[l] + Total(LandAt(i, l), {})
    <2>1. FoldLeft(Moved, st, NewState.pending[i]) = st
      BY <1>4, FoldNone
    <2>2. Total(LandAt(i, l), {}) = 0 /\ st[l] \in Int
      BY <1>3
    <2>3. st[l] = st[l] + 0
      BY <2>2
    <2> QED BY <2>1, <2>2, <2>3
  <1> QED BY <1>1, <1>4, <1>5, <1>6, <1>7 DEF Matches

\* The stock of a replay does not depend on its order.
LEMMA StateValue ==
    ASSUME NEW S \in SUBSET Event, IsFiniteSet(S), Distinct(S), OneTarget(S), NEW l \in Places
    PROVE  State(S).stock[l] = Value(S, l)
  <1> DEFINE n == Cardinality(S)
             q == InOrder(S)
  <1>1. /\ n \in Nat /\ q \in [1..n -> S]
        /\ \A e \in S : \E i \in 1..n : q[i] = e
        /\ \A i, j \in 1..n : q[i] = q[j] => i = j
    BY InOrderIs, FS_CardinalityType DEF Enumerates
  <1>2. State(S) = FoldLeft(Apply, NewState, q)
    BY DEF State
  <1> HIDE DEF n, q
  <1>3. \A v \in StateSet, i \in 1..n : Apply(v, q[i]) \in StateSet
    BY <1>1, ApplyTyped
  <1>4. PICK r \in [0..n -> StateSet] : ApplyRun(r, NewState, q, n)
    <2>1. DOMAIN q = 1..n
      BY <1>1
    <2> QED BY <1>1, <1>3, <2>1, NewStateTyped, ApplyRuns
  <1> DEFINE Done(k) == {q[i] : i \in 1..k}
             P == {k \in Nat : k <= n => Matches(r[k], Done(k))}
  <1>5. 0 \in P
    <2>1. Done(0) = {} /\ r[0] = NewState
      <3>1. 1..0 = {}
        OBVIOUS
      <3> QED BY <1>4, <3>1 DEF ApplyRun
    <2> HIDE DEF Done
    <2> QED BY <2>1, NothingMatches
  <1>6. ASSUME NEW k \in Nat, k \in P PROVE k + 1 \in P
    <2> SUFFICES ASSUME k + 1 <= n PROVE Matches(r[k + 1], Done(k + 1))
      OBVIOUS
    <2>1. k + 1 \in 1..n /\ (k + 1) - 1 = k /\ k \in 0..n /\ k <= n
      BY <1>1
    <2>2. 1..(k + 1) = (1..k) \cup {k + 1} /\ \A i \in 1..k : i \in 1..n /\ i # k + 1
      BY <1>1, <2>1
    <2> DEFINE e == q[k + 1]
    <2>3. Done(k + 1) = Done(k) \cup {e} /\ e \in S /\ e \notin Done(k)
      BY <1>1, <2>1, <2>2
    <2>4. Done(k) \in SUBSET S
      BY <1>1, <2>2
    <2>5. r[k] \in StateSet /\ r[k + 1] = Apply(r[k], e)
      BY <1>4, <2>1 DEF ApplyRun
    <2>6. Matches(r[k], Done(k))
      BY <1>6, <2>1
    <2> DEFINE D == Done(k)
    <2>7. D \in SUBSET S /\ Matches(r[k], D) /\ e \notin D /\ Done(k + 1) = D \cup {e}
      BY <2>3, <2>4, <2>6
    <2> HIDE DEF D, e, Done, P
    <2>8. D \in SUBSET Event /\ IsFiniteSet(D) /\ e \in Event
      BY <2>3, <2>7, FS_Subset
    <2>9. OneTarget(D \cup {e})
      BY <2>3, <2>7 DEF OneTarget
    <2> QED BY <2>5, <2>7, <2>8, <2>9, ApplyMatches
  <1>7. P = Nat
    <2>1. P \in SUBSET Nat /\ \A k \in P : k \in Nat
      OBVIOUS
    <2> HIDE DEF P
    <2> QED BY <1>5, <1>6, <2>1, AllNumbers
  <1> HIDE DEF P, Done
  <1>8. Matches(r[n], Done(n))
    <2>1. n \in P /\ n <= n
      BY <1>1, <1>7
    <2> QED BY <2>1 DEF P
  <1>9. Done(n) = S /\ State(S) = r[n]
    <2>1. Done(n) = S
      BY <1>1 DEF Done
    <2> QED BY <1>2, <1>4, <2>1 DEF ApplyRun
  <1> QED BY <1>8, <1>9 DEF Matches

-----------------------------------------------------------------------------
(* More events can only take a place below zero by what they are known to take *)

Compensating == {e \in Event : e.cause > 0}
Harmless(e) == e.cause > 0 \/ \A l \in Places : PlainAt(l)[e] >= 0
FromOutside(S) == \A e \in S : e.says.kind = "arrived" => e.says.move.from = External

\* What is at a place, with what central took back and what the events of X took.
Backed(S, X, l) == Value(S, l) + Total(Debit(Compensating, l), S) + Total(Debit(X, l), S)

LEMMA SumsTyped ==
    ASSUME NEW S \in SUBSET Event, IsFiniteSet(S), NEW l \in Places
    PROVE  /\ Total(PlainAt(l), S) \in Int
           /\ \A i \in Ids : Total(LandAt(i, l), S) \in Int /\ Land(S, i, l) \in Int
           /\ Value(S, l) \in Int
           /\ \A X : Total(Debit(X, l), S) \in Int /\ Total(Debit(X, l), S) >= 0
  <1>1. \A e \in S : e \in Event
    OBVIOUS
  <1>2. Total(PlainAt(l), S) \in Int
    <2>1. \A e \in S : PlainAt(l)[e] \in Int
      BY <1>1, FlowsTyped
    <2> QED BY <2>1, TotalLaw
  <1>3. ASSUME NEW i \in Ids PROVE Total(LandAt(i, l), S) \in Int /\ Land(S, i, l) \in Int
    <2>1. \A e \in S : LandAt(i, l)[e] \in Int
      BY <1>1, FlowsTyped
    <2>2. Total(LandAt(i, l), S) \in Int
      BY <2>1, TotalLaw
    <2> QED BY <2>2 DEF Land
  <1>4. ASSUME NEW X PROVE Total(Debit(X, l), S) \in Int /\ Total(Debit(X, l), S) >= 0
    <2>1. \A e \in S : Debit(X, l)[e] \in Nat
      BY <1>1, FlowsTyped
    <2>2. \A e \in S : Debit(X, l)[e] \in Int /\ Debit(X, l)[e] >= 0
      BY <2>1
    <2> QED BY <2>2, TotalLaw, TotalSign
  <1>5. Land(S, "x", l) \in Int /\ Land(S, "y", l) \in Int
    BY <1>3 DEF Ids
  <1>6. Value(S, l) \in Int
    BY <1>2, <1>5 DEF Value
  <1> QED BY <1>2, <1>3, <1>4, <1>6

\* What arrives is never taken from here.
LEMMA LandGrows ==
    ASSUME NEW T \in SUBSET Event, IsFiniteSet(T), FromOutside(T), NEW S \in SUBSET T,
           NEW i \in Ids, NEW l \in Places
    PROVE  Land(S, i, l) <= Land(T, i, l)
  <1> DEFINE f == LandAt(i, l)
             U == T \ S
  <1>1. /\ S \in SUBSET Event /\ U \in SUBSET Event /\ IsFiniteSet(S) /\ IsFiniteSet(U)
        /\ S \cup U = T /\ S \cap U = {}
    BY FS_Subset
  <1>2. \A e \in T : f[e] \in Int /\ f[e] >= 0
    <2> TAKE e \in T
    <2>1. e.says.kind = "arrived" => e.says.move.from = External /\ e.says.move \in Move
      BY PayloadFields DEF FromOutside, Event, Moving
    <2>2. External # l
      BY DEF External, Places
    <2> QED BY <2>1, <2>2 DEF LandAt, Delta, Move
  <1> HIDE DEF f, U
  <1>3. Total(f, T) = Total(f, S) + Total(f, U)
    BY <1>1, <1>2, TotalUnion
  <1>4. Total(f, U) >= 0 /\ Total(f, S) >= 0
    <2>1. \A e \in U : f[e] \in Int /\ f[e] >= 0
      BY <1>1, <1>2
    <2>2. \A e \in S : f[e] \in Int /\ f[e] >= 0
      BY <1>2
    <2> QED BY <1>1, <2>1, <2>2, TotalSign
  <1>5. Total(f, U) \in Int /\ Total(f, S) \in Int
    BY <1>1, SumsTyped DEF f
  <1>6. Landed(S, i) => Landed(T, i)
    BY DEF Landed
  <1>7. Land(S, i, l) = (IF Landed(S, i) THEN Total(f, S) ELSE 0)
        /\ Land(T, i, l) = (IF Landed(T, i) THEN Total(f, T) ELSE 0)
    BY DEF Land, f
  <1> QED BY <1>3, <1>4, <1>5, <1>6, <1>7

LEMMA Grow ==
    ASSUME NEW T \in SUBSET Event, IsFiniteSet(T), FromOutside(T), NEW S \in SUBSET T, NEW X,
           NEW l \in Places,
           \A e \in T \ S : e.cause > 0 \/ e \in X \/ PlainAt(l)[e] >= 0
    PROVE  Backed(S, X, l) <= Backed(T, X, l)
  <1> DEFINE U == T \ S
             f == PlainAt(l)
             g == Debit(Compensating, l)
             h == Debit(X, l)
             fg == [e \in U |-> f[e] + g[e]]
             fgh == [e \in U |-> fg[e] + h[e]]
  <1>1. /\ S \in SUBSET Event /\ U \in SUBSET Event /\ IsFiniteSet(S) /\ IsFiniteSet(U)
        /\ S \cup U = T /\ S \cap U = {}
    BY FS_Subset
  <1>2. \A e \in T : f[e] \in Int /\ g[e] \in Int /\ h[e] \in Int
    BY FlowsTyped
  <1>3. \A e \in U : f[e] + g[e] + h[e] >= 0
    <2> TAKE e \in U
    <2> DEFINE p == e.says
               q == IF p.kind \in Moving /\ p.move.from = l THEN p.move.qty ELSE 0
    <2>1. e \in Event /\ p \in Payload
      BY DEF Event
    <2>2. p.kind \in Moving => p.move \in Move
      BY <2>1, PayloadFields
    <2>3. q \in Nat /\ f[e] >= -q
      BY <2>1, <2>2 DEF PlainAt, Delta, Move, Moving
    <2>4. (e.cause > 0 => g[e] = q) /\ (e \in X => h[e] = q)
      BY <2>1 DEF Debit, Compensating
    <2>5. f[e] \in Int /\ g[e] \in Nat /\ h[e] \in Nat
      BY <2>1, FlowsTyped
    <2> HIDE DEF q, f, g, h
    <2>6. e.cause > 0 \/ e \in X \/ f[e] >= 0
      BY DEF f
    <2> QED BY <2>3, <2>4, <2>5, <2>6
  <1> HIDE DEF f, g, h, U
  <1>4. /\ Total(f, T) = Total(f, S) + Total(f, U)
        /\ Total(g, T) = Total(g, S) + Total(g, U)
        /\ Total(h, T) = Total(h, S) + Total(h, U)
    BY <1>1, <1>2, TotalUnion
  <1>5. \A e \in U : f[e] \in Int /\ g[e] \in Int /\ h[e] \in Int
    BY <1>1, <1>2
  <1>6. Total(f, U) + Total(g, U) + Total(h, U) >= 0
    <2>1. \A e \in U : fg[e] = f[e] + g[e] /\ fg[e] \in Int
      BY <1>5
    <2>2. \A e \in U : fgh[e] = fg[e] + h[e] /\ fgh[e] \in Int /\ fgh[e] >= 0
      BY <1>3, <1>5
    <2> HIDE DEF fg, fgh
    <2>3. Total(fg, U) = Total(f, U) + Total(g, U)
      BY <1>1, <1>5, <2>1, TotalAdds
    <2>4. Total(fgh, U) = Total(fg, U) + Total(h, U)
      BY <1>1, <1>5, <2>1, <2>2, TotalAdds
    <2>5. Total(fgh, U) >= 0
      BY <1>1, <2>2, TotalSign
    <2> QED BY <2>3, <2>4, <2>5
  <1>7. /\ Total(f, S) \in Int /\ Total(g, S) \in Int /\ Total(h, S) \in Int
        /\ Total(f, U) \in Int /\ Total(g, U) \in Int /\ Total(h, U) \in Int
        /\ Land(S, "x", l) \in Int /\ Land(S, "y", l) \in Int
        /\ Land(T, "x", l) \in Int /\ Land(T, "y", l) \in Int
    BY <1>1, SumsTyped DEF f, g, h, Ids
  <1>8. Land(S, "x", l) <= Land(T, "x", l) /\ Land(S, "y", l) <= Land(T, "y", l)
    BY LandGrows DEF Ids
  <1>9. /\ Backed(S, X, l) = Total(f, S) + Land(S, "x", l) + Land(S, "y", l) + Total(g, S) + Total(h, S)
        /\ Backed(T, X, l) = Total(f, T) + Land(T, "x", l) + Land(T, "y", l) + Total(g, T) + Total(h, T)
    BY DEF Backed, Value, f, g, h
  <1> DEFINE fs == Total(f, S)
             gs == Total(g, S)
             hs == Total(h, S)
             fu == Total(f, U)
             gu == Total(g, U)
             hu == Total(h, U)
  <1>10. /\ fs \in Int /\ gs \in Int /\ hs \in Int /\ fu \in Int /\ gu \in Int /\ hu \in Int
         /\ fu + gu + hu >= 0
         /\ Total(f, T) = fs + fu /\ Total(g, T) = gs + gu /\ Total(h, T) = hs + hu
    BY <1>4, <1>6, <1>7
  <1> HIDE DEF fs, gs, hs, fu, gu, hu
  <1>11. /\ Backed(S, X, l) = fs + Land(S, "x", l) + Land(S, "y", l) + gs + hs
         /\ Backed(T, X, l) = (fs + fu) + Land(T, "x", l) + Land(T, "y", l) + (gs + gu) + (hs + hu)
    BY <1>9, <1>10 DEF fs, gs, hs
  <1> QED BY <1>7, <1>8, <1>10, <1>11

-----------------------------------------------------------------------------
(* A command takes no more than its state has *)

\* A payload that takes nothing, and the one a command may take stock with.
Gentle == {p \in Payload : p.kind # "dispatched" /\ (p.kind \in Moving => p.move.from = External)}
Affordable(s, c) ==
    {p \in Payload :
        /\ p.kind \in Moving \ {"arrived"} /\ p.move.from \in Places
        /\ p.move.qty <= s.stock[p.move.from]
        /\ p.kind = "dispatched" => c.op = "dispatch" /\ p.id = c.id /\ p.target = Other}
Careful(s, c, q) ==
    \A i \in DOMAIN q : q[i] \in Gentle \/ (i = 1 /\ q[i] \in Affordable(s, c))

LEMMA CarefulShapes ==
    ASSUME NEW s, NEW c
    PROVE  /\ \A q \in Seq(Gentle) : Careful(s, c, q)
           /\ \A p \in Gentle \cup Affordable(s, c) :
                 /\ Careful(s, c, << p >>)
                 /\ \A d \in Gentle : Careful(s, c, Append(<< p >>, d))
  <1>1. ASSUME NEW q \in Seq(Gentle) PROVE Careful(s, c, q)
    <2>1. DOMAIN q = 1..Len(q) /\ \A i \in 1..Len(q) : q[i] \in Gentle
      BY LenProperties
    <2> QED BY <2>1 DEF Careful
  <1> DEFINE A == Affordable(s, c)
  <1>2. ASSUME NEW p \in Gentle \cup A, NEW d \in Gentle
        PROVE  Careful(s, c, << p >>) /\ Careful(s, c, Append(<< p >>, d))
    <2> HIDE DEF A
    <2>1. DOMAIN << p >> = 1..1 /\ << p >>[1] = p
      OBVIOUS
    <2> DEFINE w == Append(<< p >>, d)
    <2>2. DOMAIN w = 1..2 /\ w[1] = p /\ w[2] = d
      OBVIOUS
    <2> HIDE DEF w
    <2>3. \A i \in 1..1 : i = 1
      OBVIOUS
    <2>4. \A i \in 1..2 : i = 1 \/ i = 2
      OBVIOUS
    <2> QED BY <2>1, <2>2, <2>3, <2>4 DEF Careful, A, w
  <1>3. ASSUME NEW p \in Gentle \cup A PROVE Careful(s, c, << p >>)
    <2> HIDE DEF A
    <2>1. DOMAIN << p >> = 1..1 /\ << p >>[1] = p
      OBVIOUS
    <2>2. \A i \in 1..1 : i = 1
      OBVIOUS
    <2> QED BY <2>1, <2>2 DEF Careful, A
  <1> QED BY <1>1, <1>2, <1>3

LEMMA DoCareful ==
    ASSUME NEW s \in StateSet, NEW c \in Command PROVE Careful(s, c, Do(s, c))
  <1>0. <<>> \in Seq(Gentle) /\ Careful(s, c, <<>>)
    <2>1. <<>> \in Seq(Gentle)
      OBVIOUS
    <2> QED BY <2>1, CarefulShapes
  <1>a. s.counts \in [Ids -> Count] /\ s.stock \in [Places -> Int]
    BY DEF StateSet
  <1>b. \A l \in Places : l # External
    BY DEF Places, External
  <1>1. CASE c.op = "receive"
    <2> DEFINE a == [kind |-> "opened", id |-> c.id]
               b == [kind |-> "line", id |-> c.id]
               d == [kind |-> "received", id |-> c.id, move |-> Into(c.at, c.qty)]
    <2>1. c.id \in Ids /\ c.at \in Places /\ c.qty \in Nat
      BY <1>1 DEF Command
    <2>2. Into(c.at, c.qty) \in Move /\ Into(c.at, c.qty).from = External
      BY <2>1 DEF Into, Move
    <2>3. a \in Payload /\ b \in Payload /\ d \in Payload
      BY <2>1, <2>2 DEF Payload
    <2>4. a \in Gentle /\ b \in Gentle /\ d \in Gentle
      BY <2>2, <2>3 DEF Gentle, Moving
    <2>5. Do(s, c) = IF ~ s.listed \/ s.receipts[c.id] = "closed" THEN <<>>
                     ELSE (IF s.receipts[c.id] = "none" THEN <<a>> ELSE <<>>) \o <<b, d>>
      BY <1>1 DEF Do, DoReceive, Refused
    <2> HIDE DEF a, b, d
    <2>6. <<a>> \in Seq(Gentle) /\ <<b, d>> \in Seq(Gentle)
      BY <2>4
    <2>7. <<a>> \o <<b, d>> \in Seq(Gentle) /\ <<>> \o <<b, d>> \in Seq(Gentle)
      BY <1>0, <2>6
    <2>8. Do(s, c) \in Seq(Gentle)
      BY <1>0, <2>5, <2>7
    <2> QED BY <2>8, CarefulShapes
  <1>2. CASE c.op = "closecount"
    <2> DEFINE count == s.counts[c.id]
               have == s.stock[count.at]
               diff == count.qty - have
               m == IF diff > 0 THEN Into(count.at, diff) ELSE Out(count.at, -diff)
               v == [kind |-> "adjusted", move |-> m, failed |-> "none"]
               d == [kind |-> "countclosed", id |-> c.id]
               booked == IF count.qty < 0 \/ diff = 0 THEN <<>> ELSE Variance(count.at, diff)
    <2>1. c.id \in Ids
      BY <1>2 DEF Command
    <2>2. count \in Count
      BY <1>a, <2>1
    <2>3. count.at \in Places /\ have \in Int /\ count.qty \in Int /\ diff \in Int
      BY <1>a, <2>2 DEF Count
    <2>4. /\ m \in Move
          /\ m.from = External \/ (m.from = count.at /\ m.qty = have - count.qty)
      <3>1. diff > 0 => diff \in Nat
        BY <2>3
      <3>2. ~ (diff > 0) => -diff \in Nat /\ -diff = have - count.qty
        BY <2>3
      <3> HIDE DEF diff, count, have
      <3> QED BY <2>3, <3>1, <3>2 DEF Into, Out, Move
    <2>5. v \in Payload /\ d \in Payload
      <3> HIDE DEF m
      <3> QED BY <2>1, <2>4 DEF Payload
    <2>6. Do(s, c) = IF count.status # "open" THEN <<>> ELSE Append(booked, d)
      BY <1>2 DEF Do, DoCloseCount, Refused
    <2>7. booked = IF count.qty < 0 \/ diff = 0 THEN <<>> ELSE <<v>>
      BY DEF Variance, Adjustment
    <2>8. d \in Gentle
      BY <2>5 DEF Gentle, Moving
    <2>9. ~ (count.qty < 0) => v \in Gentle \cup Affordable(s, c)
      <3> SUFFICES ASSUME ~ (count.qty < 0) PROVE v \in Gentle \cup Affordable(s, c)
        OBVIOUS
      <3>1. v.kind = "adjusted" /\ v.move = m
        OBVIOUS
      <3> HIDE DEF v, m
      <3>2. CASE m.from = External
        BY <2>5, <3>1, <3>2 DEF Gentle
      <3>3. CASE m.from = count.at /\ m.qty = have - count.qty
        <4>1. m.qty <= s.stock[m.from]
          <5>1. have - count.qty <= have
            BY <2>3
          <5> QED BY <3>3, <5>1
        <4> QED BY <2>3, <2>5, <3>1, <3>3, <4>1 DEF Affordable, Moving
      <3> QED BY <2>4, <3>2, <3>3
    <2> HIDE DEF v, d, booked, diff, count
    <2>10. Careful(s, c, Append(<<>>, d))
      <3>1. Append(<<>>, d) \in Seq(Gentle)
        BY <2>8
      <3> QED BY <3>1, CarefulShapes
    <2>11. ~ (count.qty < 0) => Careful(s, c, Append(<<v>>, d))
      BY <2>8, <2>9, CarefulShapes
    <2> QED BY <1>0, <2>6, <2>7, <2>10, <2>11
  <1>3. CASE c.op \in {"close", "release", "consume"}
    <2>1. c.id \in Ids
      BY <1>3 DEF Command
    <2>2. \E k \in {"closed", "released", "consumed"} :
             Do(s, c) \in {<<>>, <<[kind |-> k, id |-> c.id]>>}
      BY <1>3 DEF Do, DoCloseReceipt, DoEndHold, Refused
    <2>3. PICK k \in {"closed", "released", "consumed"} :
             Do(s, c) \in {<<>>, <<[kind |-> k, id |-> c.id]>>}
      BY <2>2
    <2> DEFINE d == [kind |-> k, id |-> c.id]
    <2>4. d \in Payload
      BY <2>1 DEF Payload
    <2>5. d \in Gentle
      BY <2>4 DEF Gentle, Moving
    <2> HIDE DEF d
    <2>6. Careful(s, c, <<d>>)
      BY <2>5, CarefulShapes
    <2> QED BY <1>0, <2>3, <2>6 DEF d
  <1>4. CASE c.op \in {"putaway", "pick"}
    <2> DEFINE m == IF c.op = "pick" THEN Out(c.at, c.qty)
                    ELSE [from |-> c.at, to |-> c.to, qty |-> c.qty]
               k == IF c.op = "pick" THEN "picked" ELSE "putaway"
               d == [kind |-> k, move |-> m]
    <2>1. c.at \in Places /\ c.qty \in Nat /\ (c.op = "putaway" => c.to \in Places)
      BY <1>4 DEF Command
    <2>2. m \in Move /\ m.from = c.at /\ m.qty = c.qty
      BY <1>4, <2>1 DEF Out, Move
    <2>3. Do(s, c) = <<>> \/ (Do(s, c) = <<d>> /\ OnHand(s, c.at, c.qty))
      BY <1>4 DEF Do, DoPutAway, DoPick, Refused
    <2> HIDE DEF m
    <2>4. d \in Payload
      BY <2>2 DEF Payload
    <2>5. OnHand(s, c.at, c.qty) => d \in Affordable(s, c)
      <3>1. OnHand(s, c.at, c.qty) => c.qty <= s.stock[c.at]
        BY <1>a, <2>1 DEF OnHand
      <3> QED BY <2>1, <2>2, <2>4, <3>1 DEF Affordable, Moving
    <2> HIDE DEF d
    <2>6. OnHand(s, c.at, c.qty) => Careful(s, c, <<d>>)
      BY <2>5, CarefulShapes
    <2> QED BY <1>0, <2>3, <2>6
  <1>5. CASE c.op = "reserve"
    <2> DEFINE d == [kind |-> "reserved", id |-> c.id, at |-> c.at, qty |-> c.qty]
    <2>1. c.id \in Ids /\ c.at \in Places /\ c.qty \in Nat
      BY <1>5 DEF Command
    <2>2. d \in Payload
      BY <2>1 DEF Payload
    <2>3. d \in Gentle
      BY <2>2 DEF Gentle, Moving
    <2>4. Do(s, c) \in {<<>>, <<d>>}
      BY <1>5 DEF Do, DoReserve, Refused
    <2> HIDE DEF d
    <2>5. Careful(s, c, <<d>>)
      BY <2>3, CarefulShapes
    <2> QED BY <1>0, <2>4, <2>5
  <1>6. CASE c.op = "dispatch"
    <2> DEFINE d == [kind |-> "dispatched", id |-> c.id, move |-> Out(c.at, c.qty),
                     source |-> Home, target |-> Other]
    <2>1. c.id \in Ids /\ c.at \in Places /\ c.qty \in Nat
      BY <1>6 DEF Command
    <2>2. Out(c.at, c.qty) \in Move /\ Home \in Authors /\ Other \in Authors
      BY <2>1 DEF Out, Move, Authors
    <2>3. d \in Payload
      BY <2>1, <2>2 DEF Payload
    <2>4. Do(s, c) = <<>> \/ (Do(s, c) = <<d>> /\ OnHand(s, c.at, c.qty))
      BY <1>6 DEF Do, DoDispatchTransfer, Refused
    <2>5. OnHand(s, c.at, c.qty) => d \in Affordable(s, c)
      <3>1. OnHand(s, c.at, c.qty) => c.qty <= s.stock[c.at]
        BY <1>a, <2>1 DEF OnHand
      <3>2. d.move.from = c.at /\ d.move.qty = c.qty
        BY DEF Out
      <3> QED BY <1>6, <2>1, <2>3, <3>1, <3>2 DEF Affordable, Moving
    <2> HIDE DEF d
    <2>6. OnHand(s, c.at, c.qty) => Careful(s, c, <<d>>)
      BY <2>5, CarefulShapes
    <2> QED BY <1>0, <2>4, <2>6
  <1>7. CASE c.op = "arrive"
    <2> DEFINE d == [kind |-> "arrived", id |-> c.id, move |-> Into(c.at, c.qty)]
    <2>1. c.id \in Ids /\ c.at \in Places /\ c.qty \in Nat
      BY <1>7 DEF Command
    <2>2. Into(c.at, c.qty) \in Move /\ Into(c.at, c.qty).from = External
      BY <2>1 DEF Into, Move
    <2>3. d \in Payload
      BY <2>1, <2>2 DEF Payload
    <2>4. d \in Gentle
      BY <2>2, <2>3 DEF Gentle
    <2>5. Do(s, c) \in {<<>>, <<d>>}
      BY <1>7 DEF Do, DoReceiveTransfer, Refused
    <2> HIDE DEF d
    <2>6. Careful(s, c, <<d>>)
      BY <2>4, CarefulShapes
    <2> QED BY <1>0, <2>5, <2>6
  <1>8. CASE c.op = "startcount"
    <2> DEFINE d == [kind |-> "started", id |-> c.id, at |-> c.at]
    <2>1. c.id \in Ids /\ c.at \in Places
      BY <1>8 DEF Command
    <2>2. d \in Payload
      BY <2>1 DEF Payload
    <2>3. d \in Gentle
      BY <2>2 DEF Gentle, Moving
    <2>4. Do(s, c) \in {<<>>, <<d>>}
      BY <1>8 DEF Do, DoStartCount, Refused
    <2> HIDE DEF d
    <2>5. Careful(s, c, <<d>>)
      BY <2>3, CarefulShapes
    <2> QED BY <1>0, <2>4, <2>5
  <1>9. CASE c.op = "count"
    <2> DEFINE d == [kind |-> "counted", id |-> c.id, qty |-> c.qty]
    <2>1. c.id \in Ids /\ c.qty \in Nat
      BY <1>9 DEF Command
    <2>2. d \in Payload
      BY <2>1 DEF Payload
    <2>3. d \in Gentle
      BY <2>2 DEF Gentle, Moving
    <2>4. Do(s, c) \in {<<>>, <<d>>}
      BY <1>9 DEF Do, DoCountLine, Refused
    <2> HIDE DEF d
    <2>5. Careful(s, c, <<d>>)
      BY <2>3, CarefulShapes
    <2> QED BY <1>0, <2>4, <2>5
  <1>10. c.op \in Operations
    BY DEF Command, Operations
  <1> QED BY <1>1, <1>2, <1>3, <1>4, <1>5, <1>6, <1>7, <1>8, <1>9, <1>10 DEF Operations

-----------------------------------------------------------------------------
(* What holds of the events, and of what the log has that the state in memory has not *)

\* A transfer goes to one place, whoever tells of it.
Directed ==
    \E target \in [Ids -> Authors] :
       /\ \A q \in plan.foreign : q.kind = "dispatched" => q.target = target[q.id]
       /\ \A c \in plan.commands : c.op = "dispatch" => target[c.id] = Other
       /\ \A e \in log \cup Range(queue) :
             e.says.kind = "dispatched" => e.says.target = target[e.says.id]

\* What comes from elsewhere takes nothing, or takes it back.
Foreign ==
    /\ FromOutside(log \cup Range(queue))
    /\ \A e \in Range(queue) : Harmless(e)

\* What commands are not checked against takes nothing, or was recorded and reported failed.
Missed(e) == Harmless(e) \/ e \in lost \cup call.events
Known ==
    /\ pc # "apply" => call.events = {}
    /\ pc \in {"up", "apply"} => \A e \in log \ memory : Missed(e)

AllBacked == \A l \in Places : Backed(log, lost, l) >= 0

StockInv == Directed /\ Foreign /\ Known /\ AllBacked

LEMMA StockInvInit == ASSUME Init PROVE StockInv
  <1>1. /\ plan \in Plans /\ log = Range(plan.history) /\ Range(queue) = {}
        /\ lost = {} /\ call.events = {} /\ pc = "down"
    BY DEF Init, Idle, Range
  <1>2. EventsTyped
    BY TypedInit DEF Typed
  <1>3. log \in SUBSET Event /\ IsFiniteSet(log) /\ Distinct(log)
    BY <1>2 DEF EventsTyped, Distinct
  <1>4. PICK target \in [Ids -> Authors] :
           /\ \A e \in Range(plan.history) :
                 e.says.kind = "dispatched" => e.says.target = target[e.says.id]
           /\ \A q \in plan.foreign :
                 q.kind = "dispatched" => q.target = target[q.id] /\ q.source # Home
           /\ \A c \in plan.commands : c.op = "dispatch" => target[c.id] = Other
    BY <1>1, TradingAssumption
  <1>5. Directed
    BY <1>1, <1>4 DEF Directed
  <1>6. Foreign
    <2>1. \A q \in {e.says : e \in Range(plan.history)} : q.kind = "arrived" => q.move.from = External
      BY <1>1, TradingAssumption
    <2>2. FromOutside(log \cup Range(queue))
      BY <1>1, <2>1 DEF FromOutside
    <2> QED BY <1>1, <2>2 DEF Foreign
  <1>7. Known
    BY <1>1 DEF Known
  <1>8. OneTarget(log)
    BY <1>1, <1>4 DEF OneTarget, Sends
  <1>9. ASSUME NEW l \in Places PROVE Backed(log, lost, l) >= 0
    <2>1. State(log).stock[l] >= 0
      BY <1>1, TradingAssumption
    <2>2. State(log).stock[l] = Value(log, l)
      BY <1>3, <1>8, StateValue
    <2>3. /\ Value(log, l) \in Int
          /\ Total(Debit(Compensating, l), log) \in Int /\ Total(Debit(Compensating, l), log) >= 0
          /\ Total(Debit(lost, l), log) \in Int /\ Total(Debit(lost, l), log) >= 0
      BY <1>3, SumsTyped
    <2> QED BY <2>1, <2>2, <2>3 DEF Backed
  <1> QED BY <1>5, <1>6, <1>7, <1>9 DEF StockInv, AllBacked

\* The invariant is what the property needs.
LEMMA StockInvIs == ASSUME Typed, StockInv PROVE NeverOverdrawn
  <1>1. log \in SUBSET Event /\ IsFiniteSet(log) /\ Distinct(log) /\ lost = log \cap lost
    BY DEF Typed, EventsTyped, CallTyped, Distinct
  <1>2. OneTarget(log)
    BY DEF StockInv, Directed, OneTarget, Sends
  <1>3. Compensations = log \cap Compensating
    BY <1>1 DEF Compensations, Compensating
  <1>4. ASSUME NEW l \in Places
        PROVE  State(log).stock[l] + Taken(l, Compensations) + Taken(l, lost) >= 0
    <2>1. State(log).stock[l] = Value(log, l)
      BY <1>1, <1>2, StateValue
    <2>2. Taken(l, Compensations) = Total(Debit(Compensating, l), log)
      BY <1>1, <1>3, TakenIs
    <2>3. Taken(l, lost) = Total(Debit(lost, l), log)
      BY <1>1, TakenIs
    <2>4. Backed(log, lost, l) >= 0
      BY DEF StockInv, AllBacked
    <2> QED BY <2>1, <2>2, <2>3, <2>4 DEF Backed
  <1> QED BY <1>4 DEF NeverOverdrawn

\* More events reported failed.
LEMMA MoreLost ==
    ASSUME NEW S \in SUBSET Event, IsFiniteSet(S), NEW X, NEW Y, X \subseteq Y, NEW l \in Places
    PROVE  Backed(S, X, l) <= Backed(S, Y, l)
  <1>1. \A e \in S : Debit(X, l)[e] \in Int /\ Debit(Y, l)[e] \in Int /\ Debit(X, l)[e] <= Debit(Y, l)[e]
    <2> TAKE e \in S
    <2>1. Debit(X, l)[e] \in Nat /\ Debit(Y, l)[e] \in Nat
      BY FlowsTyped
    <2>2. Debit(X, l)[e] = Debit(Y, l)[e] \/ Debit(X, l)[e] = 0
      BY DEF Debit
    <2> QED BY <2>1, <2>2
  <1>2. Total(Debit(X, l), S) <= Total(Debit(Y, l), S)
    BY <1>1, TotalCompares
  <1>3. /\ Value(S, l) \in Int /\ Total(Debit(Compensating, l), S) \in Int
        /\ Total(Debit(X, l), S) \in Int /\ Total(Debit(Y, l), S) \in Int
    BY SumsTyped
  <1> QED BY <1>2, <1>3 DEF Backed

\* Steps that leave the log and the queue alone.
LEMMA StandingStock ==
    ASSUME Typed, StockInv, UNCHANGED <<plan, log, queue>>,
           lost \subseteq lost', Known'
    PROVE  StockInv'
  <1>1. log \in SUBSET Event /\ IsFiniteSet(log)
    BY DEF Typed, EventsTyped
  <1>2. Range(queue)' = Range(queue)
    BY DEF Range
  <1>3. Directed' /\ Foreign'
    BY <1>2 DEF StockInv, Directed, Foreign
  <1>4. ASSUME NEW l \in Places PROVE Backed(log', lost', l) >= 0
    <2>1. Backed(log, lost, l) >= 0
      BY DEF StockInv, AllBacked
    <2>2. Backed(log, lost, l) <= Backed(log, lost', l)
      BY <1>1, MoreLost
    <2>3. Backed(log, lost, l) \in Int /\ Backed(log, lost', l) \in Int
      BY <1>1, SumsTyped DEF Backed
    <2> QED BY <2>1, <2>2, <2>3
  <1> QED BY <1>3, <1>4 DEF StockInv, AllBacked

LEMMA ProcessStock ==
    ASSUME Typed, StockInv, Service \/ Crash \/ FailApply \/ Clock \/ Wait \/ UNCHANGED vars
    PROVE  StockInv'
  <1>1. Known
    BY DEF StockInv
  <1>2. CASE Open \/ Clear
    <2>1. UNCHANGED <<plan, log, queue, lost, call>> /\ pc \notin {"up", "apply"} /\ pc' \notin {"up", "apply"}
      <3>1. CASE Open
        BY <3>1 DEF Open, disk
      <3>2. CASE Clear
        BY <3>2 DEF Clear
      <3> QED BY <1>2, <3>1, <3>2
    <2>2. Known'
      BY <1>1, <2>1 DEF Known
    <2> QED BY <2>1, <2>2, StandingStock
  <1>3. CASE ApplyNext \/ Clock \/ Wait \/ UNCHANGED vars
    <2>1. UNCHANGED <<plan, log, queue, lost, call, pc, memory>>
      <3>1. CASE ApplyNext
        BY <3>1 DEF ApplyNext
      <3>2. CASE Clock
        BY <3>2 DEF Clock, disk, process
      <3>3. CASE Wait \/ UNCHANGED vars
        BY <3>3 DEF Wait, vars, disk, process
      <3> QED BY <1>3, <3>1, <3>2, <3>3
    <2>2. Known'
      BY <1>1, <2>1 DEF Known, Missed
    <2> QED BY <2>1, <2>2, StandingStock
  <1>4. CASE Opened
    <2>1. /\ UNCHANGED <<plan, log, queue, lost, call>> /\ pc = "catchup"
          /\ pc' = "catchup" \/ (pc' = "up" /\ memory' = log)
      BY <1>4 DEF Opened
    <2>2. Known'
      BY <1>1, <2>1 DEF Known
    <2> QED BY <2>1, <2>2, StandingStock
  <1>5. CASE Return
    <2>1. UNCHANGED <<plan, log, queue, lost>> /\ pc' = "up" /\ memory' = log /\ call' = Idle
      BY <1>5 DEF Return, disk
    <2>2. Known'
      BY <2>1 DEF Known, Idle
    <2> QED BY <2>1, <2>2, StandingStock
  <1>6. CASE Crash
    <2>1. UNCHANGED <<plan, log, queue, lost>> /\ pc' = "down" /\ call' = Idle
      BY <1>6 DEF Crash, disk
    <2>2. Known'
      BY <2>1 DEF Known, Idle
    <2> QED BY <2>1, <2>2, StandingStock
  <1>7. CASE FailApply
    <2>1. /\ UNCHANGED <<plan, log, queue, memory>> /\ pc = "apply" /\ pc' = "up" /\ call' = Idle
          /\ lost' = lost \cup call.events
      BY <1>7 DEF FailApply, disk
    <2>2. Known'
      BY <1>1, <2>1 DEF Known, Idle, Missed
    <2> QED BY <2>1, <2>2, StandingStock
  <1> QED BY <1>2, <1>3, <1>4, <1>5, <1>6, <1>7 DEF Service

\* What is sent here.
LEMMA SendStock ==
    ASSUME NodeInv, Typed, StockInv,
           NEW a \in Authors, NEW at \in Nat, NEW cause \in Nat, NEW p \in Payload,
           p.kind = "arrived" => p.move.from = External,
           cause > 0 \/ p.kind \notin Moving \/ p.kind = "arrived"
                     \/ (p.kind = "dispatched" /\ p.source # Home),
           p.kind = "dispatched" => p \in plan.foreign,
           Send(From(a, at, cause, p))
    PROVE  StockInv'
  <1> DEFINE e == From(a, at, cause, p)
             T == log \cup Range(queue)
  <1>1. EventsTyped /\ CallTyped
    BY DEF Typed
  <1>2. UNCHANGED <<plan, log, pc, call, memory, lost>> /\ queue' = Append(queue, e)
    BY DEF Send, disk, process
  <1>3. e \in Event /\ e.says = p /\ e.cause = cause
    <2>1. NextSeq(a) \in Nat \ {0} /\ Physical(a) \in Nat
      BY <1>1, NextSeqIs, PhysicalIs
    <2> QED BY <2>1 DEF From, Event
  <1>4. Harmless(e)
    <2>1. \A l \in Places : p.kind \notin Moving \/ p.kind = "arrived"
                            \/ (p.kind = "dispatched" /\ p.source # Home) => PlainAt(l)[e] = 0
      <3> HIDE DEF e
      <3> QED BY <1>3 DEF PlainAt, Moving
    <2> HIDE DEF e
    <2> QED BY <1>3, <2>1 DEF Harmless
  <1> HIDE DEF e
  <1>5. queue \in Seq(Event)
    BY <1>1 DEF EventsTyped
  <1>6. Range(queue)' \subseteq Range(queue) \cup {e}
    <2>1. /\ queue' \in Seq(Event) /\ Len(queue') = Len(queue) + 1
          /\ \A i \in 1..Len(queue) : queue'[i] = queue[i]
          /\ queue'[Len(queue) + 1] = e
      BY <1>2, <1>3, <1>5, AppendProperties
    <2>2. Len(queue) \in Nat /\ DOMAIN queue = 1..Len(queue) /\ DOMAIN queue' = 1..(Len(queue) + 1)
      BY <1>5, <2>1, LenProperties
    <2>3. \A i \in 1..(Len(queue) + 1) : i \in 1..Len(queue) \/ i = Len(queue) + 1
      BY <2>2
    <2>4. \A i \in DOMAIN queue' : queue'[i] \in Range(queue) \cup {e}
      BY <2>1, <2>2, <2>3 DEF Range
    <2> QED BY <2>4 DEF Range
  <1>7. (log \cup Range(queue))' \subseteq T \cup {e}
    BY <1>2, <1>6
  <1>8. Directed'
    <2>1. PICK target \in [Ids -> Authors] :
             /\ \A q \in plan.foreign : q.kind = "dispatched" => q.target = target[q.id]
             /\ \A c \in plan.commands : c.op = "dispatch" => target[c.id] = Other
             /\ \A f \in T : f.says.kind = "dispatched" => f.says.target = target[f.says.id]
      BY DEF StockInv, Directed
    <2>2. e.says.kind = "dispatched" => e.says.target = target[e.says.id]
      BY <1>3, <2>1
    <2> HIDE DEF T
    <2>3. \A f \in (log \cup Range(queue))' :
             f.says.kind = "dispatched" => f.says.target = target[f.says.id]
      BY <1>7, <2>1, <2>2
    <2> QED BY <1>2, <2>1, <2>3 DEF Directed
  <1>9. Foreign'
    <2>1. FromOutside(T) /\ \A f \in Range(queue) : Harmless(f)
      BY DEF StockInv, Foreign
    <2> HIDE DEF T
    <2>2. FromOutside((log \cup Range(queue))')
      BY <1>3, <1>7, <2>1 DEF FromOutside
    <2>3. \A f \in Range(queue)' : Harmless(f)
      BY <1>4, <1>6, <2>1
    <2> QED BY <2>2, <2>3 DEF Foreign, FromOutside, Harmless
  <1>10. Known' /\ AllBacked'
    BY <1>2 DEF StockInv, Known, Missed, AllBacked
  <1> QED BY <1>8, <1>9, <1>10 DEF StockInv

LEMMA RemoteStock ==
    ASSUME NodeInv, Typed, StockInv,
           \/ \E e \in Own(log) : e.says.kind \in Moving /\ \E q \in 1..e.says.move.qty : Reject(e, q)
           \/ \E p \in plan.foreign : Forward(p)
           \/ \E p \in plan.foreign : \E e \in Own(log) : ForwardArrival(p, e)
    PROVE  StockInv'
  <1>1. /\ Central \in Authors /\ Other \in Authors /\ plan.foreign \subseteq Payload
        /\ \A e \in Own(log) : e \in Event
    BY NodeServiceAssumption DEF Authors, NodeInv, Typed, EventsTyped, Own
  <1>2. \A e \in Own(log) : e.at \in Nat /\ e.seq \in Nat /\ e.seq > 0 /\ e.says \in Payload
    BY <1>1 DEF Event
  <1>3. /\ \A p \in plan.foreign : p.kind = "dispatched" => p.source # Home
        /\ \A p \in plan.foreign : p.kind = "arrived" => p.move.from = External
    <2>1. plan \in Plans
      BY DEF NodeInv
    <2> QED BY <2>1, TradingAssumption
  <1>4. ASSUME NEW e \in Own(log), e.says.kind \in Moving, NEW q \in 1..e.says.move.qty, Reject(e, q)
        PROVE  StockInv'
    <2> DEFINE p == e.says
               at == Merge(clk[Central], e.at, Physical(Central))
               back == [from |-> p.move.to, to |-> p.move.from, qty |-> q]
               failed == IF p.kind = "dispatched" THEN p.id ELSE "none"
               says == [kind |-> "adjusted", move |-> back, failed |-> failed]
    <2>1. Send(From(Central, at, e.seq, says))
      BY <1>4 DEF Reject
    <2>2. at \in Nat
      BY <1>1, <1>2, ReadingsOf
    <2>3. p.move \in Move /\ (p.kind = "dispatched" => p.id \in Ids)
      BY <1>2, <1>4, PayloadFields
    <2>4. back \in Move
      BY <2>3 DEF Move
    <2>5. says \in Payload
      <3> HIDE DEF back
      <3> QED BY <2>3, <2>4 DEF Payload
    <2>6. says.kind = "adjusted"
      OBVIOUS
    <2> HIDE DEF says, at
    <2>7. /\ says.kind = "arrived" => says.move.from = External
          /\ e.seq > 0 \/ says.kind \notin Moving \/ says.kind = "arrived"
                       \/ (says.kind = "dispatched" /\ says.source # Home)
          /\ says.kind = "dispatched" => says \in plan.foreign
      BY <1>2, <2>6
    <2> QED BY <1>1, <1>2, <2>1, <2>2, <2>5, <2>7, SendStock
  <1>5. ASSUME NEW p \in plan.foreign, Forward(p) PROVE StockInv'
    <2>1. PICK a \in {Central, Other} : Send(From(a, Tick(clk[a], Physical(a)), 0, p))
      BY <1>5 DEF Forward
    <2>2. p.kind = "item" \/ p.kind = "dispatched"
      BY <1>5 DEF Forward
    <2> DEFINE at == Tick(clk[a], Physical(a))
    <2>3. at \in Nat /\ a \in Authors /\ p \in Payload
      BY <1>1, ReadingsOf
    <2>4. p.kind \notin Moving \/ p.kind = "arrived" \/ (p.kind = "dispatched" /\ p.source # Home)
      BY <1>3, <2>2 DEF Moving
    <2> HIDE DEF at
    <2> QED BY <1>3, <2>1, <2>3, <2>4, SendStock DEF at
  <1>6. ASSUME NEW p \in plan.foreign, NEW e \in Own(log), ForwardArrival(p, e) PROVE StockInv'
    <2> DEFINE at == Tick(Merge(clk[Other], e.at, Physical(Other)), Physical(Other))
    <2>1. Send(From(Other, at, 0, p)) /\ p.kind = "arrived"
      BY <1>6 DEF ForwardArrival
    <2>2. at \in Nat
      BY <1>1, <1>2, ReadingsOf
    <2> HIDE DEF at
    <2> QED BY <1>1, <1>3, <2>1, <2>2, SendStock
  <1> QED BY <1>4, <1>5, <1>6

\* What the log gains, when nobody has to answer for it.
LEMMA Gained ==
    ASSUME Typed, StockInv, NEW T \in SUBSET Event, IsFiniteSet(T), FromOutside(T), log \subseteq T,
           NEW l \in Places, \A e \in T \ log : e.cause > 0 \/ PlainAt(l)[e] >= 0
    PROVE  Backed(T, lost, l) >= 0
  <1>1. log \in SUBSET T /\ log \in SUBSET Event /\ IsFiniteSet(log)
    BY DEF Typed, EventsTyped
  <1>2. Backed(log, lost, l) <= Backed(T, lost, l)
    BY <1>1, Grow
  <1>3. Backed(log, lost, l) >= 0
    BY DEF StockInv, AllBacked
  <1>4. Backed(log, lost, l) \in Int /\ Backed(T, lost, l) \in Int
    BY <1>1, SumsTyped DEF Backed
  <1> QED BY <1>2, <1>3, <1>4

LEMMA IngestStock == ASSUME NodeInv, Typed, StockInv, Pull PROVE StockInv'
  <1>1. queue \in Seq(Event) /\ pulled \in Nat
    BY DEF Typed, EventsTyped, NodeInv
  <1>2. Len(queue) \in Nat /\ DOMAIN queue = 1..Len(queue) /\ queue \in [1..Len(queue) -> Event]
    BY <1>1, LenProperties
  <1>3. PICK i \in {pulled, pulled + 1} \ {0} : \E j \in pulled + 1 .. Len(queue) : Ingest(i, j)
    BY DEF Pull
  <1>4. PICK j \in pulled + 1 .. Len(queue) : Ingest(i, j)
    BY <1>3
  <1> DEFINE batch == SubSeq(queue, i, j)
             S == Range(queue)
  <1>5. /\ UNCHANGED <<plan, memory, queue, lost>> /\ pc = "up" /\ pc' = "apply"
        /\ log' = log \cup Range(batch) /\ call'.events = {}
    BY <1>4 DEF Ingest
  <1>6. Range(batch) \subseteq S
    <2>1. i \in Int /\ j \in Int /\ i >= 1 /\ j <= Len(queue)
      BY <1>1, <1>2
    <2>2. \A k \in i..j : queue[k] \in S
      BY <1>2, <2>1 DEF Range
    <2> HIDE DEF S
    <2>3. batch \in Seq(S)
      BY <2>1, <2>2, SubSeqProperties
    <2> HIDE DEF batch
    <2> QED BY <2>3, RangeIs
  <1> HIDE DEF batch
  <1>7. Typed' /\ log' \in SUBSET Event /\ IsFiniteSet(log')
    <2>1. Typed'
      BY IngestTyped
    <2> QED BY <2>1 DEF Typed, EventsTyped
  <1>8. Range(queue)' = S /\ (log \cup Range(queue))' = log \cup S
    BY <1>5, <1>6 DEF Range
  <1>9. Directed' /\ Foreign'
    BY <1>5, <1>8 DEF StockInv, Directed, Foreign, FromOutside, Harmless
  <1>10. \A e \in log' \ log : Harmless(e)
    BY <1>5, <1>6 DEF StockInv, Foreign
  <1>11. Known'
    <2>1. \A e \in log \ memory : Harmless(e) \/ e \in lost
      BY <1>5 DEF StockInv, Known, Missed
    <2>2. \A e \in log' \ memory : Harmless(e) \/ e \in lost
      BY <1>10, <2>1
    <2> QED BY <1>5, <2>2 DEF Known, Missed, Harmless
  <1>12. FromOutside(log')
    BY <1>9 DEF Foreign, FromOutside
  <1>13. ASSUME NEW l \in Places PROVE Backed(log', lost', l) >= 0
    <2>1. \A e \in log' \ log : e.cause > 0 \/ PlainAt(l)[e] >= 0
      BY <1>10 DEF Harmless
    <2> QED BY <1>5, <1>7, <1>12, <2>1, Gained
  <1> QED BY <1>9, <1>11, <1>13 DEF StockInv, AllBacked

\* One event more reported failed is worth no more than what it took.
LEMMA OneLost ==
    ASSUME NEW T \in SUBSET Event, IsFiniteSet(T), NEW d \in T, NEW X, NEW l \in Places,
           d.says.kind \in Moving, d.says.move.from = l
    PROVE  Backed(T, X \cup {d}, l) <= Backed(T, X, l) + d.says.move.qty
  <1> DEFINE f == Debit(X \cup {d}, l)
             g == Debit(X, l)
             R == T \ {d}
             q == d.says.move.qty
  <1>1. d \in Event /\ R \in SUBSET T /\ R \in SUBSET Event /\ IsFiniteSet(R) /\ T \in SUBSET T
    BY FS_Subset
  <1>2. \A e \in T : f[e] \in Int /\ g[e] \in Int /\ f[e] >= 0 /\ g[e] >= 0
    <2> TAKE e \in T
    <2>1. f[e] \in Nat /\ g[e] \in Nat
      BY FlowsTyped
    <2> QED BY <2>1
  <1>3. \A e \in R : f[e] = g[e]
    BY DEF Debit
  <1>4. f[d] = q
    BY <1>1 DEF Debit
  <1> HIDE DEF f, g, R, q
  <1>5. Total(f, T) = f[d] + Total(f, R) /\ Total(g, T) = g[d] + Total(g, R)
    <2>1. /\ \A S \in SUBSET T : \A x \in S : Total(f, S) = f[x] + Total(f, S \ {x})
          /\ \A S \in SUBSET T : \A x \in S : Total(g, S) = g[x] + Total(g, S \ {x})
      BY <1>2, TotalLaw
    <2> QED BY <1>1, <2>1 DEF R
  <1>6. Total(f, R) = Total(g, R)
    BY <1>1, <1>2, <1>3, TotalSame
  <1>7. /\ Total(f, R) \in Int /\ Total(g, R) \in Int
        /\ Value(T, l) \in Int /\ Total(Debit(Compensating, l), T) \in Int
    BY <1>1, SumsTyped DEF f, g
  <1>8. /\ Backed(T, X \cup {d}, l) = Value(T, l) + Total(Debit(Compensating, l), T) + Total(f, T)
        /\ Backed(T, X, l) = Value(T, l) + Total(Debit(Compensating, l), T) + Total(g, T)
    BY DEF Backed, f, g
  <1>9. f[d] \in Int /\ g[d] \in Int /\ g[d] >= 0
    BY <1>2
  <1>10. Backed(T, X \cup {d}, l) <= Backed(T, X, l) + q
    BY <1>4, <1>5, <1>6, <1>7, <1>8, <1>9
  <1> QED BY <1>10 DEF q

LEMMA ExecuteStock ==
    ASSUME NodeInv, Typed, StockInv, NEW c \in plan.commands, Execute(c) PROVE StockInv'
  <1> DEFINE s == State(memory)
             payloads == Do(s, c)
             events == Sealed(payloads)
  <1>1. /\ UNCHANGED <<plan, memory, queue, lost>> /\ pc = "up" /\ pc' = "apply"
        /\ log' = log \cup Range(events) /\ call'.events = Range(events)
    BY DEF Execute
  <1>2. EventsTyped /\ CallTyped /\ plan \in Plans
    BY DEF Typed, BoundsTyped
  <1>3. /\ memory \in SUBSET Event /\ IsFiniteSet(memory) /\ Distinct(memory) /\ memory \subseteq log
        /\ log \in SUBSET Event
    BY <1>2, FS_Subset DEF EventsTyped, CallTyped, Distinct
  <1>4. s \in StateSet /\ c \in Command
    BY <1>2, <1>3, StateTyped, NodeServiceAssumption
  <1> HIDE DEF s
  <1>5. payloads \in Seq(Payload) /\ Careful(s, c, payloads)
    BY <1>4, DoTyped, DoCareful
  <1> HIDE DEF payloads
  <1>6. /\ DOMAIN events = DOMAIN payloads /\ DOMAIN events \subseteq Nat
        /\ \A i \in DOMAIN events : events[i].says = payloads[i]
    <2>1. DOMAIN payloads \subseteq Nat
      <3>1. Len(payloads) \in Nat /\ DOMAIN payloads = 1..Len(payloads)
        BY <1>5, LenProperties
      <3> QED BY <3>1
    <2> QED BY <2>1, SealedIs
  <1> HIDE DEF events
  <1>7. \A e \in Range(events) : \E i \in DOMAIN payloads : e = events[i] /\ e.says = payloads[i]
    BY <1>6 DEF Range
  <1>8. \A e \in Range(events) : e.says \in Gentle \cup Affordable(s, c)
    BY <1>5, <1>7 DEF Careful
  <1>9. Typed' /\ log' \in SUBSET Event /\ IsFiniteSet(log')
    <2>1. Typed'
      BY ExecuteTyped
    <2> QED BY <2>1 DEF Typed, EventsTyped
  <1>10. Range(queue)' = Range(queue) /\ (log \cup Range(queue))' = log \cup Range(queue) \cup Range(events)
    BY <1>1 DEF Range
  <1>11. Directed'
    <2>1. PICK target \in [Ids -> Authors] :
             /\ \A q \in plan.foreign : q.kind = "dispatched" => q.target = target[q.id]
             /\ \A k \in plan.commands : k.op = "dispatch" => target[k.id] = Other
             /\ \A f \in log \cup Range(queue) :
                   f.says.kind = "dispatched" => f.says.target = target[f.says.id]
      BY DEF StockInv, Directed
    <2>2. \A e \in Range(events) : e.says.kind = "dispatched" => e.says.target = target[e.says.id]
      <3> SUFFICES ASSUME NEW e \in Range(events), e.says.kind = "dispatched"
                   PROVE  e.says.target = target[e.says.id]
        OBVIOUS
      <3>1. c.op = "dispatch" /\ e.says.id = c.id /\ e.says.target = Other
        BY <1>8 DEF Gentle, Affordable
      <3> QED BY <2>1, <3>1
    <2> QED BY <1>1, <1>10, <2>1, <2>2 DEF Directed
  <1>12. Foreign'
    <2>1. \A e \in Range(events) : e.says.kind = "arrived" => e.says.move.from = External
      <3> SUFFICES ASSUME NEW e \in Range(events), e.says.kind = "arrived"
                   PROVE  e.says.move.from = External
        OBVIOUS
      <3>1. e.says \in Gentle
        BY <1>8 DEF Affordable
      <3> QED BY <3>1 DEF Gentle, Moving
    <2>2. FromOutside(log \cup Range(queue)) /\ \A e \in Range(queue) : Harmless(e)
      BY DEF StockInv, Foreign
    <2> QED BY <1>10, <2>1, <2>2 DEF Foreign, FromOutside, Harmless
  <1>13. \A e \in log \ memory : Harmless(e) \/ e \in lost
    BY <1>1 DEF StockInv, Known, Missed
  <1>14. Known'
    <2>1. \A e \in log' \ memory : Harmless(e) \/ e \in lost \cup call'.events
      BY <1>1, <1>13
    <2> QED BY <1>1, <2>1 DEF Known, Missed, Harmless
  <1>15. FromOutside(log')
    BY <1>12 DEF Foreign, FromOutside
  <1>16. \A e \in Range(events) : e.says \in Gentle => \A l \in Places : PlainAt(l)[e] >= 0
    <2> SUFFICES ASSUME NEW e \in Range(events), e.says \in Gentle, NEW l \in Places
                 PROVE  PlainAt(l)[e] >= 0
      OBVIOUS
    <2>1. e \in Event /\ e.says \in Payload /\ External # l
      BY <1>1, <1>9 DEF Gentle, External, Places
    <2>2. e.says.kind \in Moving => e.says.move \in Move /\ e.says.move.from = External
      BY <2>1, PayloadFields DEF Gentle
    <2> QED BY <2>1, <2>2 DEF PlainAt, Delta, Move, Moving
  <1>17. ASSUME NEW l \in Places PROVE Backed(log', lost, l) >= 0
    <2>1. CASE \A e \in Range(events) : PlainAt(l)[e] >= 0
      <3>1. \A e \in log' \ log : e.cause > 0 \/ PlainAt(l)[e] >= 0
        BY <1>1, <2>1
      <3> QED BY <1>1, <1>9, <1>15, <3>1, Gained
    <2>2. ASSUME NEW d \in Range(events), ~ (PlainAt(l)[d] >= 0) PROVE Backed(log', lost, l) >= 0
      <3> DEFINE X == lost \cup {d}
      <3>1. d.says \in Affordable(s, c) /\ d.says \notin Gentle /\ d \in Event /\ d \in log'
        BY <1>1, <1>8, <1>9, <1>16, <2>2
      <3>2. \A e \in Range(events) : e.says \notin Gentle => e = d
        <4> SUFFICES ASSUME NEW e \in Range(events), e.says \notin Gentle PROVE e = d
          OBVIOUS
        <4>1. PICK i \in DOMAIN payloads : e = events[i] /\ e.says = payloads[i]
          BY <1>7
        <4>2. PICK j \in DOMAIN payloads : d = events[j] /\ d.says = payloads[j]
          BY <1>7
        <4>3. i = 1 /\ j = 1
          BY <1>5, <3>1, <4>1, <4>2 DEF Careful
        <4> QED BY <4>1, <4>2, <4>3
      <3>3. /\ d.says.kind \in Moving /\ d.says.move.from \in Places /\ d.says.move \in Move
            /\ d.says.move.qty <= s.stock[d.says.move.from] /\ d.says.move.qty \in Nat
        <4>1. d.says.kind \in Moving /\ d.says \in Payload
          BY <3>1 DEF Affordable
        <4>2. d.says.move \in Move
          BY <4>1, PayloadFields
        <4> QED BY <3>1, <4>1, <4>2 DEF Affordable, Move
      <3>4. d.says.move.from = l
        <4> SUFFICES ASSUME d.says.move.from # l PROVE PlainAt(l)[d] >= 0
          BY <2>2
        <4> QED BY <3>1, <3>3 DEF PlainAt, Delta, Move
      <3>5. \A e \in log' \ memory : e.cause > 0 \/ e \in X \/ PlainAt(l)[e] >= 0
        <4>1. \A e \in Range(events) : e \in X \/ PlainAt(l)[e] >= 0
          BY <1>16, <3>2
        <4>2. \A e \in log \ memory : e.cause > 0 \/ e \in X \/ PlainAt(l)[e] >= 0
          BY <1>13 DEF Harmless
        <4> HIDE DEF X
        <4> QED BY <1>1, <4>1, <4>2
      <3> HIDE DEF X
      <3>6. Backed(memory, X, l) <= Backed(log', X, l)
        <4>1. memory \in SUBSET log'
          BY <1>1, <1>3
        <4> QED BY <1>9, <1>15, <3>5, <4>1, Grow
      <3>7. Value(memory, l) = s.stock[l]
        <4>1. OneTarget(memory)
          BY <1>3 DEF StockInv, Directed, OneTarget, Sends
        <4> QED BY <1>3, <4>1, StateValue DEF s
      <3>8. Value(memory, l) <= Backed(memory, X, l)
        <4>1. /\ Value(memory, l) \in Int
              /\ Total(Debit(Compensating, l), memory) \in Int
              /\ Total(Debit(Compensating, l), memory) >= 0
              /\ Total(Debit(X, l), memory) \in Int /\ Total(Debit(X, l), memory) >= 0
          BY <1>3, SumsTyped
        <4> QED BY <4>1 DEF Backed
      <3>9. Backed(log', X, l) <= Backed(log', lost, l) + d.says.move.qty
        BY <1>9, <3>1, <3>3, <3>4, OneLost DEF X
      <3>10. /\ Value(memory, l) \in Int /\ Backed(memory, X, l) \in Int
             /\ Backed(log', X, l) \in Int /\ Backed(log', lost, l) \in Int
        BY <1>3, <1>9, SumsTyped DEF Backed
      <3> DEFINE q == d.says.move.qty
                 v == Value(memory, l)
                 a == Backed(memory, X, l)
                 b == Backed(log', X, l)
                 z == Backed(log', lost, l)
      <3>11. /\ q \in Nat /\ v \in Int /\ a \in Int /\ b \in Int /\ z \in Int
             /\ q <= v /\ v <= a /\ a <= b /\ b <= z + q
        BY <3>3, <3>4, <3>6, <3>7, <3>8, <3>9, <3>10
      <3> HIDE DEF q, v, a, b, z
      <3>12. z >= 0
        BY <3>11
      <3> QED BY <3>12 DEF z
    <2> QED BY <2>1, <2>2
  <1> QED BY <1>1, <1>11, <1>12, <1>14, <1>17 DEF StockInv, AllBacked

\* A node's commands never take a place below zero: what is missing there was taken back by
\* central, or by a command that was reported failed.  For any commands, events from
\* elsewhere, versions, failures, crashes and clocks: although a command is checked
\* against a state that may have missed part of the log, and events arrive in any order of
\* their timestamps (RequireOnHand, State.Apply, Service.apply).
THEOREM NeverOverdrawnCorrect == Spec => []NeverOverdrawn
  <1>1. Init => NodeInv /\ Typed /\ StockInv
    BY NodeInvInit, TypedInit, StockInvInit
  <1>2. NodeInv /\ Typed /\ StockInv /\ [Next]_vars => NodeInv' /\ Typed' /\ StockInv'
    <2> SUFFICES ASSUME NodeInv, Typed, StockInv, [Next]_vars PROVE NodeInv' /\ Typed' /\ StockInv'
      OBVIOUS
    <2>1. NodeInv'
      BY NodeInvNext
    <2>2. Typed'
      BY ProcessTyped, ExecuteTyped, IngestTyped, RemoteTyped DEF Next
    <2>3. StockInv'
      BY ProcessStock, ExecuteStock, IngestStock, RemoteStock DEF Next
    <2> QED BY <2>1, <2>2, <2>3
  <1>3. NodeInv /\ Typed /\ StockInv => NeverOverdrawn
    BY StockInvIs
  <1> QED BY <1>1, <1>2, <1>3, PTL DEF Spec
=============================================================================
