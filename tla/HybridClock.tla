---------------------------- MODULE HybridClock ----------------------------
(***************************************************************************)
(* The hybrid logical clock of warehouse-node (internal/domain/hlc.go).  A  *)
(* reading <<wall, counter>> is the number wall * Counters + counter, so    *)
(* that the carry of a full counter into the wall time is adding 1; the     *)
(* node that breaks a tie is kept with the event.                           *)
(***************************************************************************)
EXTENDS Integers

CONSTANT Counters   \* readings of one millisecond; 2^32 in the code

ASSUME HybridClockAssumption == Counters \in Nat \ {0}

Max2(a, b) == IF a < b THEN b ELSE a
Wall(h) == h \div Counters

\* The reading of the next local event.
Tick(prev, wall) == IF wall > Wall(prev) THEN wall * Counters ELSE prev + 1

\* The reading after one of another author was seen.
Merge(prev, seen, wall) ==
    IF wall > Wall(prev) /\ wall > Wall(seen) THEN wall * Counters
    ELSE Max2(prev, seen) + 1
=============================================================================
