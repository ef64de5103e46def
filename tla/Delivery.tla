------------------------------ MODULE Delivery ------------------------------
(***************************************************************************)
(* What central's downstream queue promises a node: the envelopes queued   *)
(* for it take effect there in the order they were queued, so that what    *)
(* has is always a prefix of the queue, and stays in effect.               *)
(***************************************************************************)
EXTENDS Sequences, Naturals

CONSTANT Envs    \* the envelopes that may be queued for the node

VARIABLES
    queue,       \* the envelopes queued so far
    applied      \* those that have taken effect at the node

vars == <<queue, applied>>

Init == queue = <<>> /\ applied = {}

FirstOf(k) == {queue[i] : i \in 1..k}

Put(e) ==
    /\ \A i \in DOMAIN queue : queue[i] # e
    /\ queue' = Append(queue, e)
    /\ UNCHANGED applied

Take ==
    /\ \E k \in DOMAIN queue :
          /\ applied' = FirstOf(k)
          /\ applied \subseteq applied'
          /\ applied # applied'
    /\ UNCHANGED queue

Next == Take \/ \E e \in Envs : Put(e)

Spec == Init /\ [][Next]_vars
=============================================================================
