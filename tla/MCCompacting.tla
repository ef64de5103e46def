---------------------------- MODULE MCCompacting ----------------------------
(* Small instances of CompactingProperties for TLC. *)
EXTENDS CompactingProperties, TLC

\* Node 1, whose goroutines overlap, writes two items in turn; node 2 writes one of them.
Pair == [nodes |-> {1, 2}, links |-> {<<1, 2>>},
         script |-> 1 :> <<"s", "t">> @@ 2 :> <<"s">>, slots |-> 1 :> 2 @@ 2 :> 0]
\* Nodes 1 and 2 meet only through node 3.
Relay == [nodes |-> {1, 2, 3}, links |-> {<<1, 3>>, <<2, 3>>},
          script |-> 1 :> <<"s">> @@ 2 :> <<"s">> @@ 3 :> <<>>,
          slots |-> [n \in 1..3 |-> 0]]

PairAndRelay == {Pair, Relay}
Skewed == [n \in Nodes |-> IF n = 2 THEN 10 ELSE 0]
=============================================================================
