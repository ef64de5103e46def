---------------------------- MODULE ReplicatedLog ----------------------------
(***************************************************************************)
(* What replication promises: every author's records form one sequence, and *)
(* what another site knows of it is a beginning of it, that only grows.      *)
(***************************************************************************)
EXTENDS Sequences, Naturals

CONSTANTS Sites, Authors

VARIABLE view    \* site |-> author |-> the author's records the site knows

Init == view = [s \in Sites |-> [a \in Authors |-> <<>>]]

Write(a) ==
    LET mine == view[a][a] IN
    /\ Len(view'[a][a]) = Len(mine) + 1
    /\ SubSeq(view'[a][a], 1, Len(mine)) = mine
    /\ view' = [view EXCEPT ![a][a] = view'[a][a]]

Learn(s, a) ==
    LET known == Len(view'[s][a]) IN
    /\ known \in Len(view[s][a]) + 1 .. Len(view[a][a])
    /\ view' = [view EXCEPT ![s][a] = SubSeq(view[a][a], 1, known)]

Next == \E a \in Authors : Write(a) \/ \E s \in Sites : Learn(s, a)

Spec == Init /\ [][Next]_view
=============================================================================
