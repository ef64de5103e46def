-------------------------------- MODULE MCLab --------------------------------
(* Small instances of LabProperties for TLC. *)
EXTENDS LabProperties, TLC

\* A run of the harness; with late, one session may take too long.
Lab(faults, order, late) ==
    [transport |-> "memory", faults |-> faults, order |-> order, window |-> 1, slow |-> late,
     ops |-> 1 :> 2 @@ 2 :> 1, offline |-> 1 :> 0 @@ 2 :> 0]

\* Two processes that were offline, and what they record while they sync.
Processes(before, meanwhile) ==
    [transport |-> "grpc", faults |-> {}, order |-> <<1, 2>>, window |-> 1, slow |-> 0,
     ops |-> meanwhile, offline |-> before]

MCSetups ==
    {Lab({"partition"}, <<2, 1>>, 0), Lab({"asym", "crash"}, <<1, 2>>, 0),
     Lab({"dup"}, <<1, 2>>, 1), Lab({"reorder"}, <<1, 2>>, 1),
     Processes(1 :> 2 @@ 2 :> 2, 1 :> 0 @@ 2 :> 0), Processes(1 :> 1 @@ 2 :> 0, 1 :> 1 @@ 2 :> 0)}
=============================================================================
