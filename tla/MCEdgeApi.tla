------------------------------ MODULE MCEdgeApi ------------------------------
(* Instances of EdgeApi for TLC: this edge and another one. *)
EXTENDS EdgeApi, TLC

MCMacs == {"me", "other"}
MCDesc == ("me" :> 2) @@ ("other" :> 1)

Plan(c, r, v, kinds) ==
    [changes |-> c, reports |-> r, recoveries |-> v, kinds |-> kinds]

(* Changes in the registry during a request; requests for the full state   *)
(* that meet each other, or a recovery; requests for leases that meet. *)
MCPlans ==
    {Plan(2, 1, 0, <<{"dot"}, {}>>),
     Plan(0, 2, 0, <<{"json", "offlines"}, {"json", "dot"}>>),
     Plan(0, 1, 1, <<{"json"}, {"json"}>>),
     Plan(0, 0, 0, <<{"leases"}, {"leases", "json"}>>)}

=============================================================================
