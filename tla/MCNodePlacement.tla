-------------------------- MODULE MCNodePlacement --------------------------
(***************************************************************************)
(* A small instance of NodePlacement: two nodes in two zones, and          *)
(* placements that some, all or none of their states allow.                *)
(***************************************************************************)
EXTENDS NodePlacement

Worker(zone) ==
    [have |-> TRUE, excluded |-> FALSE, ready |-> TRUE, cpu |-> TRUE,
     zone |-> zone, labels |-> {"linux"}, taints |-> {}, unschedulable |-> FALSE]
Drained  == [Worker("a") EXCEPT !.unschedulable = TRUE, !.ready = FALSE]
Infra    == [Worker("b") EXCEPT !.labels = {"linux", "infra"}, !.taints = {"infra"}]
Master   == [Worker("a") EXCEPT !.excluded = TRUE, !.taints = {"master"}]

FewStates == {Worker("a"), Worker("b"), Worker(""), Drained, Infra, Master}

Default == [selector |-> {}, tolerations |-> <<>>]
ToInfra == [selector |-> {"infra"}, tolerations |-> <<"infra">>]
NoInfra == [selector |-> {"infra"}, tolerations |-> <<>>]
Twice   == [selector |-> {}, tolerations |-> <<"infra", "master", "master">>]

FewPlacements == {Default, ToInfra, NoInfra, Twice}
=============================================================================
