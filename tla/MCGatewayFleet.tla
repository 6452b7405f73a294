---------------------------- MODULE MCGatewayFleet -----------------------------
(* A small fleet: two nodes in one of two clusters, a change of any kind,  *)
(* and executions that are even, nearly even or skewed.                    *)
EXTENDS GatewayFleet, TLC

CONSTANTS n1, n2, c1, c2, east, west

MCNodes == {n1, n2}
MCClusters == {c1, c2}
MCNames == {east, west}
MCArrangements == {[n \in MCNodes |-> c1]}
MCFirstNames == c1 :> east @@ c2 :> west
MCLandings == {[network |-> "rows", events |-> "empty", disk |-> "absent",
                mashup |-> "rows"]}
MCLoads == {n1 :> 3 @@ n2 :> 2, n1 :> 2 @@ n2 :> 9, n1 :> 3 @@ n2 :> 3}
================================================================================
