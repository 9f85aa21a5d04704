------------------------------ MODULE MCPipeline ------------------------------
(* The instance of Pipeline that TLC checks: four messages in this order,  *)
(* three of them in one partition.                                         *)
EXTENDS Pipeline, TLC

CONSTANTS m1, m2, m3, m4, p1, p2

FourMessages == <<m1, m2, m3, m4>>

OnTwoPartitions == (m1 :> p1) @@ (m2 :> p2) @@ (m3 :> p1) @@ (m4 :> p1)

=============================================================================
