------------------------------ MODULE MCCluster ------------------------------
(* Two processes that manage the same namespace, which was there before    *)
(* the tests, and one with a namespace of its own.                         *)
EXTENDS Cluster, TLC

CONSTANTS c1, c2, c3, n1, n2

MCNamespaceOf == c1 :> n1 @@ c2 :> n1 @@ c3 :> n2
=============================================================================
