---------------------------- MODULE MCEnvironment -----------------------------
(* Two simulators added by two goroutines, one of which is not entered in  *)
(* onos-topo; two networks that share the name of a device; three apps,    *)
(* one without a secret and one without replicas.                          *)
EXTENDS Environment, TLC

CONSTANTS s1, s2, n1, n2, a1, a2, a3, net, c1, c2

MCTopology ==
  (n1 :> SetLinear(NewNetwork, 2)) @@ (n2 :> SetSingle(SetTopo(NewNetwork, 3)))
MCReplicas == (a1 :> 1) @@ (a2 :> 2) @@ (a3 :> 0)
MCShortName == [n \in {n1, n2} |-> net]

(* The simulators with commands that interfere, and the others alone.      *)
MCScenarios ==
  {[setups |-> <<s1, s2>>, commands |-> {c1}, targets |-> {s1}],
   [setups |-> <<>>, commands |-> {c1, c2}, targets |-> {n1, n2}],
   [setups |-> <<>>, commands |-> {c1}, targets |-> {a1, a2, a3}]}
===============================================================================
