---------------------------- MODULE MCClusterSetup ----------------------------
(* A database, a core service, an app and the CLI, with the arguments that *)
(* make what is set up differ from what was built.                         *)
EXTENDS ClusterSetup, TLC

CONSTANTS db, topo, app

NoArguments ==
  [replicas |-> [s \in Services |-> {}], cliEnabled |-> {}, atomixName |-> FALSE]

MCArguments ==
  {NoArguments,
   [NoArguments EXCEPT !.cliEnabled = {TRUE}, !.replicas[app] = {0}],
   [NoArguments EXCEPT !.atomixName = TRUE]}
===============================================================================
