----------------------------- MODULE ClusterSetup -----------------------------
(***************************************************************************)
(* pkg/onit/setup: "onit create cluster" and the tests that set up their   *)
(* own cluster.  clusterSetup.Setup sets up the Atomix controller, then    *)
(* every other part in a goroutine of its own, and returns the first error *)
(* on an unbuffered channel or, when a closer goroutine has closed it, no  *)
(* error.  pkg/onit/cluster holds what a part does: it creates objects, in *)
(* order, and polls until they are ready.                                  *)
(*                                                                         *)
(* The process may be run again on what an earlier one left behind, or     *)
(* after its namespace was deleted.  Kubernetes and the Atomix controller  *)
(* are external; a call may fail whether or not the server carried it out. *)
(* "Ready" is the readiness the polls look for; the code never looks again *)
(* at what was ready once, so neither does the model.                      *)
(***************************************************************************)
EXTENDS Naturals, FiniteSets

CONSTANTS
  Databases,    \* names of the databases of the set-up
  Core,         \* onos-topo and onos-config
  Apps,         \* names of the apps
  Arguments,    \* what --set may give
  MaxReplicas,  \* bound on what SetReplicas is given
  MaxRuns       \* bound on the runs of the process

CLI == "onos-cli"
Atomix == "atomix-controller"
Services == Core \cup Apps
Parts == Databases \cup Services \cup {CLI}

(* What the builders carry, and the arguments that override it: {}, or {v} *)
(* when the command line gives v.                                          *)
SettingsType ==
  [protocols : [Databases -> SUBSET {"raft", "nopaxos"}],
   replicas : [Services -> 0 .. MaxReplicas],
   secrets : SUBSET Services,
   cliEnabled : BOOLEAN]
ArgumentsType ==
  [replicas : [Services -> SUBSET Nat], cliEnabled : SUBSET BOOLEAN, atomixName : BOOLEAN]

ASSUME PartsAssumption ==
  /\ CLI \notin Databases \cup Services /\ Atomix \notin Parts
  /\ Databases \cap Services = {} /\ Core \cap Apps = {}
ASSUME FiniteAssumption == IsFiniteSet(Databases) /\ IsFiniteSet(Core) /\ IsFiniteSet(Apps)
ASSUME ArgumentsAssumption == Arguments \subseteq ArgumentsType
ASSUME BoundAssumption == MaxReplicas \in Nat /\ MaxRuns \in Nat \ {0}

VARIABLES
  settings,  \* what the builders carry
  args,      \* the arguments of the command
  main,      \* where Setup is
  part,      \* part[p]: what the goroutine of part p does next
  closer,    \* where the closer goroutine is
  objects,   \* <<kind, part>> of the objects in the cluster
  ready,     \* the parts that have become ready
  runs       \* processes so far

cluster == <<objects, ready>>
inputs == <<settings, args>>
vars == <<inputs, main, part, closer, cluster, runs>>

CRDs == {"databaseCRD", "clusterCRD", "partitionCRD"}
Kinds == {"deployment", "service", "secret", "configMap", "database"}
Objects == (CRDs \X {Atomix}) \cup (Kinds \X (Parts \cup {Atomix}))

TypeOK ==
  /\ settings \in SettingsType /\ args \in Arguments
  /\ main \in CRDs \cup {"build", "deployment", "service", "await", "setupServices", "range",
                         "nil", "error"}
  /\ part \in [Parts -> {"setup", "await", "send", "done"} \cup Kinds]
  /\ closer \in {"wait", "closed"}
  /\ objects \in SUBSET Objects
  /\ ready \in SUBSET (Parts \cup {Atomix})
  /\ runs \in 1 .. MaxRuns

(* Core services and apps have secrets from the start.                     *)
Default ==
  [protocols |-> [d \in Databases |-> {}],
   replicas |-> [s \in Services |-> 0],
   secrets |-> Services,
   cliEnabled |-> FALSE]

Init ==
  /\ settings = Default /\ args \in Arguments
  /\ main = "build"
  /\ part = [p \in Parts |-> "done"]
  /\ closer = "closed"
  /\ objects = {} /\ ready = {}
  /\ runs = 1

-----------------------------------------------------------------------------
(* The builders: the settings that decide what is set up.                  *)

Build(new) ==
  /\ main = "build" /\ settings' = new
  /\ UNCHANGED <<args, main, part, closer, cluster, runs>>

Raft(d) == Build([settings EXCEPT !.protocols[d] = @ \cup {"raft"}])
NOPaxos(d) == Build([settings EXCEPT !.protocols[d] = @ \cup {"nopaxos"}])

SetCoreReplicas(s, n) == s \in Core /\ Build([settings EXCEPT !.replicas[s] = n])
SetAppReplicas(s, n) == s \in Apps /\ Build([settings EXCEPT !.replicas[s] = n])

(* Secrets of an app, of which only matters whether there are any.         *)
SetSecrets(s, any) ==
  s \in Apps /\ Build([settings EXCEPT !.secrets = IF any THEN @ \cup {s} ELSE @ \ {s}])
AddSecret(s) == s \in Apps /\ Build([settings EXCEPT !.secrets = @ \cup {s}])

SetEnabled == Build([settings EXCEPT !.cliEnabled = TRUE])

StartSetup ==
  /\ main = "build" /\ main' = "databaseCRD"
  /\ UNCHANGED <<inputs, part, closer, cluster, runs>>

(* GetArg(...).Int and Bool: an argument overrides what was set.           *)
GetArg(arg, set) == IF arg = {} THEN set ELSE CHOOSE v \in arg : TRUE

Replicas(s) == GetArg(args.replicas[s], settings.replicas[s])

Enabled == GetArg(args.cliEnabled, settings.cliEnabled)

(* What each part creates.                                                 *)
ServiceObjects(s) ==
  {<<"service", s>>, <<"deployment", s>>}
    \cup (IF s \in settings.secrets THEN {<<"secret", s>>} ELSE {})
CLIObjects == {<<"configMap", CLI>>, <<"deployment", CLI>>}
Requested(p) ==
  CASE p \in Services -> IF Replicas(p) = 0 THEN {} ELSE ServiceObjects(p)
    [] p \in Databases -> {<<"database", p>>}
    [] p = CLI -> IF Enabled THEN CLIObjects ELSE {}

-----------------------------------------------------------------------------
(* The Atomix controller.                                                  *)

MainTo(step) == main' = step /\ UNCHANGED <<inputs, part, closer, runs>>

(* A CustomResourceDefinition may be there already.                        *)
CreateCRD(crd, next) ==
  /\ main = crd
  /\ \/ objects' = objects \cup {<<crd, Atomix>>} /\ MainTo(next)
     \/ objects' \in {objects, objects \cup {<<crd, Atomix>>}} /\ MainTo("error")
  /\ UNCHANGED ready

CreateDatabaseResource == CreateCRD("databaseCRD", "clusterCRD")
CreateClusterResource == CreateCRD("clusterCRD", "partitionCRD")
CreatePartitionResource == CreateCRD("partitionCRD", "deployment")

(* Create an object that must not be there.                                *)
Create(kind, owner) ==
  <<kind, owner>> \notin objects /\ objects' = objects \cup {<<kind, owner>>}
CreateFails(kind, owner) == Create(kind, owner) \/ UNCHANGED objects

AtomixDeployment ==
  /\ main = "deployment"
  /\ \/ Create("deployment", Atomix) /\ MainTo("service")
     \/ CreateFails("deployment", Atomix) /\ MainTo("error")
  /\ UNCHANGED ready

AtomixService ==
  /\ main = "service"
  /\ \/ Create("service", Atomix) /\ MainTo("await")
     \/ CreateFails("service", Atomix) /\ MainTo("error")
  /\ UNCHANGED ready

(* The deployment was created under Name() and is awaited under name: with *)
(* an argument for the name it is not found.                               *)
AwaitNoController ==
  main = "await" /\ ~args.atomixName /\ MainTo("setupServices") /\ UNCHANGED cluster
AwaitController ==
  /\ main = "await" /\ ~args.atomixName /\ Atomix \in ready
  /\ MainTo("setupServices")
  /\ UNCHANGED cluster

AwaitControllerFails == main = "await" /\ MainTo("error") /\ UNCHANGED cluster

-----------------------------------------------------------------------------
(* The goroutines.                                                         *)

(* One goroutine per part and the closer: each waits for nothing that Setup*)
(* still does in starting the others.                                      *)
SetupServices ==
  /\ main = "setupServices"
  /\ main' = "range"
  /\ part' = [p \in Parts |-> "setup"]
  /\ closer' = "wait"
  /\ UNCHANGED <<inputs, cluster, runs>>

PartTo(p, step) ==
  part' = [part EXCEPT ![p] = step] /\ UNCHANGED <<inputs, main, closer, runs>>

(* A part with nothing to set up, and a database of no known protocol.     *)
SetupNothing(p) ==
  /\ part[p] = "setup" /\ Requested(p) = {}
  /\ PartTo(p, "done")
  /\ UNCHANGED cluster

UnknownProtocol(d) ==
  /\ part[d] = "setup" /\ settings.protocols[d] = {}
  /\ PartTo(d, "send")
  /\ UNCHANGED cluster

CreateObject(p, from, kind, next) ==
  /\ part[p] = from /\ <<kind, p>> \in Requested(p)
  /\ \/ Create(kind, p) /\ PartTo(p, next)
     \/ CreateFails(kind, p) /\ PartTo(p, "send")
  /\ UNCHANGED ready

CreateRaftDatabase(d) ==
  /\ "raft" \in settings.protocols[d]
  /\ CreateObject(d, "setup", "database", "await")

(* A database with both protocols gets Raft.                               *)
CreateNOPaxosDatabase(d) ==
  /\ settings.protocols[d] = {"nopaxos"}
  /\ CreateObject(d, "setup", "database", "await")

CreateServiceWithoutSecret(s) == CreateObject(s, "setup", "service", "deployment")
CreateService(s) ==
  CreateObject(s, "setup", "service",
               IF s \in settings.secrets THEN "secret" ELSE "deployment")

CreateSecret(s) == CreateObject(s, "secret", "secret", "deployment")

CreateDeployment(s) == CreateObject(s, "deployment", "deployment", "await")

CreateCLIConfigMap == CreateObject(CLI, "setup", "configMap", "deployment")

CreateCLIDeploymentLast == CreateObject(CLI, "deployment", "deployment", "close")
CreateCLIDeployment == CreateObject(CLI, "deployment", "deployment", "await")

AwaitReady(p) ==
  /\ part[p] = "await" /\ p \in ready
  /\ PartTo(p, "done")
  /\ UNCHANGED cluster

AwaitRaftDatabase(d) == "raft" \in settings.protocols[d] /\ AwaitReady(d)
AwaitNOPaxosDatabase(d) == settings.protocols[d] = {"nopaxos"} /\ AwaitReady(d)
AwaitService(s) == AwaitReady(s)

(* CLI.AwaitReady asks what was set, not Enabled(): a CLI that an argument *)
(* enables is not waited for.                                              *)
AwaitCLI ==
  /\ part[CLI] = "await" /\ (settings.cliEnabled => CLI \in ready)
  /\ PartTo(CLI, "done")
  /\ UNCHANGED cluster

AwaitFails(p) == part[p] = "await" /\ PartTo(p, "send") /\ UNCHANGED cluster

(* The closer waits until every goroutine has called wg.Done, which is     *)
(* after its error has been received; SetUp's range over errCh then ends.  *)
CloseBeforeSends ==
  /\ closer = "wait" /\ \A p \in Parts : part[p] \in {"send", "done"}
  /\ closer' = "closed"
  /\ UNCHANGED <<inputs, main, part, cluster, runs>>
Close ==
  /\ closer = "wait" /\ \A p \in Parts : part[p] = "done"
  /\ closer' = "closed"
  /\ UNCHANGED <<inputs, main, part, cluster, runs>>

ReturnFirstError(p) ==
  /\ main = "range" /\ part[p] = "send"
  /\ main' = "error"
  /\ part' = [part EXCEPT ![p] = "done"]
  /\ UNCHANGED <<inputs, closer, cluster, runs>>

ReturnNil == main = "range" /\ closer = "closed" /\ MainTo("nil") /\ UNCHANGED cluster

-----------------------------------------------------------------------------
(* The world around: the process ends with its goroutines, and the same    *)
(* command is run again, on the objects it left or in a new namespace (the *)
(* definitions stay).                                                      *)
Rerun ==
  /\ main \in {"nil", "error"} /\ runs < MaxRuns
  /\ runs' = runs + 1
  /\ main' = "databaseCRD"
  /\ part' = [p \in Parts |-> "done"]
  /\ closer' = "closed"
  /\ UNCHANGED inputs
  /\ \/ UNCHANGED cluster
     \/ objects' = objects \cap (CRDs \X {Atomix}) /\ ready' = {}

(* Pods start when what they mount exists, databases when the controller   *)
(* runs.                                                                   *)
CanStart(p) ==
  /\ <<"deployment", p>> \in objects \/ <<"database", p>> \in objects
  /\ p \in Databases => Atomix \in ready
  /\ p \in settings.secrets => <<"secret", p>> \in objects
  /\ p = CLI => <<"configMap", p>> \in objects

BecomeReady(p) ==
  /\ p \notin ready /\ CanStart(p)
  /\ ready' = ready \cup {p}
  /\ UNCHANGED <<inputs, main, part, closer, objects, runs>>

-----------------------------------------------------------------------------
BuildStep ==
  \/ \E d \in Databases : Raft(d) \/ NOPaxos(d)
  \/ \E s \in Services, n \in 0 .. MaxReplicas : SetCoreReplicas(s, n) \/ SetAppReplicas(s, n)
  \/ \E s \in Services : AddSecret(s) \/ \E any \in BOOLEAN : SetSecrets(s, any)
  \/ SetEnabled \/ StartSetup
AtomixStep ==
  \/ CreateDatabaseResource \/ CreateClusterResource \/ CreatePartitionResource
  \/ AtomixDeployment \/ AtomixService \/ AwaitController
SetupStep == SetupServices \/ Close \/ ReturnNil
DatabaseStep(d) ==
  \/ UnknownProtocol(d) \/ CreateRaftDatabase(d) \/ CreateNOPaxosDatabase(d)
  \/ AwaitRaftDatabase(d) \/ AwaitNOPaxosDatabase(d)
ServiceStep(s) ==
  CreateService(s) \/ CreateSecret(s) \/ CreateDeployment(s) \/ AwaitService(s)
CLIStep == CreateCLIConfigMap \/ CreateCLIDeployment \/ AwaitCLI
PartStep(p) == SetupNothing(p) \/ ReturnFirstError(p)

Next ==
  \/ BuildStep \/ AtomixStep \/ AwaitControllerFails \/ SetupStep \/ CLIStep \/ Rerun
  \/ \E d \in Databases : DatabaseStep(d)
  \/ \E s \in Services : ServiceStep(s)
  \/ \E p \in Parts : PartStep(p) \/ AwaitFails(p)
  \/ \E p \in Parts \cup {Atomix} : BecomeReady(p)

(* Goroutines that can go on do, and what can start becomes ready.  No     *)
(* poll is forced to fail, no process to be run again.                     *)
Fairness ==
  /\ WF_vars(AtomixStep) /\ WF_vars(SetupStep) /\ WF_vars(CLIStep)
  /\ \A d \in Databases : WF_vars(DatabaseStep(d))
  /\ \A s \in Services : WF_vars(ServiceStep(s))
  /\ \A p \in Parts : WF_vars(PartStep(p))
  /\ \A p \in Parts \cup {Atomix} : WF_vars(BecomeReady(p))
  /\ WF_vars(main = "await" /\ args.atomixName /\ AwaitControllerFails)

Spec == Init /\ [][Next]_vars /\ Fairness

-----------------------------------------------------------------------------
(* Setup returns no error only when every part it was asked for is there,  *)
(* created and ready - whatever an earlier run left, in whichever order    *)
(* the goroutines met their errors (setup.go).  The one exception is a CLI *)
(* that only an argument enables, which Setup does not wait for.           *)
Awaited(p) == Requested(p) # {} /\ (p = CLI => settings.cliEnabled)
NilMeansUp ==
  main = "nil" =>
    /\ \A p \in Parts : Requested(p) \subseteq objects /\ (Awaited(p) => p \in ready)
    /\ \A d \in Databases : settings.protocols[d] # {}

(* No part of the cluster is created before the definitions of the Atomix  *)
(* resources exist and their controller runs.                              *)
ControllerFirst ==
  (\E o \in objects : o[2] \in Parts) =>
    Atomix \in ready /\ CRDs \X {Atomix} \subseteq objects

(* Setup returns, with or without an error, although goroutines may block  *)
(* for ever on the error channel once it has.                              *)
SetupReturns == (main = "databaseCRD") ~> (main \in {"nil", "error"})
===============================================================================
