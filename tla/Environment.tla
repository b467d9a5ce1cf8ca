----------------------------- MODULE Environment ------------------------------
(***************************************************************************)
(* pkg/onit/env and the resources of pkg/onit/cluster that are added and   *)
(* removed while the cluster runs: device simulators, networks of devices  *)
(* and apps.  A test adds simulators with AddAll, through a pool of        *)
(* goroutines; "onit add" and "onit remove" work on the same namespace.    *)
(*                                                                         *)
(* Setup creates the objects of a resource, waits for its pod and enters   *)
(* its devices in onos-topo; it returns the first error and leaves what it *)
(* has made.  TearDown undoes each step and goes on after an error.        *)
(*                                                                         *)
(* Kubernetes and onos-topo are external; a call may fail whether or not   *)
(* the server carried it out (a fault).                                    *)
(***************************************************************************)
EXTENDS Naturals, FiniteSets, Sequences, Functions

CONSTANTS
  Simulators, Networks, Apps,  \* names of the resources
  Topology,     \* Topology[n]: the topology that network n was set to
  ShortName,    \* ShortName[n]: the first twelve characters of its name
  Unlisted,     \* the simulators with SetAddDevice(false)
  Replicas,     \* Replicas[a]: the replicas of app a; NewApp() gives it 0
  Secretless,   \* the apps without secrets, as "onit add app" makes them
  Scenarios,    \* what may run together: [setups: the simulators AddAll adds,
                \* in their order; commands, targets: who works on what]
  Workers,      \* the goroutines of AddAll, simulatorQueueSize of them
  Commands,     \* the onit processes that add and remove
  MaxOps, MaxFaults  \* bounds on the commands and on the faults

Resources == Simulators \cup Networks \cup Apps
Procs == Workers \cup Commands
NoResource == "none"
RandomName == "random"

ASSUME ResourceAssumption ==
  /\ NoResource \notin Resources /\ RandomName \notin Resources
  /\ Simulators \cap Networks = {} /\ Simulators \cap Apps = {} /\ Networks \cap Apps = {}
  /\ Topology \in [Networks -> [type : {"single", "linear", "custom"}, devices : Nat]]
  /\ DOMAIN ShortName = Networks
  /\ Unlisted \subseteq Simulators
  /\ Replicas \in [Apps -> Nat] /\ Secretless \subseteq Apps
  /\ Scenarios \subseteq
       [setups : Seq(Simulators), commands : SUBSET Commands, targets : SUBSET Resources]
ASSUME ProcAssumption ==
  Workers \cap Commands = {} /\ IsFiniteSet(Workers) /\ Workers # {}
ASSUME BoundAssumption == MaxOps \in Nat /\ MaxFaults \in Nat

(* The builders of a topology, and the names getDeviceNames makes of it:   *)
(* networks whose names begin alike share them.                            *)
NewNetwork == [type |-> "single", devices |-> 0]
SetSingle(network) == [network EXCEPT !.type = "single"]
SetLinear(network, n) == [network EXCEPT !.type = "linear", !.devices = n]
SetTopo(network, n) == [network EXCEPT !.type = "custom", !.devices = n]
GetNumDevices(n) == IF Topology[n].type = "single" THEN 1 ELSE Topology[n].devices
DeviceNames(n) == {<<ShortName[n], i>> : i \in 0 .. GetNumDevices(n) - 1}

(* The names of simulators and apps are chosen apart from those.           *)
ASSUME NameAssumption ==
  \A n \in Networks : DeviceNames(n) \cap (Simulators \cup Apps) = {}

VARIABLES
  scenario,    \* the one that runs
  main,        \* where AddAll is
  todo,        \* the setups no goroutine has taken
  envs,        \* number of simulators in envCh
  proc,        \* proc[p]: what p does: its next call, the resource, the
               \* devices it still has to handle, TearDown's error, no fault
  owner,       \* owner[<<kind, name>>]: the name an object is labelled with
  pod,         \* pod[r]: state of the pod, or of the deployment of an app
  registered,  \* names of the devices in onos-topo
  faults, ops, \* how many so far
  up,          \* resources whose Setup returned nil, no TearDown since
  gone,        \* resources whose TearDown met no fault, no Setup since
  reported,    \* resources of which an operation returned an error
  disturbed    \* resources two operations worked on at the same time

pool == <<scenario, main, todo, envs>>
world == <<owner, pod, registered>>
history == <<up, gone, reported, disturbed>>
vars == <<pool, proc, world, faults, ops, history>>

Idle == [at |-> "idle", target |-> NoResource, left |-> {}, failed |-> FALSE, clean |-> TRUE]
AddSteps == {"createConfigMap", "createPod", "createService", "createServices", "createSecret",
             "createDeployment", "awaitReady", "addDevice", "listDevices", "addDevices"}
RemoveSteps == {"getDevice", "removeDevice", "listToRemove", "getDevices", "removeDevices",
                "deletePod", "deleteService", "deleteConfigMap", "openWatch", "watch",
                "watchEnds", "listServices", "deleteServices", "deleteDeployment",
                "deleteSecret"}
AwaitSteps == {"listen", "eof", "streamErr", "match", "otherMatch", "awaited"}
PoolSteps == {"idle", "sendErr", "sendEnv", "exited"}
ServiceNames == Simulators \cup Apps \cup UNION {DeviceNames(n) : n \in Networks}
Objects == ({"configMap"} \X Simulators) \cup ({"secret"} \X Apps)
             \cup ({"service"} \X ServiceNames)

TypeOK ==
  /\ scenario \in Scenarios
  /\ main \in {"start", "range", "nil", "error", "exited"}
  /\ todo \in Seq(Simulators) /\ envs \in 0 .. Len(scenario.setups)
  /\ proc \in [Procs -> [at : AddSteps \cup RemoveSteps \cup AwaitSteps \cup PoolSteps,
                         target : Resources \cup {NoResource},
                         left : SUBSET ServiceNames, failed : BOOLEAN, clean : BOOLEAN]]
  /\ DOMAIN owner \subseteq Objects /\ Range(owner) \subseteq Resources \cup {RandomName}
  /\ pod \in [Resources -> {"none", "starting", "ready", "terminating"}]
  /\ registered \subseteq ServiceNames
  /\ faults \in 0 .. MaxFaults /\ ops \in 0 .. MaxOps
  /\ \A s \in {up, gone, reported, disturbed} : s \subseteq Resources

Init ==
  /\ scenario \in Scenarios
  /\ main = "start" /\ todo = <<>> /\ envs = 0
  /\ proc = [p \in Procs |-> Idle]
  /\ owner = <<>> /\ pod = [r \in Resources |-> "none"] /\ registered = {}
  /\ faults = 0 /\ ops = 0
  /\ up = {} /\ gone = {} /\ reported = {} /\ disturbed = {}

-----------------------------------------------------------------------------
(* Operations and their steps.                                             *)

At(p, step) == proc[p].at = step
Target(p) == proc[p].target
ServicesOf(r) ==
  {d \in ServiceNames : <<"service", d>> \in DOMAIN owner /\ owner[<<"service", d>>] = r}

(* The labels follow SetName, but for those of an app: they are made with  *)
(* the random name that New gives it.                                      *)
Label(r) == IF r \in Apps THEN RandomName ELSE r

Disturb(r) ==
  disturbed' = IF \E q \in Procs : Target(q) = r THEN disturbed \cup {r} ELSE disturbed

Begin(p, r, step, left) ==
  /\ proc' = [proc EXCEPT ![p] = [Idle EXCEPT !.at = step, !.target = r, !.left = left]]
  /\ Disturb(r)
  /\ up' = up \ {r} /\ gone' = gone \ {r}
  /\ UNCHANGED <<world, faults, reported>>

(* A Setup that has nothing to do returns nil.                             *)
BeginNothing(p, r) ==
  /\ proc' = [proc EXCEPT ![p] = Idle]
  /\ Disturb(r)
  /\ up' = up \cup {r} /\ gone' = gone \ {r}
  /\ UNCHANGED <<world, faults, reported>>

Fault == faults < MaxFaults /\ faults' = faults + 1

(* Add returns: a goroutine of AddAll then sends what it got.              *)
AddReturns(p, err) ==
  /\ proc' = [proc EXCEPT ![p] =
       [Idle EXCEPT !.at = IF p \in Commands THEN "idle" ELSE IF err THEN "sendErr" ELSE "sendEnv"]]
  /\ IF err THEN reported' = reported \cup {Target(p)} /\ UNCHANGED up
            ELSE up' = up \cup {Target(p)} /\ UNCHANGED reported
  /\ UNCHANGED <<gone, disturbed>>

(* A call of Setup that succeeds, with what is left of its loop.           *)
Proceed(p, step, left) ==
  /\ IF step = "return" THEN AddReturns(p, FALSE)
       ELSE proc' = [proc EXCEPT ![p].at = step, ![p].left = left] /\ UNCHANGED history
  /\ UNCHANGED <<pool, ops>>

AddFails(p) == AddReturns(p, TRUE) /\ UNCHANGED <<pool, ops>>

(* A call of TearDown: its error is kept, the next call follows.           *)
TearDownGoesOn(p, step, left, err, fault) ==
  LET failed == proc[p].failed \/ err
      clean == proc[p].clean /\ ~fault
      r == Target(p)
  IN /\ IF step = "return"
          THEN /\ proc' = [proc EXCEPT ![p] = Idle]
               /\ gone' = IF clean THEN gone \cup {r} ELSE gone
               /\ reported' = IF failed THEN reported \cup {r} ELSE reported
               /\ UNCHANGED <<up, disturbed>>
          ELSE /\ proc' = [proc EXCEPT ![p].at = step, ![p].left = left,
                                       ![p].failed = failed, ![p].clean = clean]
               /\ UNCHANGED history
     /\ IF fault THEN Fault ELSE UNCHANGED faults
     /\ UNCHANGED <<pool, ops>>

(* Kubernetes' create and delete of a configMap, secret or service.        *)
Make(o, label) ==
  /\ o \notin DOMAIN owner
  /\ owner' = [x \in DOMAIN owner \cup {o} |-> IF x = o THEN label ELSE owner[x]]
  /\ UNCHANGED <<pod, registered>>
Unmake(o) ==
  /\ o \in DOMAIN owner /\ owner' = Restrict(owner, DOMAIN owner \ {o})
  /\ UNCHANGED <<pod, registered>>

CreateUnlabelled(p, o, next, left) ==
  \/ Make(o, NoResource) /\ Proceed(p, next, left) /\ UNCHANGED faults
  \/ o \in DOMAIN owner /\ AddFails(p) /\ UNCHANGED <<world, faults>>
Create(p, o, next, left) ==
  \/ Make(o, Label(Target(p))) /\ Proceed(p, next, left) /\ UNCHANGED faults
  \/ o \in DOMAIN owner /\ AddFails(p) /\ UNCHANGED <<world, faults>>
  \/ Fault /\ (Make(o, Label(Target(p))) \/ UNCHANGED world) /\ AddFails(p)

Delete(p, o, next) ==
  \/ Unmake(o) /\ TearDownGoesOn(p, next, {}, FALSE, FALSE)
  \/ o \notin DOMAIN owner /\ UNCHANGED world /\ TearDownGoesOn(p, next, {}, TRUE, FALSE)
  \/ (Unmake(o) \/ UNCHANGED world) /\ TearDownGoesOn(p, next, {}, TRUE, TRUE)

SetPod(r, from, to) ==
  pod[r] \in from /\ pod' = [pod EXCEPT ![r] = to] /\ UNCHANGED <<owner, registered>>

(* Create of a pod or deployment; a terminating pod still has its name.    *)
CreateWorkload(p, next, left) ==
  \/ SetPod(Target(p), {"none"}, "starting") /\ Proceed(p, next, left) /\ UNCHANGED faults
  \/ pod[Target(p)] # "none" /\ AddFails(p) /\ UNCHANGED <<world, faults>>
  \/ Fault /\ (SetPod(Target(p), {"none"}, "starting") \/ UNCHANGED world) /\ AddFails(p)

(* Delete of a pod, which terminates, or of a deployment.                  *)
DeleteWorkload(p, to, next) ==
  LET deleted == SetPod(Target(p), {"starting", "ready", "terminating"}, to)
  IN \/ deleted /\ TearDownGoesOn(p, next, {}, FALSE, FALSE)
     \/ pod[Target(p)] = "none" /\ UNCHANGED world /\ TearDownGoesOn(p, next, {}, TRUE, FALSE)
     \/ (deleted \/ UNCHANGED world) /\ TearDownGoesOn(p, next, {}, TRUE, TRUE)

(* The poll: a pod that is gone is an error, one that is not ready is      *)
(* polled again; one that terminates may still be ready.                   *)
Await(p, next) ==
  /\ At(p, "awaitReady") /\ UNCHANGED world
  /\ \/ pod[Target(p)] \in {"ready", "terminating"} /\ Proceed(p, next, {}) /\ UNCHANGED faults
     \/ pod[Target(p)] = "none" /\ AddFails(p) /\ UNCHANGED faults
     \/ Fault /\ AddFails(p)

(* onos-topo: Add of a device that is there may fail.                      *)
TopoAdd(p, d, next, left) ==
  /\ UNCHANGED <<owner, pod>>
  /\ \/ registered' = registered \cup {d} /\ Proceed(p, next, left) /\ UNCHANGED faults
     \/ d \in registered /\ UNCHANGED <<registered, faults>> /\ AddFails(p)
     \/ Fault /\ registered' \in {registered, registered \cup {d}} /\ AddFails(p)

TopoGet(p, d, found, missing, left) ==
  /\ UNCHANGED world
  /\ \/ d \in registered /\ TearDownGoesOn(p, found, proc[p].left, FALSE, FALSE)
     \/ d \notin registered /\ TearDownGoesOn(p, missing, left, TRUE, FALSE)
     \/ TearDownGoesOn(p, missing, left, TRUE, TRUE)

TopoRemove(p, d, next, left) ==
  /\ UNCHANGED <<owner, pod>>
  /\ \/ registered' = registered \ {d} /\ TearDownGoesOn(p, next, left, FALSE, FALSE)
     \/ registered' \in {registered, registered \ {d}} /\ TearDownGoesOn(p, next, left, TRUE, TRUE)

(* The next device of a list, which keeps the order of the API server.     *)
First(S) == CHOOSE d \in S : TRUE
Loop(step, left, next) == IF left = {} THEN next ELSE step

-----------------------------------------------------------------------------
(* Simulators.                                                             *)

IsSimulator(p) == Target(p) \in Simulators

SetupSimulator(p, r) == r \in Simulators /\ Begin(p, r, "createConfigMap", {})
TearDownSimulator(p, r) == r \in Simulators /\ Begin(p, r, "getDevice", {})

(* Of what can be set before, only SetAddDevice changes what is called.    *)
AddsDevice(r) == r \notin Unlisted

CreateConfigMap(p) ==
  At(p, "createConfigMap") /\ Create(p, <<"configMap", Target(p)>>, "createPod", {})

CreateSimulatorPod(p) ==
  At(p, "createPod") /\ IsSimulator(p) /\ CreateWorkload(p, "createService", {})

CreateSimulatorService(p) ==
  At(p, "createService") /\ IsSimulator(p) /\ Create(p, <<"service", Target(p)>>, "awaitReady", {})

AwaitSimulator(p) ==
  IsSimulator(p) /\ Await(p, IF AddsDevice(Target(p)) THEN "addDevice" ELSE "return")

AddDevice(p) == At(p, "addDevice") /\ TopoAdd(p, Target(p), "return", {})

(* The handle of a command is a fresh one: it looks for every device.      *)
GetDeviceQuietly(p) ==
  /\ At(p, "getDevice") /\ UNCHANGED world
  /\ \/ TearDownGoesOn(p, "removeDevice", {}, FALSE, FALSE)
     \/ TearDownGoesOn(p, "deletePod", {}, FALSE, TRUE)
GetDevice(p) == At(p, "getDevice") /\ TopoGet(p, Target(p), "removeDevice", "deletePod", {})
RemoveDevice(p) == At(p, "removeDevice") /\ TopoRemove(p, Target(p), "deletePod", {})

DeleteSimulatorPod(p) ==
  At(p, "deletePod") /\ IsSimulator(p) /\ DeleteWorkload(p, "terminating", "deleteService")

DeleteSimulatorService(p) ==
  /\ At(p, "deleteService") /\ IsSimulator(p)
  /\ Delete(p, <<"service", Target(p)>>, "deleteConfigMap")

DeleteConfigMap(p) ==
  At(p, "deleteConfigMap") /\ Delete(p, <<"configMap", Target(p)>>, "openWatch")

(* The watch is opened after the pod was deleted and tells of every pod:   *)
(* it ends with the next one that is gone, or when the server ends it.     *)
WaitForDeletePod(p) ==
  /\ UNCHANGED world
  /\ \/ At(p, "openWatch") /\ TearDownGoesOn(p, "watch", {}, FALSE, FALSE)
     \/ At(p, "openWatch") /\ TearDownGoesOn(p, "return", {}, TRUE, TRUE)
     \/ proc[p].at \in {"watch", "watchEnds"} /\ TearDownGoesOn(p, "return", {}, FALSE, FALSE)

-----------------------------------------------------------------------------
(* Networks: one pod, one service per device.                              *)

IsNetwork(p) == Target(p) \in Networks

GetDevicePorts(n) == DeviceNames(n)

SetupNetwork(p, r) == r \in Networks /\ Begin(p, r, "createPod", GetDevicePorts(r))
TearDownNetwork(p, r) == r \in Networks /\ Begin(p, r, "listToRemove", {})

CreateNetworkPod(p) ==
  At(p, "createPod") /\ IsNetwork(p)
    /\ CreateWorkload(p, Loop("createServices", proc[p].left, "awaitReady"), proc[p].left)

(* In the order of a Go map.                                               *)
CreateOrTakeServices(p) ==
  /\ At(p, "createServices")
  /\ \E d \in proc[p].left :
       LET left == proc[p].left \ {d}
           next == Loop("createServices", left, "awaitReady")
       IN \/ Create(p, <<"service", d>>, next, left)
          \/ <<"service", d>> \in DOMAIN owner /\ Proceed(p, next, left)
               /\ UNCHANGED <<world, faults>>
CreateServices(p) ==
  /\ At(p, "createServices")
  /\ \E d \in proc[p].left :
       LET left == proc[p].left \ {d}
       IN Create(p, <<"service", d>>, Loop("createServices", left, "awaitReady"), left)

AwaitNetwork(p) == IsNetwork(p) /\ Await(p, "listDevices")

(* Devices(): the services labelled with the network.                      *)
AddDevices(p) ==
  \/ /\ At(p, "listDevices") /\ UNCHANGED world
     /\ \/ LET left == ServicesOf(Target(p))
           IN Proceed(p, Loop("addDevices", left, "return"), left) /\ UNCHANGED faults
        \/ Fault /\ AddFails(p)
  \/ /\ At(p, "addDevices")
     /\ LET d == First(proc[p].left)
            left == proc[p].left \ {d}
        IN TopoAdd(p, d, Loop("addDevices", left, "return"), left)

RemoveDevices(p) ==
  \/ /\ At(p, "listToRemove") /\ UNCHANGED world
     /\ \/ LET left == ServicesOf(Target(p))
           IN TearDownGoesOn(p, Loop("getDevices", left, "deletePod"), left, FALSE, FALSE)
        \/ TearDownGoesOn(p, "deletePod", {}, TRUE, TRUE)
  \/ /\ proc[p].at \in {"getDevices", "removeDevices"}
     /\ LET d == First(proc[p].left)
            left == proc[p].left \ {d}
            next == Loop("getDevices", left, "deletePod")
        IN \/ At(p, "getDevices") /\ TopoGet(p, d, "removeDevices", next, left)
           \/ At(p, "removeDevices") /\ TopoRemove(p, d, next, left)

DeleteNetworkPod(p) ==
  At(p, "deletePod") /\ IsNetwork(p) /\ DeleteWorkload(p, "terminating", "listServices")

(* The error of the list is dropped.                                       *)
ListServices(p) ==
  /\ At(p, "listServices") /\ UNCHANGED world
  /\ \/ LET left == ServicesOf(Target(p))
        IN TearDownGoesOn(p, Loop("deleteServices", left, "return"), left, FALSE, FALSE)
     \/ TearDownGoesOn(p, "return", {}, FALSE, TRUE)

(* The loop ends with the first error.                                     *)
DeleteListed(p, d, next, left) ==
  LET service == <<"service", d>>
  IN \/ Unmake(service) /\ TearDownGoesOn(p, next, left, FALSE, FALSE)
     \/ /\ service \notin DOMAIN owner /\ UNCHANGED world
        /\ TearDownGoesOn(p, "return", {}, TRUE, FALSE)
     \/ (Unmake(service) \/ UNCHANGED world) /\ TearDownGoesOn(p, "return", {}, TRUE, TRUE)

DeleteFirstService(p) ==
  At(p, "deleteServices") /\ DeleteListed(p, First(proc[p].left), "return", {})
DeleteServices(p) ==
  /\ At(p, "deleteServices")
  /\ LET d == First(proc[p].left)
         left == proc[p].left \ {d}
     IN DeleteListed(p, d, Loop("deleteServices", left, "return"), left)

-----------------------------------------------------------------------------
(* Apps: a service, a secret unless there is nothing for it, a deployment. *)

IsApp(p) == Target(p) \in Apps

SetupApp(p, r) ==
  /\ r \in Apps
  /\ \/ Replicas[r] > 0 /\ Begin(p, r, "createService", {})
     \/ Replicas[r] = 0 /\ BeginNothing(p, r)
TearDownApp(p, r) == r \in Apps /\ Begin(p, r, "deleteDeployment", {})

CreateAppService(p) ==
  At(p, "createService") /\ IsApp(p) /\ Create(p, <<"service", Target(p)>>, "createSecret", {})

CreateSecret(p) ==
  /\ At(p, "createSecret")
  /\ \/ /\ Target(p) \notin Secretless
        /\ Create(p, <<"secret", Target(p)>>, "createDeployment", {})
     \/ /\ Target(p) \in Secretless
        /\ Proceed(p, "createDeployment", {}) /\ UNCHANGED <<world, faults>>

CreateDeployment(p) == At(p, "createDeployment") /\ CreateWorkload(p, "awaitReady", {})

AwaitApp(p) == IsApp(p) /\ Await(p, "return")

DeleteDeployment(p) == At(p, "deleteDeployment") /\ DeleteWorkload(p, "none", "deleteService")

DeleteAppService(p) ==
  At(p, "deleteService") /\ IsApp(p) /\ Delete(p, <<"service", Target(p)>>, "deleteSecret")

(* The error is dropped.                                                   *)
DeleteSecret(p) ==
  /\ At(p, "deleteSecret")
  /\ LET secret == <<"secret", Target(p)>>
     IN \/ (Unmake(secret) \/ (secret \notin DOMAIN owner /\ UNCHANGED world))
             /\ TearDownGoesOn(p, "return", {}, FALSE, FALSE)
        \/ (Unmake(secret) \/ UNCHANGED world) /\ TearDownGoesOn(p, "return", {}, FALSE, TRUE)

-----------------------------------------------------------------------------
(* What the builders of pkg/onit/env add, the settings they carry being    *)
(* the constants here, and their handles remove.                           *)
AddSimulator(p, r) == SetupSimulator(p, r)
AddNetwork(p, r) == SetupNetwork(p, r)
AddApp(p, r) == SetupApp(p, r)
RemoveSimulator(p, r) == TearDownSimulator(p, r)
RemoveNetwork(p, r) == TearDownNetwork(p, r)
RemoveApp(p, r) == TearDownApp(p, r)

(* What "onit get" lists: simulators by their service, networks by their   *)
(* pod, apps by their deployment.                                          *)
listServices(labelled) == {r \in labelled : <<"service", r>> \in DOMAIN owner}
listPods(labelled) == {r \in labelled : pod[r] # "none"}
listDeployments(labelled) == {r \in labelled : pod[r] # "none"}
ListSimulators == listServices(Simulators)
ListNetworks == listPods(Networks)
ListApps == listDeployments(Apps)

-----------------------------------------------------------------------------
(* AddAll.                                                                 *)

EnvChannelOfOne == 1
EnvChannel == Len(scenario.setups)

AddAll ==
  /\ main = "start"
  /\ main' = "range" /\ todo' = scenario.setups
  /\ UNCHANGED <<scenario, envs, proc, world, faults, ops, history>>

(* A goroutine takes the next setup from the queue.                        *)
TakeSetup(p) ==
  /\ At(p, "idle") /\ todo # <<>>
  /\ todo' = Tail(todo)
  /\ AddSimulator(p, Head(todo))
  /\ UNCHANGED <<scenario, main, envs, ops>>

SendEnv(p) ==
  /\ At(p, "sendEnv") /\ envs < EnvChannel
  /\ envs' = envs + 1
  /\ proc' = [proc EXCEPT ![p] = Idle]
  /\ UNCHANGED <<scenario, main, todo, world, faults, ops, history>>

(* errCh is not buffered; AddAll returns with the first error.             *)
ReceiveErr(p) ==
  /\ main = "range" /\ At(p, "sendErr")
  /\ main' = "error"
  /\ proc' = [proc EXCEPT ![p] = Idle]
  /\ UNCHANGED <<scenario, todo, envs, world, faults, ops, history>>

(* Every setup is done: the channels are closed, the simulators collected. *)
CloseChannels ==
  /\ main = "range" /\ todo = <<>> /\ \A p \in Workers : At(p, "idle")
  /\ main' = "nil"
  /\ UNCHANGED <<scenario, todo, envs, proc, world, faults, ops, history>>

(* AddAllOrDie panics: the process ends, its goroutines wherever they are. *)
Die ==
  /\ main = "error" /\ main' = "exited"
  /\ todo' = <<>>
  /\ proc' = [p \in Procs |-> IF p \in Workers THEN [Idle EXCEPT !.at = "exited"] ELSE proc[p]]
  /\ UNCHANGED <<scenario, envs, world, faults, ops, history>>

-----------------------------------------------------------------------------
(* The commands, and the world around.                                     *)

Command(p) == proc[p].at \in {"idle", "awaited"} /\ ops < MaxOps /\ ops' = ops + 1 /\ UNCHANGED pool

RunAddSimulatorCommand(p, r) == Command(p) /\ AddSimulator(p, r)
RunAddNetworkCommand(p, r) == Command(p) /\ AddNetwork(p, r)
RunAddAppCommand(p, r) == Command(p) /\ AddApp(p, r)
RunRemoveSimulatorCommand(p, r) == Command(p) /\ RemoveSimulator(p, r)
RunRemoveNetworkCommand(p, r) == Command(p) /\ RemoveNetwork(p, r)
RunRemoveAppCommand(p, r) == Command(p) /\ RemoveApp(p, r)

(* A test kills the pod of a resource; the deployment of an app makes a    *)
(* new one.                                                                *)
Kill(p, r) ==
  /\ Command(p)
  /\ SetPod(r, {"starting", "ready"}, IF r \in Apps THEN "starting" ELSE "terminating")
  /\ up' = up \ {r} /\ Disturb(r)
  /\ UNCHANGED <<proc, faults, gone, reported>>

(* A pod starts when what it mounts exists.                                *)
PodReady(r) ==
  /\ r \in Simulators => <<"configMap", r>> \in DOMAIN owner
  /\ r \in Apps \ Secretless => <<"secret", r>> \in DOMAIN owner
  /\ SetPod(r, {"starting"}, "ready")
  /\ UNCHANGED <<pool, proc, faults, ops, history>>

(* The last of a pod; the watches of all pods tell of it.                  *)
PodGone(r) ==
  /\ SetPod(r, {"terminating"}, "none")
  /\ proc' = [p \in Procs |->
       IF At(p, "watch") THEN [proc[p] EXCEPT !.at = "watchEnds"] ELSE proc[p]]
  /\ UNCHANGED <<pool, faults, ops, history>>

-----------------------------------------------------------------------------
(* A test awaits the device of a simulator: a goroutine receives from a    *)
(* stream of onos-topo while the caller selects between a timer and the    *)
(* channel errCh.  Both are made anew by each call; a goroutine that stays *)
(* behind when its caller has returned touches nothing else.               *)

Listener(p, to) ==
  /\ proc' = [proc EXCEPT ![p].at = to]
  /\ UNCHANGED <<pool, world, ops, history>>

AwaitReturns(p, at) ==
  /\ proc' = [proc EXCEPT ![p] = [Idle EXCEPT !.at = at]]
  /\ UNCHANGED <<pool, world, ops, history>>

AwaitDevice(p, r) ==
  /\ r \in Simulators /\ Command(p)
  /\ \/ /\ proc' = [proc EXCEPT ![p] = [Idle EXCEPT !.at = "listen", !.left = {r}]]
        /\ UNCHANGED faults
     \/ Fault /\ proc' = [proc EXCEPT ![p] = Idle]
  /\ UNCHANGED <<world, history>>

(* The stream tells of all devices, and the predicate judges each: only    *)
(* the model knows whether it was given the simulator's.                   *)
Recv(p) ==
  /\ At(p, "listen") /\ UNCHANGED faults
  /\ \E d \in registered : Listener(p, IF d \in proc[p].left THEN "match" ELSE "otherMatch")

(* At the end of the stream the goroutine breaks off and tells nobody.     *)
StreamEnds(p) == At(p, "listen") /\ Fault /\ (Listener(p, "eof") \/ Listener(p, "streamErr"))

(* Nobody closes the timer's channel, so that its ok is true: nil.         *)
TimerFires(p) ==
  /\ proc[p].at \in {"listen", "eof", "streamErr"} /\ AwaitReturns(p, "awaited")
  /\ UNCHANGED faults

(* A closed errCh gives nil; a timer that fires now gives the same.        *)
SelectErrCh(p) ==
  /\ \/ proc[p].at \in {"match", "otherMatch"} /\ AwaitReturns(p, "awaited")
     \/ At(p, "streamErr") /\ AwaitReturns(p, "idle")
  /\ UNCHANGED faults

-----------------------------------------------------------------------------
SimulatorStep(p) ==
  \/ CreateConfigMap(p) \/ CreateSimulatorPod(p) \/ CreateSimulatorService(p)
  \/ AwaitSimulator(p) \/ AddDevice(p)
  \/ GetDevice(p) \/ RemoveDevice(p) \/ DeleteSimulatorPod(p) \/ DeleteSimulatorService(p)
  \/ DeleteConfigMap(p) \/ WaitForDeletePod(p)
NetworkStep(p) ==
  \/ CreateNetworkPod(p) \/ CreateServices(p) \/ AwaitNetwork(p) \/ AddDevices(p)
  \/ RemoveDevices(p) \/ DeleteNetworkPod(p) \/ ListServices(p)
  \/ DeleteServices(p)
AppStep(p) ==
  \/ CreateAppService(p) \/ CreateSecret(p) \/ CreateDeployment(p) \/ AwaitApp(p)
  \/ DeleteDeployment(p) \/ DeleteAppService(p) \/ DeleteSecret(p)
CommandStep(p, r) ==
  \/ RunAddSimulatorCommand(p, r) \/ RunRemoveSimulatorCommand(p, r)
  \/ RunAddNetworkCommand(p, r) \/ RunRemoveNetworkCommand(p, r)
  \/ RunAddAppCommand(p, r) \/ RunRemoveAppCommand(p, r)
  \/ Kill(p, r) \/ AwaitDevice(p, r)
AwaitStep(p) == Recv(p) \/ StreamEnds(p) \/ TimerFires(p) \/ SelectErrCh(p)
WorkerStep(p) == TakeSetup(p) \/ SimulatorStep(p) \/ SendEnv(p) \/ ReceiveErr(p)

Next ==
  \/ AddAll \/ CloseChannels \/ Die
  \/ \E p \in Workers : WorkerStep(p)
  \/ \E p \in Commands : SimulatorStep(p) \/ NetworkStep(p) \/ AppStep(p) \/ AwaitStep(p)
  \/ \E p \in scenario.commands, r \in scenario.targets : CommandStep(p, r)
  \/ \E r \in Resources : PodReady(r) \/ PodGone(r)

(* The goroutines of AddAll go on, and pods that can start do.             *)
Fairness ==
  /\ WF_vars(CloseChannels) /\ \A p \in Workers : WF_vars(WorkerStep(p))
  /\ \A r \in Resources : WF_vars(PodReady(r)) /\ WF_vars(PodGone(r))

Spec == Init /\ [][Next]_vars /\ Fairness

-----------------------------------------------------------------------------
(* The objects of a resource beside its pod; those that its Setup makes.   *)
Parts(r) ==
  CASE r \in Simulators -> {<<"configMap", r>>, <<"service", r>>}
    [] r \in Networks -> {<<"service", d>> : d \in DeviceNames(r)}
    [] r \in Apps -> {<<"service", r>>, <<"secret", r>>}
Made(r) == IF r \in Secretless THEN {<<"service", r>>} ELSE Parts(r)
Devices(r) ==
  IF r \in Networks THEN DeviceNames(r) ELSE IF r \in Simulators THEN {r} ELSE {}
Listed == ListSimulators \cup ListNetworks \cup ListApps

(* Two operations at the same time on one network may also disturb another *)
(* that has a device of the same name: the slower one deletes by name what *)
(* was the network's when it asked for the list, and may be the other's.   *)
Sharing(r) == {s \in Resources : s = r \/ Devices(s) \cap Devices(r) # {}}
Undisturbed == {r \in Resources : Sharing(r) \cap disturbed = {}}

(* The apps of which Setup makes nothing.                                  *)
NoReplicas == {a \in Apps : Replicas[a] = 0}

(* What Setup returned nil for is there, whole, under the labels that it   *)
(* gave it, with its devices in onos-topo and its name listed, until its   *)
(* TearDown begins or its pod is killed: whatever failed before, and       *)
(* although networks may want the same service names.  An app without      *)
(* replicas is excepted: Setup returns nil and makes nothing of it.        *)
AddedIsUp ==
  \A r \in (up \cap Undisturbed) \ NoReplicas :
    /\ pod[r] = "ready" /\ r \in Listed
    /\ \A o \in Made(r) : o \in DOMAIN owner /\ owner[o] = Label(r)
    /\ AddsDevice(r) => Devices(r) \subseteq registered

(* TearDown without a fault leaves nothing of the resource but a pod that  *)
(* terminates, whatever an earlier Setup or TearDown that failed, or a     *)
(* process that ended, had left of it - although it returns an error when  *)
(* something is missing.  The devices of a network are not meant, although *)
(* "to remove a network and all its devices, simply call Remove()"         *)
(* (docs/testing.md:322): once a TearDown has failed to list or to remove  *)
(* them and has deleted the services, the next one finds none of them and  *)
(* may return nil.  OrphanIsReported says what holds of them.              *)
RemoveLeavesNothing ==
  \A r \in gone \cap Undisturbed :
    /\ pod[r] \in {"none", "terminating"} /\ (r \in Listed => r \in Networks)
    /\ \A o \in DOMAIN owner : owner[o] # r
    /\ r \in Apps => Parts(r) \cap DOMAIN owner = {}
    /\ r \in Simulators => r \notin registered

(* A device stays in onos-topo without its service only if some command    *)
(* about its resource, not necessarily the last, has returned an error.    *)
OrphanIsReported ==
  \A d \in registered :
    \/ <<"service", d>> \in DOMAIN owner
    \/ \E r \in Resources :
         /\ d \in Devices(r)
         /\ r \in reported \cup disturbed \/ \E p \in Procs : Target(p) = r

(* What Await of simulator.go says: it returns nil only when the state of  *)
(* the simulator's own device has matched the predicate.  The code also    *)
(* returns nil when the timer fires or another device has matched.         *)
AwaitedMatches ==
  [][\A p \in Commands :
       proc[p].at \in AwaitSteps \ {"awaited"} /\ proc'[p].at = "awaited" => At(p, "match")]_vars

(* AddAll returns, with every simulator or an error, however many of its   *)
(* setups fail, unless one of them is removed while it is added.           *)
AddAllReturns ==
  (main = "range") ~>
    \/ main = "nil" /\ envs = Len(scenario.setups)
    \/ main \in {"error", "exited"}
    \/ Range(scenario.setups) \cap disturbed # {}
===============================================================================
