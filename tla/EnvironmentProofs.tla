-------------------------- MODULE EnvironmentProofs ---------------------------
(***************************************************************************)
(* Proofs about Environment, for any simulators, networks and apps, any    *)
(* topologies and names, any number of goroutines, commands and faults.    *)
(*                                                                         *)
(* The invariant says of each operation what it has made, or deleted, of   *)
(* its resource so far, and of each resource that is up or gone that all   *)
(* of it is there, or nothing.  Networks may want the same service names:  *)
(* the claims are about the objects that are safe, those no disturbed      *)
(* resource could have.  A step of one operation then leaves the claims of *)
(* the others alone (OthersKeep), so that only its own are to be shown.    *)
(***************************************************************************)
EXTENDS Environment, FiniteSetTheorems, TLAPS

-----------------------------------------------------------------------------
(* Where an operation can be, by the kind of its resource.                 *)
SimulatorSetup == {"createConfigMap", "createPod", "createService", "awaitReady", "addDevice"}
NetworkSetup == {"createPod", "createServices", "awaitReady", "listDevices", "addDevices"}
AppSetup == {"createService", "createSecret", "createDeployment", "awaitReady"}
SimulatorTearDown ==
  {"getDevice", "removeDevice", "deletePod", "deleteService", "deleteConfigMap", "openWatch",
   "watch", "watchEnds"}
NetworkTearDown ==
  {"listToRemove", "getDevices", "removeDevices", "deletePod", "listServices", "deleteServices"}
AppTearDown == {"deleteDeployment", "deleteService", "deleteSecret"}
OverLeft == {"createServices", "addDevices", "getDevices", "removeDevices", "deleteServices"}

Types ==
  /\ scenario \in Scenarios
  /\ main \in {"start", "range", "nil", "error", "exited"}
  /\ todo \in Seq(Simulators) /\ envs \in 0 .. Len(scenario.setups)
  /\ faults \in 0 .. MaxFaults /\ ops \in 0 .. MaxOps
  /\ pod \in [Resources -> {"none", "starting", "ready", "terminating"}]
  /\ \A r \in Apps : pod[r] # "terminating"
  /\ up \subseteq Resources /\ gone \subseteq Resources
  /\ reported \subseteq Resources /\ disturbed \subseteq Resources

(* The steps fit the resource, and what is left are its devices.           *)
ProcOK(pr) ==
  /\ pr.left \in SUBSET ServiceNames
  /\ pr.failed \in BOOLEAN /\ pr.clean \in BOOLEAN
  /\ \/ /\ pr.target \in Simulators
        /\ pr.at \in SimulatorSetup \cup SimulatorTearDown
     \/ /\ pr.target \in Networks
        /\ pr.at \in NetworkSetup \cup NetworkTearDown
        /\ pr.left \subseteq DeviceNames(pr.target)
        /\ pr.at = "createPod" => pr.left = DeviceNames(pr.target)
        /\ pr.at \in OverLeft => pr.left # {}
     \/ /\ pr.target \in Apps
        /\ pr.at \in AppSetup \cup AppTearDown
     \/ /\ pr.target = NoResource
        /\ pr.at \in AwaitSteps \cup PoolSteps
  /\ pr.at \notin RemoveSteps => ~pr.failed

Procedures == [at : AddSteps \cup RemoveSteps \cup AwaitSteps \cup PoolSteps,
               target : Resources \cup {NoResource},
               left : SUBSET ServiceNames, failed : BOOLEAN, clean : BOOLEAN]
ProcsOK ==
  /\ proc \in [Procs -> Procedures]
  /\ \A p \in Procs : ProcOK(proc[p])
  /\ \A p \in Workers :
       proc[p].at \in PoolSteps \/ (Target(p) \in Simulators /\ proc[p].at \in AddSteps)

(* An object carries the label that some resource with such a part gives,  *)
(* and onos-topo holds no other devices than those of resources.           *)
LabelInv ==
  /\ \A o \in DOMAIN owner : \E r \in Resources : owner[o] = Label(r) /\ o \in Parts(r)
  /\ \A d \in registered : \E r \in Resources : d \in Devices(r)

(* No two operations on a resource, and none on one that is up or gone.    *)
AloneInv ==
  /\ \A p, q \in Procs :
       p # q /\ Target(p) = Target(q) /\ Target(p) \in Resources => Target(p) \in disturbed
  /\ \A r \in (up \cup gone) \ disturbed : \A p \in Procs : Target(p) # r

-----------------------------------------------------------------------------
(* An object is safe while no resource that could have it is disturbed.    *)
Safe(o) == \A r \in Resources : o \in Parts(r) => r \notin disturbed
Owns(r, o) == o \in DOMAIN owner /\ owner[o] = Label(r)
Services(D) == {<<"service", d>> : d \in D}

(* What Setup has still to make of its resource, and TearDown to delete.   *)
ToMake(pr) ==
  CASE pr.at = "createConfigMap" -> {<<"configMap", pr.target>>, <<"service", pr.target>>}
    [] pr.at \in {"createPod", "createServices"} /\ pr.target \in Networks -> Services(pr.left)
    [] pr.at = "createPod" /\ pr.target \in Simulators -> {<<"service", pr.target>>}
    [] pr.at = "createService" /\ pr.target \in Simulators -> {<<"service", pr.target>>}
    [] pr.at = "createService" /\ pr.target \in Apps ->
         {<<"service", pr.target>>, <<"secret", pr.target>>}
    [] pr.at = "createSecret" -> {<<"secret", pr.target>>}
    [] OTHER -> {}
ToDelete(r, step, left) ==
  CASE step = "deleteServices" -> Services(left)
    [] step = "deleteConfigMap" -> {<<"configMap", r>>}
    [] step = "deleteSecret" -> {<<"secret", r>>}
    [] step \in {"openWatch", "watch", "watchEnds"} -> {}
    [] OTHER -> Parts(r)

PodMade == {"createService", "createServices", "awaitReady", "addDevice", "listDevices", "addDevices"}

SetupInv(p) ==
  LET pr == proc[p]
      r == pr.target
  IN r \in Resources \ disturbed /\ pr.at \in AddSteps =>
       /\ \A o \in Made(r) \ ToMake(pr) : Safe(o) => Owns(r, o)
       /\ pr.at \in PodMade /\ r \notin Apps => pod[r] \in {"starting", "ready"}
       /\ pr.at = "awaitReady" => pod[r] \in {"starting", "ready"}
       /\ pr.at \in {"addDevice", "listDevices", "addDevices"} => pod[r] = "ready"
       /\ pr.at = "addDevices" =>
            \A d \in Devices(r) \ pr.left : Safe(<<"service", d>>) => d \in registered

(* After the workload of the resource has been deleted.                    *)
PodDeleted ==
  {"deleteConfigMap", "openWatch", "watch", "watchEnds", "listServices", "deleteServices",
   "deleteSecret"}
DevicesRemoved ==
  {"deletePod", "deleteService", "deleteConfigMap", "openWatch", "watch", "watchEnds",
   "listServices", "deleteServices"}

TearDownClaims(r, step, left, failed, clean) ==
  /\ clean => \A o \in Parts(r) \ ToDelete(r, step, left) : Safe(o) => ~Owns(r, o)
  /\ clean /\ step \in PodDeleted \cup {"deleteService"} => pod[r] \in {"none", "terminating"}
  /\ r \in Networks /\ step \in OverLeft =>
       \A d \in left : Safe(<<"service", d>>) => Owns(r, <<"service", d>>)
  /\ r \in Simulators /\ step \in DevicesRemoved /\ (clean \/ ~failed) => r \notin registered
  /\ r \in Networks /\ step \in DevicesRemoved \cup {"getDevices", "removeDevices"} /\ ~failed =>
       \A d \in Devices(r) :
         Safe(<<"service", d>>) /\ Owns(r, <<"service", d>>) /\ d \in registered =>
           step \in {"getDevices", "removeDevices"} /\ d \in left
TearDownInv(p) ==
  LET pr == proc[p]
  IN pr.target \in Resources \ disturbed /\ pr.at \in RemoveSteps =>
       TearDownClaims(pr.target, pr.at, pr.left, pr.failed, pr.clean)

(* A resource that is up, and one that is gone.                            *)
Up(r) ==
  /\ pod[r] = "ready"
  /\ \A o \in Made(r) : Safe(o) => Owns(r, o)
  /\ AddsDevice(r) => \A d \in Devices(r) : Safe(<<"service", d>>) => d \in registered
Gone(r) ==
  /\ pod[r] \in {"none", "terminating"}
  /\ (\A o \in Parts(r) : Safe(o)) => \A o \in Parts(r) : ~Owns(r, o)
  /\ r \in Simulators => r \notin registered
HistoryInv ==
  /\ \A r \in (up \ disturbed) \ NoReplicas : Up(r)
  /\ \A r \in gone \ disturbed : Gone(r)

(* A device without its service has been reported, or is about to be.      *)
OrphanInv ==
  \A d \in registered :
    \/ <<"service", d>> \in DOMAIN owner
    \/ ~Safe(<<"service", d>>)
    \/ \E r \in Resources :
         d \in Devices(r) /\ (r \in reported \/ \E p \in Procs : Target(p) = r /\ proc[p].failed)

IInv ==
  /\ Types /\ ProcsOK /\ LabelInv /\ AloneInv
  /\ \A p \in Procs : SetupInv(p) /\ TearDownInv(p)
  /\ HistoryInv /\ OrphanInv

-----------------------------------------------------------------------------
(* The parts of resources.                                                 *)

LEMMA PartsAre ==
  /\ \A r \in Simulators : Parts(r) = {<<"configMap", r>>, <<"service", r>>} /\ Devices(r) = {r}
  /\ \A r \in Networks : Parts(r) = Services(DeviceNames(r)) /\ Devices(r) = DeviceNames(r)
  /\ \A r \in Apps : Parts(r) = {<<"service", r>>, <<"secret", r>>} /\ Devices(r) = {}
BY ResourceAssumption DEF Parts, Devices, Services

LEMMA MadeParts ==
  /\ \A r \in Resources : Made(r) \subseteq Parts(r)
  /\ \A r \in Simulators \cup Networks : Made(r) = Parts(r)
  /\ \A r \in Secretless : Made(r) = {<<"service", r>>}
BY PartsAre, ResourceAssumption DEF Made, Resources

LEMMA DeviceParts ==
  /\ \A r \in Resources : \A d \in Devices(r) : <<"service", d>> \in Parts(r)
  /\ \A r \in Simulators \cup Networks : \A d : <<"service", d>> \in Parts(r) => d \in Devices(r)
<1>1. \A r \in Networks : \A d : <<"service", d>> \in Services(DeviceNames(r)) <=> d \in DeviceNames(r)
  BY DEF Services
<1> QED
  BY <1>1, PartsAre DEF Resources

LEMMA PartsAreObjects ==
  /\ \A r \in Resources : Parts(r) \subseteq Objects
  /\ \A r \in Resources : Devices(r) \subseteq ServiceNames
<1>1. \A r \in Networks : DeviceNames(r) \subseteq ServiceNames
  BY DEF ServiceNames
<1>2. Simulators \subseteq ServiceNames /\ Apps \subseteq ServiceNames
  BY DEF ServiceNames
<1>3. \A r \in Networks : Services(DeviceNames(r)) \subseteq Objects
  BY <1>1 DEF Services, Objects
<1>4. \A r \in Simulators : <<"configMap", r>> \in Objects /\ <<"service", r>> \in Objects
  BY <1>2 DEF Objects
<1>5. \A r \in Apps : <<"service", r>> \in Objects /\ <<"secret", r>> \in Objects
  BY <1>2 DEF Objects
<1>6. ASSUME NEW r \in Simulators PROVE Parts(r) \subseteq Objects /\ Devices(r) \subseteq ServiceNames
  <2>1. Parts(r) = {<<"configMap", r>>, <<"service", r>>} /\ Devices(r) = {r}
    BY PartsAre
  <2> QED
    BY <1>2, <1>4, <2>1
<1>7. \A r \in Networks : Parts(r) \subseteq Objects /\ Devices(r) \subseteq ServiceNames
  BY <1>1, <1>3, PartsAre
<1>8. \A r \in Apps : Parts(r) \subseteq Objects /\ Devices(r) \subseteq ServiceNames
  BY <1>5, PartsAre
<1> QED
  BY <1>6, <1>7, <1>8 DEF Resources

(* Only networks have parts and devices in common.                         *)
LEMMA SharedParts ==
  ASSUME NEW r \in Resources, NEW s \in Resources, r # s
  PROVE  /\ \A o \in Parts(r) : o \in Parts(s) => r \in Networks /\ s \in Networks
         /\ \A d \in Devices(r) : d \in Devices(s) => r \in Networks /\ s \in Networks
<1>1. \A o : r \in Networks /\ o \in Parts(r) => \E d \in DeviceNames(r) : o = <<"service", d>>
  BY PartsAre DEF Services
<1>2. \A o : s \in Networks /\ o \in Parts(s) => \E d \in DeviceNames(s) : o = <<"service", d>>
  BY PartsAre DEF Services
<1>3. \A n \in Networks : \A d \in DeviceNames(n) : d \notin Simulators /\ d \notin Apps
  BY NameAssumption
<1> QED
  BY <1>1, <1>2, <1>3, PartsAre, ResourceAssumption DEF Resources

(* The parts of a simulator or an app are safe if it is not disturbed, and *)
(* labelled with it.                                                       *)
LEMMA OwnParts ==
  ASSUME NEW r \in Simulators \cup Apps, NEW o \in Parts(r)
  PROVE  /\ Safe(o) <=> r \notin disturbed
         /\ LabelInv /\ o \in DOMAIN owner => Owns(r, o)
<1>1. ASSUME NEW s \in Resources, o \in Parts(s) PROVE s = r
  BY <1>1, SharedParts, ResourceAssumption DEF Resources
<1> QED
  BY <1>1 DEF Safe, LabelInv, Owns, Resources

LEMMA UnsafeIfDisturbed ==
  ASSUME NEW r \in disturbed, r \in Resources, NEW o \in Parts(r)
  PROVE  ~Safe(o)
BY DEF Safe

(* Only apps share a label.                                                *)
LEMMA Labels ==
  /\ \A r \in Simulators \cup Networks : Label(r) = r
  /\ \A r \in Apps : Label(r) = RandomName
  /\ \A r \in Networks : \A s \in Resources : Label(s) = r => s = r
  /\ \A r \in Resources : \A s \in Resources : Label(s) = r => s = r /\ r \notin Apps
BY ResourceAssumption DEF Label, Resources

LEMMA OwnedPart ==
  ASSUME LabelInv, NEW r \in Networks, NEW o, Owns(r, o)
  PROVE  o \in Parts(r)
<1>1. PICK s \in Resources : owner[o] = Label(s) /\ o \in Parts(s)
  BY DEF LabelInv, Owns
<1> QED
  BY <1>1, Labels DEF Owns

LEMMA LabelledServices ==
  ASSUME LabelInv, NEW r \in Networks
  PROVE  /\ ServicesOf(r) \subseteq DeviceNames(r)
         /\ \A d \in DeviceNames(r) : d \in ServicesOf(r) <=> Owns(r, <<"service", d>>)
<1>1. \A d \in DeviceNames(r) : d \in ServiceNames
  BY DEF ServiceNames
<1>2. Label(r) = r
  BY Labels
<1>3. \A d \in ServicesOf(r) : <<"service", d>> \in Parts(r)
  BY <1>2, OwnedPart DEF ServicesOf, Owns
<1> QED
  BY <1>1, <1>2, <1>3, DeviceParts, PartsAre DEF ServicesOf, Owns

LEMMA FirstOf == ASSUME NEW S, S # {} PROVE First(S) \in S
BY DEF First

-----------------------------------------------------------------------------
(* What a call of one operation may do to the world.  It makes or deletes  *)
(* a part of its own resource, which it owns unless that is not safe.      *)
MakesPart(r) ==
  \E o \in Parts(r) :
    /\ o \notin DOMAIN owner
    /\ owner' = [x \in DOMAIN owner \cup {o} |-> IF x = o THEN Label(r) ELSE owner[x]]
DeletesPart(r) ==
  \E o \in Parts(r) :
    /\ o \in DOMAIN owner /\ Safe(o) => Owns(r, o)
    /\ owner' = [x \in DOMAIN owner \ {o} |-> owner[x]]
SetsPod(r) ==
  \E x \in {"none", "starting", "ready", "terminating"} :
    /\ pod' = [pod EXCEPT ![r] = x]
    /\ r \in Apps => x # "terminating"
Registers(r) ==
  \E d \in Devices(r) :
    /\ Safe(<<"service", d>>) /\ r \in Networks => Owns(r, <<"service", d>>)
    /\ registered' \in {registered \cup {d}, registered \ {d}}

Changes(p) ==
  /\ UNCHANGED owner \/ MakesPart(Target(p)) \/ DeletesPart(Target(p))
  /\ UNCHANGED pod \/ SetsPod(Target(p))
  /\ UNCHANGED registered \/ Registers(Target(p))
  /\ UNCHANGED faults \/ Fault
  /\ UNCHANGED <<scenario, main, todo, envs, ops, disturbed>>
  /\ \A q \in Procs \ {p} : proc'[q] = proc[q]

LEMMA SafeStays ==
  ASSUME disturbed \subseteq disturbed'
  PROVE  \A o : Safe(o)' => Safe(o)
BY DEF Safe

(* A resource that another operation works on does not notice.             *)
LEMMA OthersUnaffected ==
  ASSUME IInv, NEW p \in Procs, Target(p) \in Resources, Changes(p),
         NEW s \in Resources, s # Target(p)
  PROVE  /\ \A o \in Parts(s) : Safe(o) => (Owns(s, o)' <=> Owns(s, o))
         /\ pod'[s] = pod[s]
         /\ \A d \in Devices(s) :
              Safe(<<"service", d>>) /\ (s \in Networks => Owns(s, <<"service", d>>)) =>
                (d \in registered' <=> d \in registered)
<1> DEFINE r == Target(p)
<1>1. pod'[s] = pod[s]
  BY DEF Changes, SetsPod, IInv, Types
<1>2. ASSUME NEW o \in Parts(s), Safe(o) PROVE Owns(s, o)' <=> Owns(s, o)
  <2>1. CASE UNCHANGED owner
    BY <2>1 DEF Owns, Label
  <2>2. o \in Parts(r) => Label(r) # Label(s)
    BY SharedParts, Labels
  <2>3. CASE MakesPart(r)
    <3>1. PICK x \in Parts(r) :
            /\ x \notin DOMAIN owner
            /\ owner' = [y \in DOMAIN owner \cup {x} |-> IF y = x THEN Label(r) ELSE owner[y]]
      BY <2>3 DEF MakesPart
    <3>2. Owns(s, o)' <=> o \in DOMAIN owner' /\ owner'[o] = Label(s)
      BY DEF Owns, Label
    <3>3. CASE o = x
      BY <2>2, <3>1, <3>2, <3>3 DEF Owns
    <3>4. CASE o # x
      BY <3>1, <3>2, <3>4 DEF Owns
    <3> QED
      BY <3>3, <3>4
  <2>4. CASE DeletesPart(r)
    <3>1. PICK x \in Parts(r) :
            /\ x \in DOMAIN owner /\ Safe(x) => Owns(r, x)
            /\ owner' = [y \in DOMAIN owner \ {x} |-> owner[y]]
      BY <2>4 DEF DeletesPart
    <3>2. Owns(s, o)' <=> o \in DOMAIN owner' /\ owner'[o] = Label(s)
      BY DEF Owns, Label
    <3>3. CASE o = x
      BY <1>2, <2>2, <3>1, <3>2, <3>3 DEF Owns
    <3>4. CASE o # x
      BY <3>1, <3>2, <3>4 DEF Owns
    <3> QED
      BY <3>3, <3>4
  <2> QED
    BY <2>1, <2>3, <2>4 DEF Changes
<1>3. ASSUME NEW d \in Devices(s), Safe(<<"service", d>>),
             s \in Networks => Owns(s, <<"service", d>>)
      PROVE  d \in registered' <=> d \in registered
  <2>1. CASE UNCHANGED registered
    BY <2>1
  <2>2. CASE Registers(r)
    <3>1. PICK e \in Devices(r) :
            /\ Safe(<<"service", e>>) /\ r \in Networks => Owns(r, <<"service", e>>)
            /\ registered' \in {registered \cup {e}, registered \ {e}}
      BY <2>2 DEF Registers
    <3>2. d # e
      BY <1>3, <3>1, SharedParts, Labels DEF Owns
    <3> QED
      BY <3>1, <3>2
  <2> QED
    BY <2>1, <2>2 DEF Changes
<1> QED
  BY <1>1, <1>2, <1>3

(* Objects and devices are still those of resources.                       *)
LEMMA LabelsKept ==
  ASSUME IInv, NEW p \in Procs, Target(p) \in Resources, Changes(p)
  PROVE  LabelInv'
<1> USE DEF IInv, LabelInv
<1>1. \A o \in DOMAIN owner' : \E r \in Resources : owner'[o] = Label(r) /\ o \in Parts(r)
  <2>1. CASE UNCHANGED owner
    BY <2>1
  <2>2. CASE MakesPart(Target(p))
    BY <2>2 DEF MakesPart
  <2>3. CASE DeletesPart(Target(p))
    BY <2>3 DEF DeletesPart
  <2> QED
    BY <2>1, <2>2, <2>3 DEF Changes
<1>2. \A d \in registered' : \E r \in Resources : d \in Devices(r)
  BY DEF Changes, Registers
<1>3. \A r : Label(r)' = Label(r)
  BY DEF Label
<1> QED
  BY <1>1, <1>2, <1>3

(* What is known of another operation stays true.                          *)
LEMMA OthersKeep ==
  ASSUME IInv, NEW p \in Procs, Target(p) \in Resources, Changes(p),
         NEW q \in Procs, q # p
  PROVE  SetupInv(q)' /\ TearDownInv(q)'
<1>1. PICK pr : pr = proc[q]
  OBVIOUS
<1>2. PICK s : s = pr.target
  OBVIOUS
<1>3. proc'[q] = pr /\ proc[q] = pr /\ disturbed' = disturbed /\ Target(q) = s
  BY <1>1, <1>2 DEF Changes, Target
<1>4. SUFFICES ASSUME s \in Resources \ disturbed
               PROVE  SetupInv(q)' /\ TearDownInv(q)'
  BY <1>3, <1>2 DEF SetupInv, TearDownInv
<1>5. s # Target(p)
  BY <1>3, <1>4 DEF IInv, AloneInv
<1>6. /\ \A o \in Parts(s) : Safe(o) => (Owns(s, o)' <=> Owns(s, o))
      /\ pod'[s] = pod[s]
      /\ \A d \in Devices(s) :
           Safe(<<"service", d>>) /\ (s \in Networks => Owns(s, <<"service", d>>)) =>
             (d \in registered' <=> d \in registered)
  BY <1>4, <1>5, OthersUnaffected
<1>7. \A o : Safe(o)' <=> Safe(o)
  BY <1>3 DEF Safe
<1>8. \A d \in Devices(s) : <<"service", d>> \in Parts(s)
  BY <1>4, DeviceParts
<1>9. SetupInv(q) /\ TearDownInv(q) /\ ProcOK(pr)
  BY <1>3 DEF IInv, ProcsOK
<1>10. SetupInv(q)'
  <2> SUFFICES ASSUME pr.at \in AddSteps PROVE SetupInv(q)'
    BY <1>3, <1>2 DEF SetupInv
  <2>1. \A o \in Made(s) \ ToMake(pr) : Safe(o)' => Owns(s, o)'
    BY <1>4, <1>6, <1>7, <1>9, <1>3, <1>2, MadeParts DEF SetupInv
  <2>2. /\ pr.at \in PodMade /\ s \notin Apps => pod'[s] \in {"starting", "ready"}
        /\ pr.at = "awaitReady" => pod'[s] \in {"starting", "ready"}
        /\ pr.at \in {"addDevice", "listDevices", "addDevices"} => pod'[s] = "ready"
    BY <1>4, <1>6, <1>9, <1>3, <1>2 DEF SetupInv
  <2>3. pr.at = "addDevices" =>
          \A d \in Devices(s) \ pr.left : Safe(<<"service", d>>)' => d \in registered'
    <3> SUFFICES ASSUME pr.at = "addDevices", NEW d \in Devices(s) \ pr.left, Safe(<<"service", d>>)
                 PROVE  d \in registered'
      BY <1>7
    <3>1. ToMake(pr) = {}
      BY DEF ToMake
    <3>2. d \in registered /\ (s \in Networks => Owns(s, <<"service", d>>))
      BY <1>4, <1>8, <1>9, <3>1, <1>3, <1>2, MadeParts DEF SetupInv
    <3> QED
      BY <1>6, <3>2
  <2> QED
    BY <1>3, <1>2, <2>1, <2>2, <2>3 DEF SetupInv
<1>11. TearDownInv(q)'
  <2> SUFFICES ASSUME pr.at \in RemoveSteps PROVE TearDownInv(q)'
    BY <1>3, <1>2 DEF TearDownInv
  <2>1. pr.clean => \A o \in Parts(s) \ ToDelete(s, pr.at, pr.left) : Safe(o)' => ~Owns(s, o)'
    BY <1>4, <1>6, <1>7, <1>9, <1>3, <1>2 DEF TearDownInv, TearDownClaims
  <2>2. pr.clean /\ pr.at \in PodDeleted \cup {"deleteService"} => pod'[s] \in {"none", "terminating"}
    BY <1>4, <1>6, <1>9, <1>3, <1>2 DEF TearDownInv, TearDownClaims
  <2>3. s \in Networks /\ pr.at \in OverLeft =>
          \A d \in pr.left : Safe(<<"service", d>>)' => Owns(s, <<"service", d>>)'
    <3> SUFFICES ASSUME s \in Networks, pr.at \in OverLeft, NEW d \in pr.left, Safe(<<"service", d>>)
                 PROVE  Owns(s, <<"service", d>>)'
      BY <1>7
    <3>1. Owns(s, <<"service", d>>)
      BY <1>4, <1>9, <1>3, <1>2 DEF TearDownInv, TearDownClaims
    <3>2. <<"service", d>> \in Parts(s)
      BY <3>1, OwnedPart DEF IInv
    <3> QED
      BY <1>6, <3>1, <3>2
  <2>4. s \in Simulators /\ pr.at \in DevicesRemoved /\ (pr.clean \/ ~pr.failed) => s \notin registered'
    <3> SUFFICES ASSUME s \in Simulators, pr.at \in DevicesRemoved, pr.clean \/ ~pr.failed
                 PROVE  s \notin registered'
      OBVIOUS
    <3>1. s \notin registered
      BY <1>4, <1>9, <1>3, <1>2 DEF TearDownInv, TearDownClaims
    <3>2. s \in Devices(s) /\ s \notin Networks /\ Safe(<<"service", s>>)
      BY <1>4, <1>8, PartsAre, OwnParts, ResourceAssumption
    <3> QED
      BY <1>6, <3>1, <3>2
  <2>5. s \in Networks /\ pr.at \in DevicesRemoved \cup {"getDevices", "removeDevices"} /\ ~pr.failed =>
          \A d \in Devices(s) :
            Safe(<<"service", d>>)' /\ Owns(s, <<"service", d>>)' /\ d \in registered' =>
              pr.at \in {"getDevices", "removeDevices"} /\ d \in pr.left
    <3> SUFFICES ASSUME s \in Networks, ~pr.failed,
                        pr.at \in DevicesRemoved \cup {"getDevices", "removeDevices"},
                        NEW d \in Devices(s), Safe(<<"service", d>>),
                        Owns(s, <<"service", d>>)', d \in registered'
                 PROVE  pr.at \in {"getDevices", "removeDevices"} /\ d \in pr.left
      BY <1>7
    <3>1. Owns(s, <<"service", d>>) /\ d \in registered
      BY <1>6, <1>8
    <3> QED
      BY <1>4, <1>9, <3>1, <1>3, <1>2 DEF TearDownInv, TearDownClaims
  <2> QED
    BY <1>3, <1>2, <2>1, <2>2, <2>3, <2>4, <2>5 DEF TearDownInv, TearDownClaims
<1> QED
  BY <1>10, <1>11

(* So does what is known of a resource that is up or gone.                 *)
LEMMA UpAndGoneKept ==
  ASSUME IInv, NEW p \in Procs, Target(p) \in Resources, Changes(p),
         NEW s \in Resources \ disturbed, s # Target(p)
  PROVE  /\ Up(s) => Up(s)'
         /\ Gone(s) => Gone(s)'
<1>1. /\ \A o \in Parts(s) : Safe(o) => (Owns(s, o)' <=> Owns(s, o))
      /\ pod'[s] = pod[s]
      /\ \A d \in Devices(s) :
           Safe(<<"service", d>>) /\ (s \in Networks => Owns(s, <<"service", d>>)) =>
             (d \in registered' <=> d \in registered)
  BY OthersUnaffected
<1>2. \A o : Safe(o)' <=> Safe(o)
  BY DEF Safe, Changes
<1>3. \A d \in Devices(s) : <<"service", d>> \in Parts(s)
  BY DeviceParts
<1>4. s \in Simulators => s \in Devices(s) /\ s \notin Networks /\ Safe(<<"service", s>>)
  BY <1>3, PartsAre, OwnParts, ResourceAssumption
<1>5. ASSUME Up(s) PROVE Up(s)'
  BY <1>1, <1>2, <1>3, <1>5, MadeParts DEF Up
<1>6. ASSUME Gone(s) PROVE Gone(s)'
  BY <1>1, <1>2, <1>4, <1>6 DEF Gone
<1> QED
  BY <1>5, <1>6

-----------------------------------------------------------------------------
(* What a step of an operation must do for the invariant to hold again.    *)

(* The operation goes on, or returns.                                      *)
GoesOn(p) ==
  /\ ProcOK(proc'[p]) /\ proc'[p].target = Target(p)
  /\ proc[p].at \in AddSteps => proc'[p].at \in AddSteps
  /\ proc[p].failed => proc'[p].failed
  /\ UNCHANGED <<up, gone, reported>>
Returns(p) ==
  /\ \E x \in PoolSteps : proc'[p] = [Idle EXCEPT !.at = x]
  /\ up' \in {up, up \cup {Target(p)}} /\ gone' \in {gone, gone \cup {Target(p)}}
  /\ reported' \in {reported, reported \cup {Target(p)}}
  /\ proc[p].failed => Target(p) \in reported'
Moves(p) == proc' \in [Procs -> Procedures] /\ (GoesOn(p) \/ Returns(p))

KeepsOwn(p) ==
  /\ SetupInv(p)' /\ TearDownInv(p)'
  /\ \A r \in Resources \ disturbed :
       r = Target(p) => (r \in up' => Up(r)') /\ (r \in gone' => Gone(r)')

(* No device is left alone without a word.                                 *)
KeepsDevices(p) ==
  \A d \in registered' :
    \/ <<"service", d>> \in DOMAIN owner'
    \/ ~Safe(<<"service", d>>)
    \/ d \in registered /\ <<"service", d>> \notin DOMAIN owner
    \/ Target(p) \in reported'
    \/ proc'[p].target = Target(p) /\ proc'[p].failed

LEMMA StepKeeps ==
  ASSUME IInv, NEW p \in Procs, Target(p) \in Resources,
         Changes(p), Moves(p), KeepsOwn(p), KeepsDevices(p)
  PROVE  IInv'
<1>1. PICK r \in Resources : r = Target(p)
  OBVIOUS
<1>2. /\ disturbed' = disturbed
      /\ \A q \in Procs \ {p} : proc'[q] = proc[q]
      /\ proc' \in [Procs -> Procedures] /\ proc \in [Procs -> Procedures]
      /\ \A q \in Procs : ProcOK(proc[q])
  BY DEF Changes, Moves, IInv, ProcsOK
<1>3. /\ up' \in {up, up \cup {r}} /\ gone' \in {gone, gone \cup {r}}
      /\ reported' \in {reported, reported \cup {r}}
  BY <1>1 DEF Moves, GoesOn, Returns
<1>4. ASSUME Returns(p) PROVE proc'[p].target = NoResource /\ ProcOK(proc'[p]) /\ proc'[p].at \in PoolSteps
  <2>1. PICK x \in PoolSteps : proc'[p] = [Idle EXCEPT !.at = x]
    BY <1>4 DEF Returns
  <2>2. PoolSteps \cap RemoveSteps = {}
    BY DEF PoolSteps, RemoveSteps
  <2> QED
    BY <2>1, <2>2 DEF Idle, ProcOK
<1>5. proc'[p].target \in {r, NoResource} /\ ProcOK(proc'[p])
  BY <1>1, <1>4 DEF Moves, GoesOn
<1>6. Types'
  <2>1. pod' \in [Resources -> {"none", "starting", "ready", "terminating"}]
        /\ \A a \in Apps : pod'[a] # "terminating"
    <3>1. /\ pod \in [Resources -> {"none", "starting", "ready", "terminating"}]
          /\ \A a \in Apps : pod[a] # "terminating" /\ a \in Resources
      BY DEF IInv, Types, Resources
    <3>2. CASE UNCHANGED pod
      BY <3>1, <3>2
    <3>3. ASSUME NEW x \in {"none", "starting", "ready", "terminating"},
                 pod' = [pod EXCEPT ![r] = x], r \in Apps => x # "terminating"
          PROVE  /\ pod' \in [Resources -> {"none", "starting", "ready", "terminating"}]
                 /\ \A a \in Apps : pod'[a] # "terminating"
      BY <3>1, <3>3
    <3> QED
      BY <1>1, <3>2, <3>3 DEF Changes, SetsPod
  <2>2. faults' \in 0 .. MaxFaults
    BY BoundAssumption DEF Changes, Fault, IInv, Types
  <2> QED
    BY <1>2, <1>3, <2>1, <2>2 DEF Changes, IInv, Types
<1>7. ProcsOK'
  <2>1. \A q \in Procs : ProcOK(proc'[q])
    BY <1>2, <1>5
  <2>2. ASSUME NEW q \in Workers
        PROVE  proc'[q].at \in PoolSteps \/ (proc'[q].target \in Simulators /\ proc'[q].at \in AddSteps)
    <3>1. proc[q].at \in PoolSteps \/ (Target(q) \in Simulators /\ proc[q].at \in AddSteps)
      BY DEF IInv, ProcsOK
    <3>2. CASE q = p
      <4>1. proc[p].at \notin PoolSteps
        BY <1>2, ResourceAssumption DEF Target, ProcOK, Resources, PoolSteps, SimulatorSetup,
           SimulatorTearDown, NetworkSetup, NetworkTearDown, AppSetup, AppTearDown
      <4> QED
        BY <1>4, <3>1, <3>2, <4>1 DEF Moves, GoesOn
    <3>3. CASE q # p
      BY <1>2, <3>1, <3>3 DEF Target, Procs
    <3> QED
      BY <3>2, <3>3
  <2> QED
    BY <1>2, <2>1, <2>2 DEF ProcsOK, Target, At
<1>8. LabelInv'
  BY LabelsKept
<1>9. AloneInv'
  <2>1. ASSUME NEW q \in Procs, NEW s \in Resources, proc'[q].target = s PROVE proc[q].target = s
    BY <1>1, <1>2, <1>5, <2>1, ResourceAssumption DEF Target
  <2>2. \A q, t \in Procs :
          q # t /\ proc'[q].target = proc'[t].target /\ proc'[q].target \in Resources =>
            proc'[q].target \in disturbed
    BY <2>1 DEF IInv, AloneInv, Target
  <2>3. ASSUME NEW s \in (up' \cup gone') \ disturbed, NEW q \in Procs PROVE proc'[q].target # s
    <3>1. CASE s \in up \cup gone
      BY <2>1, <2>3, <3>1 DEF IInv, AloneInv, Types, Target
    <3>2. CASE s \notin up \cup gone
      <4>1. s = r /\ Returns(p)
        BY <1>1, <1>3, <2>3, <3>2 DEF Moves, GoesOn
      <4>2. q # p => proc[q].target # r
        BY <1>1, <2>3, <4>1 DEF IInv, AloneInv, Target
      <4> QED
        BY <1>1, <1>2, <1>4, <4>1, <4>2, ResourceAssumption
    <3> QED
      BY <3>1, <3>2
  <2> QED
    BY <1>2, <2>2, <2>3 DEF AloneInv, Target
<1>10. \A q \in Procs : SetupInv(q)' /\ TearDownInv(q)'
  BY OthersKeep DEF KeepsOwn
<1>11. HistoryInv'
  <2>1. ASSUME NEW s \in Resources \ disturbed
        PROVE  (s \in up' \ NoReplicas => Up(s)') /\ (s \in gone' => Gone(s)')
    <3>1. CASE s = r
      BY <1>1, <2>1, <3>1 DEF KeepsOwn
    <3>2. CASE s # r
      BY <1>1, <1>3, <2>1, <3>2, UpAndGoneKept DEF IInv, HistoryInv
    <3> QED
      BY <3>1, <3>2
  <2>2. NoReplicas' = NoReplicas
    BY DEF NoReplicas
  <2> QED
    BY <1>2, <1>6, <2>1, <2>2 DEF HistoryInv, Types
<1>12. OrphanInv'
  <2> SUFFICES ASSUME NEW d \in registered', <<"service", d>> \notin DOMAIN owner',
                      Safe(<<"service", d>>)
               PROVE  \E s \in Resources :
                        d \in Devices(s) /\ (s \in reported' \/ \E q \in Procs :
                          proc'[q].target = s /\ proc'[q].failed)
    BY <1>2 DEF OrphanInv, Safe, Target
  <2>1. \A s \in Resources : s \in reported => s \in reported'
    BY <1>3
  <2>2. ASSUME NEW q \in Procs, NEW s \in Resources, Target(q) = s, proc[q].failed
        PROVE  s \in reported' \/ (proc'[q].target = s /\ proc'[q].failed)
    BY <1>1, <1>2, <2>2 DEF Moves, GoesOn, Returns, Target
  <2>3. CASE d \in registered /\ <<"service", d>> \notin DOMAIN owner
    BY <2>1, <2>2, <2>3 DEF IInv, OrphanInv
  <2>4. CASE Target(p) \in reported' \/ (proc'[p].target = Target(p) /\ proc'[p].failed)
    <3>1. CASE d \in Devices(r)
      BY <1>1, <2>4, <3>1
    <3>2. CASE d \notin Devices(r)
      <4>1. PICK s \in Resources : d \in Devices(s)
        BY <1>8 DEF LabelInv
      <4>2. <<"service", d>> \in Parts(s)
        BY <4>1, DeviceParts
      <4>3. <<"service", d>> \notin Parts(r)
        BY <3>2, <4>1, <4>2, DeviceParts, SharedParts, ResourceAssumption DEF Resources
      <4>4. <<"service", d>> \notin DOMAIN owner
        BY <1>1, <4>3 DEF Changes, MakesPart, DeletesPart
      <4>5. d \in registered
        BY <1>1, <3>2 DEF Changes, Registers
      <4> QED
        BY <2>3, <4>4, <4>5
    <3> QED
      BY <3>1, <3>2
  <2> QED
    BY <2>3, <2>4 DEF KeepsDevices
<1> QED
  BY <1>6, <1>7, <1>8, <1>9, <1>10, <1>11, <1>12 DEF IInv

-----------------------------------------------------------------------------
(* The ways a step of Setup or TearDown ends.                              *)
World(p) ==
  /\ UNCHANGED owner \/ MakesPart(Target(p)) \/ DeletesPart(Target(p))
  /\ UNCHANGED pod \/ SetsPod(Target(p))
  /\ UNCHANGED registered \/ Registers(Target(p))
InSetup(p) == Target(p) \in Resources /\ proc[p].at \in AddSteps
InTearDown(p) == Target(p) \in Resources /\ proc[p].at \in RemoveSteps

LEMMA StepsApart ==
  /\ AddSteps \cap RemoveSteps = {} /\ AddSteps \cap PoolSteps = {} /\ RemoveSteps \cap PoolSteps = {}
  /\ "return" \notin AddSteps /\ "return" \notin RemoveSteps
BY DEF AddSteps, RemoveSteps, PoolSteps

(* Nothing is claimed of a process without a resource.                     *)
LEMMA NoClaims ==
  ASSUME NEW p \in Procs, proc'[p].target = NoResource
  PROVE  SetupInv(p)' /\ TearDownInv(p)'
BY ResourceAssumption DEF SetupInv, TearDownInv

LEMMA IdleProcs ==
  ASSUME proc \in [Procs -> Procedures], NEW p \in Procs, NEW x \in PoolSteps,
         proc' = [proc EXCEPT ![p] = [Idle EXCEPT !.at = x]]
  PROVE  /\ proc' \in [Procs -> Procedures]
         /\ proc'[p] = [Idle EXCEPT !.at = x]
         /\ \A q \in Procs \ {p} : proc'[q] = proc[q]
BY DEF Idle, Procedures

LEMMA AddReturnsTo ==
  ASSUME IInv, NEW p \in Procs, NEW err \in BOOLEAN, InSetup(p), AddReturns(p, err)
  PROVE  /\ Moves(p) /\ Returns(p) /\ proc'[p].target = NoResource
         /\ \A q \in Procs \ {p} : proc'[q] = proc[q]
         /\ UNCHANGED <<gone, disturbed>>
         /\ err => up' = up /\ Target(p) \in reported'
<1>1. PICK x \in PoolSteps : proc' = [proc EXCEPT ![p] = [Idle EXCEPT !.at = x]]
  BY DEF AddReturns, PoolSteps
<1>2. /\ proc' \in [Procs -> Procedures]
      /\ proc'[p] = [Idle EXCEPT !.at = x]
      /\ \A q \in Procs \ {p} : proc'[q] = proc[q]
  BY <1>1, IdleProcs DEF IInv, ProcsOK
<1>3. ~proc[p].failed
  BY StepsApart DEF InSetup, IInv, ProcsOK, ProcOK
<1>4. Returns(p)
  BY <1>2, <1>3 DEF Returns, AddReturns
<1> QED
  BY <1>2, <1>4 DEF Moves, AddReturns, Idle

LEMMA SetupFails ==
  ASSUME IInv, NEW p \in Procs, InSetup(p), World(p), UNCHANGED faults \/ Fault, AddFails(p)
  PROVE  IInv'
<1>1. /\ Moves(p) /\ proc'[p].target = NoResource
      /\ \A q \in Procs \ {p} : proc'[q] = proc[q]
      /\ UNCHANGED <<gone, disturbed, up>> /\ Target(p) \in reported'
  BY AddReturnsTo DEF AddFails
<1>2. Changes(p)
  BY <1>1 DEF AddFails, World, Changes, pool
<1>3. KeepsOwn(p)
  BY <1>1, NoClaims DEF KeepsOwn, IInv, AloneInv
<1>4. KeepsDevices(p)
  BY <1>1 DEF KeepsDevices
<1> QED
  BY <1>1, <1>2, <1>3, <1>4, StepKeeps DEF InSetup

LEMMA SetupReturns ==
  ASSUME IInv, NEW p \in Procs, InSetup(p), World(p), UNCHANGED faults, NEW left,
         Proceed(p, "return", left), KeepsDevices(p),
         \A r \in Resources \ disturbed : r = Target(p) => Up(r)'
  PROVE  IInv'
<1>1. /\ Moves(p) /\ proc'[p].target = NoResource
      /\ \A q \in Procs \ {p} : proc'[q] = proc[q]
      /\ UNCHANGED <<gone, disturbed>>
  BY AddReturnsTo DEF Proceed
<1>2. Changes(p)
  BY <1>1 DEF Proceed, World, Changes, pool
<1>3. KeepsOwn(p)
  BY <1>1, NoClaims DEF KeepsOwn, IInv, AloneInv
<1> QED
  BY <1>1, <1>2, <1>3, StepKeeps DEF InSetup

LEMMA SetupGoesOn ==
  ASSUME IInv, NEW p \in Procs, InSetup(p), World(p), UNCHANGED faults,
         NEW step \in AddSteps, NEW left, Proceed(p, step, left), KeepsDevices(p),
         ProcOK([proc[p] EXCEPT !.at = step, !.left = left]), SetupInv(p)'
  PROVE  IInv'
<1> DEFINE new == [proc[p] EXCEPT !.at = step, !.left = left]
<1>1. proc' = [proc EXCEPT ![p] = new] /\ UNCHANGED history
  BY StepsApart DEF Proceed, IInv, ProcsOK, Procedures
<1>2. /\ proc[p] \in Procedures /\ proc \in [Procs -> Procedures]
      /\ left \in SUBSET ServiceNames
  <2>1. proc[p] \in Procedures /\ proc \in [Procs -> Procedures]
    BY DEF IInv, ProcsOK
  <2>2. new.left = left
    BY <2>1 DEF Procedures
  <2> QED
    BY <2>1, <2>2 DEF ProcOK
<1>3. new \in Procedures /\ new.target = Target(p) /\ new.at = step
  BY <1>2 DEF Procedures, Target
<1>4. /\ proc' \in [Procs -> Procedures] /\ proc'[p] = new
      /\ \A q \in Procs \ {p} : proc'[q] = proc[q]
  BY <1>1, <1>2, <1>3
<1>5. GoesOn(p)
  <2>1. new.failed = proc[p].failed
    BY <1>2 DEF Procedures
  <2> QED
    BY <1>1, <1>3, <1>4, <2>1 DEF GoesOn, history
<1>6. Changes(p)
  BY <1>1, <1>4 DEF Proceed, World, Changes, pool, history
<1>7. TearDownInv(p)'
  BY <1>3, <1>4, StepsApart DEF TearDownInv
<1>8. KeepsOwn(p)
  BY <1>1, <1>7 DEF KeepsOwn, IInv, AloneInv, history
<1> QED
  BY <1>4, <1>5, <1>6, <1>8, StepKeeps DEF InSetup, Moves

(* Every device with its service gone has lost it before, or the operation *)
(* will report.                                                            *)
Told(told) ==
  \A d \in registered' :
    \/ <<"service", d>> \in DOMAIN owner'
    \/ ~Safe(<<"service", d>>)
    \/ d \in registered /\ <<"service", d>> \notin DOMAIN owner
    \/ told

LEMMA TearDownReturns ==
  ASSUME IInv, NEW p \in Procs, InTearDown(p), World(p),
         NEW r \in Resources, r = Target(p), NEW left, NEW err \in BOOLEAN, NEW fault \in BOOLEAN,
         TearDownGoesOn(p, "return", left, err, fault),
         NEW failed \in BOOLEAN, failed = (proc[p].failed \/ err), Told(failed),
         NEW clean \in BOOLEAN, clean = (proc[p].clean /\ ~fault),
         clean /\ r \notin disturbed => Gone(r)'
  PROVE  IInv'
<1>1. /\ proc \in [Procs -> Procedures]
      /\ proc' = [proc EXCEPT ![p] = [Idle EXCEPT !.at = "idle"]]
      /\ UNCHANGED <<up, disturbed, scenario, main, todo, envs, ops>>
      /\ gone' = IF proc[p].clean /\ ~fault THEN gone \cup {Target(p)} ELSE gone
      /\ reported' = IF proc[p].failed \/ err THEN reported \cup {Target(p)} ELSE reported
      /\ UNCHANGED faults \/ Fault
  BY DEF TearDownGoesOn, Idle, pool, IInv, ProcsOK
<1>2. /\ proc' \in [Procs -> Procedures]
      /\ proc'[p] = [Idle EXCEPT !.at = "idle"]
      /\ \A q \in Procs \ {p} : proc'[q] = proc[q]
  BY <1>1, IdleProcs DEF PoolSteps
<1>3. Returns(p)
  BY <1>1, <1>2 DEF Returns, PoolSteps
<1>4. Changes(p)
  BY <1>1, <1>2 DEF World, Changes
<1>5. KeepsOwn(p)
  BY <1>1, <1>2, NoClaims DEF KeepsOwn, Idle, IInv, AloneInv
<1>6. KeepsDevices(p)
  BY <1>1 DEF KeepsDevices, Told
<1> QED
  BY <1>2, <1>3, <1>4, <1>5, <1>6, StepKeeps DEF InTearDown, Moves

-----------------------------------------------------------------------------
(* The calls of Setup.                                                     *)

LEMMA ResourceKinds ==
  ASSUME IInv, NEW p \in Procs
  PROVE  /\ Target(p) \in Resources =>
              \/ /\ Target(p) \in Simulators /\ Target(p) \notin Networks \cup Apps
                 /\ proc[p].at \in SimulatorSetup \cup SimulatorTearDown
              \/ /\ Target(p) \in Networks /\ Target(p) \notin Simulators \cup Apps
                 /\ proc[p].at \in NetworkSetup \cup NetworkTearDown
                 /\ proc[p].left \subseteq DeviceNames(Target(p))
                 /\ proc[p].at = "createPod" => proc[p].left = DeviceNames(Target(p))
                 /\ proc[p].at \in OverLeft => proc[p].left # {}
              \/ /\ Target(p) \in Apps /\ Target(p) \notin Simulators \cup Networks
                 /\ proc[p].at \in AppSetup \cup AppTearDown
         /\ Target(p) \notin Resources =>
              Target(p) = NoResource /\ proc[p].at \in AwaitSteps \cup PoolSteps
         /\ proc[p].at \in AddSteps \cup RemoveSteps => Target(p) \in Resources
         /\ proc[p] \in Procedures
<1>1. ProcOK(proc[p]) /\ proc[p] \in Procedures
  BY DEF IInv, ProcsOK
<1>2. (AddSteps \cup RemoveSteps) \cap (AwaitSteps \cup PoolSteps) = {}
  BY DEF AddSteps, RemoveSteps, AwaitSteps, PoolSteps
<1> QED
  BY <1>1, <1>2, ResourceAssumption DEF ProcOK, Target, Resources

LEMMA MakeMakes ==
  ASSUME NEW r \in Resources, NEW o \in Parts(r), Make(o, Label(r))
  PROVE  /\ MakesPart(r) /\ UNCHANGED <<pod, registered>>
         /\ Owns(r, o)' /\ \A x : Owns(r, x) => Owns(r, x)'
         /\ DOMAIN owner \subseteq DOMAIN owner'
BY DEF Make, MakesPart, Owns, Label

(* The devices are those of before, and no service is deleted.             *)
LEMMA DevicesStay ==
  ASSUME NEW p \in Procs, registered' \subseteq registered, DOMAIN owner \subseteq DOMAIN owner'
  PROVE  KeepsDevices(p)
BY DEF KeepsDevices

LEMMA CreateKeeps ==
  ASSUME IInv, NEW p \in Procs, InSetup(p), NEW o \in Parts(Target(p)),
         NEW step \in AddSteps, NEW left, NEW new,
         new = [proc[p] EXCEPT !.at = step, !.left = left],
         ProcOK(new), ToMake(proc[p]) \subseteq ToMake(new) \cup {o},
         step \in PodMade => proc[p].at \in PodMade,
         step = "awaitReady" => Target(p) \notin Apps,
         step \notin {"addDevice", "listDevices", "addDevices"},
         Create(p, o, step, left)
  PROVE  IInv'
<1>1. PICK r \in Resources : r = Target(p)
  BY DEF InSetup
<1>2. ASSUME Make(o, Label(r)) PROVE World(p)
  BY <1>1, <1>2, MakeMakes DEF World
<1>3. ASSUME Make(o, Label(r)), Proceed(p, step, left), UNCHANGED faults PROVE IInv'
  <2>1. proc'[p] = new /\ disturbed' = disturbed
    BY <1>1, <1>3, StepsApart DEF Proceed, history, IInv, ProcsOK
  <2>2. new.at = step /\ new.target = r
    BY <1>1 DEF IInv, ProcsOK, Procedures, Target
  <2>3. \A x : Safe(x)' <=> Safe(x)
    BY <2>1 DEF Safe
  <2>4. SetupInv(p)'
    <3>1. ASSUME r \notin disturbed PROVE \A x \in Made(r) \ ToMake(new) : Safe(x) => Owns(r, x)'
      <4>1. \A x \in Made(r) \ ToMake(proc[p]) : Safe(x) => Owns(r, x)
        BY <1>1, <3>1 DEF IInv, SetupInv, InSetup, Target
      <4> QED
        BY <1>1, <1>3, <4>1, MakeMakes, MadeParts
    <3>2. ASSUME r \notin disturbed, step \in PodMade, r \notin Apps PROVE pod'[r] \in {"starting", "ready"}
      <4>1. pod[r] \in {"starting", "ready"}
        BY <1>1, <3>2 DEF IInv, SetupInv, InSetup, Target
      <4> QED
        BY <1>1, <1>3, <4>1, MakeMakes
    <3>3. step = "awaitReady" => step \in PodMade
      BY DEF PodMade
    <3>4. SetupInv(p)' <=>
            (r \in Resources \ disturbed' /\ step \in AddSteps =>
               /\ \A x \in Made(r) \ ToMake(new) : Safe(x)' => Owns(r, x)'
               /\ step \in PodMade /\ r \notin Apps => pod'[r] \in {"starting", "ready"}
               /\ step = "awaitReady" => pod'[r] \in {"starting", "ready"}
               /\ step \in {"addDevice", "listDevices", "addDevices"} => pod'[r] = "ready"
               /\ step = "addDevices" =>
                    \A d \in Devices(r) \ new.left : Safe(<<"service", d>>)' => d \in registered')
      BY <2>1, <2>2 DEF SetupInv
    <3> QED
      BY <1>1, <2>1, <2>3, <3>1, <3>2, <3>3, <3>4
  <2>5. KeepsDevices(p)
    BY <1>1, <1>3, MakeMakes, DevicesStay
  <2> QED
    BY <1>1, <1>2, <1>3, <2>4, <2>5, SetupGoesOn
<1>4. ASSUME AddFails(p), UNCHANGED <<world, faults>> PROVE IInv'
  BY <1>4, SetupFails DEF World, world
<1>5. ASSUME Fault, Make(o, Label(r)) \/ UNCHANGED world, AddFails(p) PROVE IInv'
  BY <1>2, <1>5, SetupFails DEF World, world
<1> QED
  BY <1>1, <1>3, <1>4, <1>5 DEF Create

(* What there is to claim of p when it has gone on to a step of Setup.     *)
LEMMA SetupClaims ==
  ASSUME NEW p \in Procs, NEW r \in Resources, NEW new, proc'[p] = new, new.target = r,
         UNCHANGED disturbed,
         r \notin disturbed =>
           /\ \A o \in Made(r) \ ToMake(new) : Safe(o) => Owns(r, o)'
           /\ new.at \in PodMade /\ r \notin Apps => pod'[r] \in {"starting", "ready"}
           /\ new.at = "awaitReady" => pod'[r] \in {"starting", "ready"}
           /\ new.at \in {"addDevice", "listDevices", "addDevices"} => pod'[r] = "ready"
           /\ new.at = "addDevices" =>
                \A d \in Devices(r) \ new.left : Safe(<<"service", d>>) => d \in registered'
  PROVE  SetupInv(p)'
<1>1. \A x : Safe(x)' <=> Safe(x)
  BY DEF Safe
<1> QED
  BY <1>1 DEF SetupInv

LEMMA WorkloadKeeps ==
  ASSUME IInv, NEW p \in Procs, InSetup(p),
         NEW step \in AddSteps, NEW left, NEW new,
         new = [proc[p] EXCEPT !.at = step, !.left = left],
         ProcOK(new), ToMake(proc[p]) \subseteq ToMake(new),
         step \notin {"addDevice", "listDevices", "addDevices"},
         CreateWorkload(p, step, left)
  PROVE  IInv'
<1>1. PICK r \in Resources : r = Target(p)
  BY DEF InSetup
<1> DEFINE Started == SetPod(r, {"none"}, "starting")
<1>2. ASSUME Started PROVE World(p) /\ UNCHANGED <<owner, registered>> /\ pod'[r] = "starting"
  <2>1. pod \in [Resources -> {"none", "starting", "ready", "terminating"}]
    BY DEF IInv, Types
  <2> QED
    BY <1>1, <1>2, <2>1 DEF World, SetPod, SetsPod
<1>3. ASSUME Started, Proceed(p, step, left), UNCHANGED faults PROVE IInv'
  <2>1. proc'[p] = new /\ disturbed' = disturbed
    BY <1>1, <1>3, StepsApart DEF Proceed, history, IInv, ProcsOK
  <2>2. new.at = step /\ new.target = r
    BY <1>1 DEF IInv, ProcsOK, Procedures, Target
  <2>3. ASSUME r \notin disturbed PROVE \A x \in Made(r) \ ToMake(new) : Safe(x) => Owns(r, x)'
    <3>1. \A x \in Made(r) \ ToMake(proc[p]) : Safe(x) => Owns(r, x)
      BY <1>1, <2>3 DEF IInv, SetupInv, InSetup, Target
    <3> QED
      BY <1>2, <1>3, <3>1 DEF Owns, Label
  <2>4. SetupInv(p)'
    BY <1>2, <1>3, <2>1, <2>2, <2>3, SetupClaims
  <2>5. KeepsDevices(p)
    BY <1>2, <1>3, DevicesStay
  <2> QED
    BY <1>1, <1>2, <1>3, <2>4, <2>5, SetupGoesOn
<1>4. ASSUME AddFails(p), UNCHANGED <<world, faults>> PROVE IInv'
  BY <1>4, SetupFails DEF World, world
<1>5. ASSUME Fault, Started \/ UNCHANGED world, AddFails(p) PROVE IInv'
  BY <1>2, <1>5, SetupFails DEF World, world
<1> QED
  BY <1>1, <1>3, <1>4, <1>5 DEF CreateWorkload

(* A pod that is awaited and there is ready, unless someone disturbs.      *)
LEMMA AwaitKeeps ==
  ASSUME IInv, NEW p \in Procs, Target(p) \in Resources,
         NEW step \in AddSteps \cup {"return"}, step # "addDevices", NEW new,
         new = [proc[p] EXCEPT !.at = step, !.left = {}],
         step # "return" => ProcOK(new),
         step = "return" /\ AddsDevice(Target(p)) => Devices(Target(p)) = {},
         Await(p, step)
  PROVE  IInv'
<1>1. PICK r \in Resources : r = Target(p)
  OBVIOUS
<1>2. At(p, "awaitReady") /\ InSetup(p) /\ UNCHANGED world
  BY DEF Await, At, InSetup, AddSteps
<1>3. World(p) /\ KeepsDevices(p) /\ UNCHANGED <<owner, pod, registered>>
  BY <1>2, DevicesStay DEF World, world
<1>4. ASSUME pod[r] \in {"ready", "terminating"}, Proceed(p, step, {}), UNCHANGED faults PROVE IInv'
  <2>1. UNCHANGED disturbed
    BY <1>4 DEF Proceed, AddReturns, history
  <2>2. ASSUME r \notin disturbed PROVE pod[r] = "ready" /\ \A o \in Made(r) : Safe(o) => Owns(r, o)'
    <3>1. ToMake(proc[p]) = {}
      BY <1>2 DEF At, ToMake
    <3>2. pod[r] \in {"starting", "ready"} /\ \A o \in Made(r) : Safe(o) => Owns(r, o)
      BY <1>1, <1>2, <2>2, <3>1 DEF IInv, SetupInv, InSetup, Target, At
    <3> QED
      BY <1>3, <1>4, <3>2 DEF Owns, Label
  <2>3. CASE step = "return"
    <3>1. ASSUME r \notin disturbed PROVE Up(r)'
      <4>1. \A x : Safe(x)' <=> Safe(x)
        BY <2>1 DEF Safe
      <4> QED
        BY <1>1, <1>3, <2>2, <2>3, <3>1, <4>1 DEF Up
    <3> QED
      BY <1>1, <1>2, <1>3, <1>4, <2>3, <3>1, SetupReturns
  <2>4. CASE step # "return"
    <3>1. proc'[p] = new
      BY <1>1, <1>4, <2>4, StepsApart DEF Proceed, history, IInv, ProcsOK
    <3>2. new.at = step /\ new.target = r
      BY <1>1 DEF IInv, ProcsOK, Procedures, Target
    <3>3. SetupInv(p)'
      BY <1>3, <2>1, <2>2, <3>1, <3>2, SetupClaims
    <3> QED
      BY <1>2, <1>3, <1>4, <2>4, <3>3, SetupGoesOn
  <2> QED
    BY <2>3, <2>4
<1>5. ASSUME AddFails(p), UNCHANGED faults \/ Fault PROVE IInv'
  BY <1>2, <1>3, <1>5, SetupFails
<1> QED
  BY <1>1, <1>4, <1>5 DEF Await

LEMMA TopoAddKeeps ==
  ASSUME IInv, NEW p \in Procs, Target(p) \in Resources, proc[p].at \in {"addDevice", "addDevices"},
         NEW d \in Devices(Target(p)), NEW left, NEW step,
         step = IF left = {} THEN "return" ELSE "addDevices",
         \A e \in Devices(Target(p)) \ left :
           e = d \/ (proc[p].at = "addDevices" /\ e \notin proc[p].left),
         NEW new, new = [proc[p] EXCEPT !.at = step, !.left = left],
         step # "return" => ProcOK(new),
         TopoAdd(p, d, step, left)
  PROVE  IInv'
<1>1. PICK r \in Resources : r = Target(p)
  OBVIOUS
<1>2. InSetup(p) /\ ToMake(proc[p]) = {} /\ UNCHANGED <<owner, pod>>
  BY DEF InSetup, ToMake, TopoAdd, AddSteps
<1>3. \A x \in Made(r) : r \notin disturbed /\ Safe(x) => Owns(r, x) /\ Owns(r, x)'
  BY <1>1, <1>2 DEF IInv, SetupInv, InSetup, Target, Owns, Label
<1>4. <<"service", d>> \in Made(r) /\ (Safe(<<"service", d>>) => r \notin disturbed)
  BY <1>1, DeviceParts, UnsafeIfDisturbed, MadeParts, PartsAre DEF Resources
<1>5. ASSUME registered' \in {registered, registered \cup {d}} PROVE World(p) /\ KeepsDevices(p)
  <2>1. World(p)
    BY <1>1, <1>2, <1>3, <1>4, <1>5 DEF World, Registers
  <2>2. KeepsDevices(p)
    BY <1>2, <1>3, <1>4, <1>5 DEF KeepsDevices, Owns
  <2> QED
    BY <2>1, <2>2
<1>6. ASSUME registered' = registered \cup {d}, Proceed(p, step, left), UNCHANGED faults PROVE IInv'
  <2>1. UNCHANGED disturbed
    BY <1>6 DEF Proceed, AddReturns, history
  <2>2. ASSUME r \notin disturbed
        PROVE  /\ pod[r] = "ready"
               /\ \A e \in Devices(r) \ left : Safe(<<"service", e>>) => e \in registered'
    BY <1>1, <1>2, <1>6, <2>2 DEF IInv, SetupInv, InSetup, Target
  <2>3. CASE step = "return"
    <3>1. ASSUME r \notin disturbed PROVE Up(r)'
      <4>1. \A x : Safe(x)' <=> Safe(x)
        BY <2>1 DEF Safe
      <4>2. left = {}
        BY <2>3
      <4> QED
        BY <1>1, <1>2, <1>3, <2>2, <3>1, <4>1, <4>2 DEF Up
    <3> QED
      BY <1>1, <1>2, <1>5, <1>6, <2>3, <3>1, SetupReturns
  <2>4. CASE step # "return"
    <3>1. step = "addDevices" /\ "addDevices" \in AddSteps
      BY <2>4 DEF AddSteps
    <3>2. proc'[p] = new
      BY <1>1, <1>6, <2>4 DEF Proceed, history, IInv, ProcsOK
    <3>3. new.at = step /\ new.target = r /\ new.left = left
      BY <1>1 DEF IInv, ProcsOK, Procedures, Target
    <3>4. SetupInv(p)'
      BY <1>2, <1>3, <2>1, <2>2, <3>2, <3>3, SetupClaims
    <3> QED
      BY <1>2, <1>5, <1>6, <2>4, <3>1, <3>4, SetupGoesOn
  <2> QED
    BY <2>3, <2>4
<1>7. ASSUME registered' \in {registered, registered \cup {d}}, AddFails(p), UNCHANGED faults \/ Fault
      PROVE  IInv'
  BY <1>2, <1>5, <1>7, SetupFails
<1> QED
  BY <1>1, <1>6, <1>7 DEF TopoAdd

-----------------------------------------------------------------------------
(* The steps of Setup.                                                     *)

LEMMA ProcOf ==
  ASSUME IInv, NEW p \in Procs
  PROVE  /\ proc[p] \in Procedures
         /\ proc[p].failed \in BOOLEAN /\ proc[p].clean \in BOOLEAN
         /\ proc[p].at \in AddSteps => proc[p].failed = FALSE
BY StepsApart DEF IInv, ProcsOK, ProcOK, Procedures

LEMMA SimulatorSetupOK ==
  ASSUME IInv, NEW p \in Procs, Target(p) \in Simulators, proc[p].at \in AddSteps,
         NEW step \in SimulatorSetup, NEW new,
         new = [proc[p] EXCEPT !.at = step, !.left = {}]
  PROVE  ProcOK(new)
<1>1. /\ new.at = step /\ new.left = {} /\ new.target = Target(p)
      /\ new.failed = FALSE /\ new.clean \in BOOLEAN
  BY ProcOf DEF Procedures, Target
<1> QED
  BY <1>1 DEF ProcOK

LEMMA AppSetupOK ==
  ASSUME IInv, NEW p \in Procs, Target(p) \in Apps, proc[p].at \in AddSteps,
         NEW step \in AppSetup, NEW new,
         new = [proc[p] EXCEPT !.at = step, !.left = {}]
  PROVE  ProcOK(new)
<1>1. /\ new.at = step /\ new.left = {} /\ new.target = Target(p)
      /\ new.failed = FALSE /\ new.clean \in BOOLEAN
  BY ProcOf DEF Procedures, Target
<1> QED
  BY <1>1 DEF ProcOK

LEMMA NetworkSetupOK ==
  ASSUME IInv, NEW p \in Procs, Target(p) \in Networks, proc[p].at \in AddSteps,
         NEW step \in NetworkSetup \ {"createPod"}, NEW left,
         left \subseteq DeviceNames(Target(p)), step \in OverLeft => left # {}, NEW new,
         new = [proc[p] EXCEPT !.at = step, !.left = left]
  PROVE  ProcOK(new)
<1>1. left \subseteq ServiceNames
  BY DEF ServiceNames
<1>2. /\ new.at = step /\ new.left = left /\ new.target = Target(p)
      /\ new.failed = FALSE /\ new.clean \in BOOLEAN
  BY ProcOf DEF Procedures, Target
<1> QED
  BY <1>1, <1>2 DEF ProcOK

LEMMA SimulatorSetupSteps ==
  ASSUME IInv, NEW p \in Procs,
         \/ CreateConfigMap(p) \/ CreateSimulatorPod(p) \/ CreateSimulatorService(p)
         \/ AwaitSimulator(p) \/ AddDevice(p)
  PROVE  IInv'
<1>1. /\ proc[p].at \in SimulatorSetup
      /\ SimulatorSetup \subseteq AddSteps
  BY DEF CreateConfigMap, CreateSimulatorPod, CreateSimulatorService, AwaitSimulator, Await,
     AddDevice, At, SimulatorSetup, AddSteps
<1>2. Target(p) \in Resources
  BY <1>1, ResourceKinds
<1>3. Target(p) \in Simulators /\ Target(p) \notin Networks \cup Apps
  <2>1. proc[p].at \in {"createConfigMap", "addDevice"} => Target(p) \in Simulators
    BY <1>2, ResourceKinds DEF SimulatorSetup, SimulatorTearDown, NetworkSetup, NetworkTearDown,
       AppSetup, AppTearDown
  <2>2. Target(p) \in Simulators
    BY <2>1 DEF CreateConfigMap, CreateSimulatorPod, CreateSimulatorService, AwaitSimulator,
       AddDevice, At, IsSimulator
  <2> QED
    BY <2>2, ResourceAssumption
<1>4. InSetup(p)
  BY <1>1, <1>2 DEF InSetup
<1>5. Parts(Target(p)) = {<<"configMap", Target(p)>>, <<"service", Target(p)>>}
      /\ Devices(Target(p)) = {Target(p)}
  BY <1>3, PartsAre
<1>6. ASSUME NEW step \in SimulatorSetup
      PROVE  ProcOK([proc[p] EXCEPT !.at = step, !.left = {}])
  BY <1>1, <1>3, SimulatorSetupOK
<1>7. CASE CreateConfigMap(p)
  <2>1. PICK new : new = [proc[p] EXCEPT !.at = "createPod", !.left = {}]
    OBVIOUS
  <2>2. new.at = "createPod" /\ new.target = Target(p)
    BY <2>1, ProcOf DEF Procedures, Target
  <2>3. ToMake(proc[p]) \subseteq ToMake(new) \cup {<<"configMap", Target(p)>>}
    BY <1>3, <1>7, <2>2 DEF ToMake, CreateConfigMap, At, Target
  <2> QED
    BY <1>1, <1>4, <1>5, <1>6, <1>7, <2>1, <2>3, CreateKeeps
    DEF CreateConfigMap, SimulatorSetup, PodMade
<1>8. CASE CreateSimulatorPod(p)
  <2>1. PICK new : new = [proc[p] EXCEPT !.at = "createService", !.left = {}]
    OBVIOUS
  <2>2. new.at = "createService" /\ new.target = Target(p)
    BY <2>1, ProcOf DEF Procedures, Target
  <2>3. ToMake(proc[p]) \subseteq ToMake(new)
    BY <1>3, <1>8, <2>2 DEF ToMake, CreateSimulatorPod, At, Target
  <2> QED
    BY <1>1, <1>4, <1>6, <1>8, <2>1, <2>3, WorkloadKeeps DEF CreateSimulatorPod, SimulatorSetup
<1>9. CASE CreateSimulatorService(p)
  <2>1. PICK new : new = [proc[p] EXCEPT !.at = "awaitReady", !.left = {}]
    OBVIOUS
  <2>2. new.at = "awaitReady" /\ new.target = Target(p)
    BY <2>1, ProcOf DEF Procedures, Target
  <2>3. ToMake(proc[p]) \subseteq ToMake(new) \cup {<<"service", Target(p)>>}
    BY <1>3, <1>9, <2>2 DEF ToMake, CreateSimulatorService, At, Target
  <2> QED
    BY <1>1, <1>3, <1>4, <1>5, <1>6, <1>9, <2>1, <2>3, CreateKeeps
    DEF CreateSimulatorService, SimulatorSetup, PodMade, At
<1>10. CASE AwaitSimulator(p)
  <2>1. CASE AddsDevice(Target(p))
    BY <1>1, <1>2, <1>6, <1>10, <2>1, AwaitKeeps DEF AwaitSimulator, SimulatorSetup
  <2>2. CASE ~AddsDevice(Target(p))
    BY <1>1, <1>2, <1>6, <1>10, <2>2, AwaitKeeps DEF AwaitSimulator, SimulatorSetup
  <2> QED
    BY <2>1, <2>2
<1>11. CASE AddDevice(p)
  BY <1>2, <1>5, <1>11, TopoAddKeeps DEF AddDevice, At
<1> QED
  BY <1>7, <1>8, <1>9, <1>10, <1>11

LEMMA NetworkSetupSteps ==
  ASSUME IInv, NEW p \in Procs,
         CreateNetworkPod(p) \/ CreateServices(p) \/ AwaitNetwork(p) \/ AddDevices(p)
  PROVE  IInv'
<1>1. proc[p].at \in NetworkSetup /\ NetworkSetup \subseteq AddSteps
  BY DEF CreateNetworkPod, CreateServices, AwaitNetwork, Await, AddDevices, At, NetworkSetup, AddSteps
<1>2. Target(p) \in Resources
  BY <1>1, ResourceKinds
<1>3. Target(p) \in Networks /\ Target(p) \notin Simulators \cup Apps
  <2>1. proc[p].at \in {"createServices", "listDevices", "addDevices"} => Target(p) \in Networks
    BY <1>2, ResourceKinds DEF SimulatorSetup, SimulatorTearDown, NetworkSetup, NetworkTearDown,
       AppSetup, AppTearDown
  <2>2. Target(p) \in Networks
    BY <2>1 DEF CreateNetworkPod, CreateServices, AwaitNetwork, AddDevices, At, IsNetwork
  <2> QED
    BY <2>2, ResourceAssumption
<1>4. InSetup(p)
  BY <1>1, <1>2 DEF InSetup
<1>5. PICK old : old = proc[p].left
  OBVIOUS
<1>6. /\ old \subseteq DeviceNames(Target(p))
      /\ proc[p].at = "createPod" => old = DeviceNames(Target(p))
      /\ proc[p].at \in OverLeft => old # {}
  BY <1>2, <1>3, <1>5, ResourceKinds
<1>7. ASSUME NEW step \in NetworkSetup \ {"createPod"}, NEW left,
             left \subseteq DeviceNames(Target(p)), step \in OverLeft => left # {}
      PROVE  ProcOK([proc[p] EXCEPT !.at = step, !.left = left])
  BY <1>1, <1>3, <1>7, NetworkSetupOK
<1>8. proc[p] \in Procedures
  BY ProcOf
<1>9. CASE CreateNetworkPod(p)
  <2>1. proc[p].at = "createPod" /\ ToMake(proc[p]) = Services(old)
    BY <1>3, <1>5, <1>9, ResourceAssumption DEF CreateNetworkPod, At, ToMake, Target
  <2>2. CASE old = {}
    <3>1. PICK new : new = [proc[p] EXCEPT !.at = "awaitReady", !.left = old]
      OBVIOUS
    <3>2. ToMake(proc[p]) \subseteq ToMake(new)
      BY <2>1, <2>2 DEF Services
    <3>3. ProcOK(new) /\ "awaitReady" \in AddSteps /\ CreateWorkload(p, "awaitReady", old)
      BY <1>1, <1>5, <1>6, <1>7, <1>9, <2>2, <3>1 DEF CreateNetworkPod, Loop, NetworkSetup, OverLeft
    <3> QED
      BY <1>4, <3>1, <3>2, <3>3, WorkloadKeeps
  <2>3. CASE old # {}
    <3>1. PICK new : new = [proc[p] EXCEPT !.at = "createServices", !.left = old]
      OBVIOUS
    <3>2. new.at = "createServices" /\ new.left = old /\ new.target = Target(p)
      BY <1>8, <3>1 DEF Procedures, Target
    <3>3. ToMake(proc[p]) \subseteq ToMake(new)
      BY <1>3, <2>1, <3>2 DEF ToMake
    <3>4. ProcOK(new) /\ "createServices" \in AddSteps /\ CreateWorkload(p, "createServices", old)
      BY <1>1, <1>5, <1>6, <1>7, <1>9, <2>3, <3>1 DEF CreateNetworkPod, Loop, NetworkSetup
    <3> QED
      BY <1>4, <3>1, <3>3, <3>4, WorkloadKeeps
  <2> QED
    BY <2>2, <2>3
<1>10. CASE CreateServices(p)
  <2>1. proc[p].at = "createServices" /\ ToMake(proc[p]) = Services(old)
    BY <1>3, <1>5, <1>10 DEF CreateServices, At, ToMake, Target
  <2>2. PICK d \in old :
          Create(p, <<"service", d>>, Loop("createServices", old \ {d}, "awaitReady"), old \ {d})
    BY <1>5, <1>10 DEF CreateServices
  <2>3. <<"service", d>> \in Parts(Target(p))
    BY <1>3, <1>6, <2>2, PartsAre DEF Services
  <2>4. CASE old \ {d} = {}
    <3>1. PICK new : new = [proc[p] EXCEPT !.at = "awaitReady", !.left = old \ {d}]
      OBVIOUS
    <3>2. ToMake(proc[p]) \subseteq ToMake(new) \cup {<<"service", d>>}
      BY <2>1, <2>4 DEF Services
    <3>3. ProcOK(new) /\ "awaitReady" \in AddSteps
      BY <1>1, <1>6, <1>7, <3>1 DEF NetworkSetup, OverLeft
    <3>4. Create(p, <<"service", d>>, "awaitReady", old \ {d})
      BY <2>2, <2>4 DEF Loop
    <3> QED
      BY <1>3, <1>4, <2>1, <2>3, <3>1, <3>2, <3>3, <3>4, CreateKeeps DEF PodMade
  <2>5. CASE old \ {d} # {}
    <3>1. PICK new : new = [proc[p] EXCEPT !.at = "createServices", !.left = old \ {d}]
      OBVIOUS
    <3>2. ToMake(new) = Services(old \ {d})
      <4>1. new.at = "createServices" /\ new.left = old \ {d} /\ new.target = Target(p)
        BY <1>8, <3>1 DEF Procedures, Target
      <4> QED
        BY <1>3, <4>1 DEF ToMake
    <3>3. ToMake(proc[p]) \subseteq ToMake(new) \cup {<<"service", d>>}
      BY <2>1, <3>2 DEF Services
    <3>4. ProcOK(new) /\ "createServices" \in AddSteps
      BY <1>1, <1>6, <1>7, <2>5, <3>1 DEF NetworkSetup
    <3>5. Create(p, <<"service", d>>, "createServices", old \ {d})
      BY <2>2, <2>5 DEF Loop
    <3> QED
      BY <1>4, <2>1, <2>3, <3>1, <3>3, <3>4, <3>5, CreateKeeps DEF PodMade
  <2> QED
    BY <2>4, <2>5
<1>11. CASE AwaitNetwork(p)
  <2>1. ProcOK([proc[p] EXCEPT !.at = "listDevices", !.left = {}]) /\ "listDevices" \in AddSteps
    BY <1>1, <1>7 DEF NetworkSetup, OverLeft
  <2> QED
    BY <1>2, <1>11, <2>1, AwaitKeeps DEF AwaitNetwork
<1>12. CASE At(p, "listDevices") /\ AddDevices(p)
  <2>1. World(p) /\ UNCHANGED <<owner, pod, registered>> /\ KeepsDevices(p)
    BY <1>12, DevicesStay DEF AddDevices, At, World, world
  <2>2. CASE Fault /\ AddFails(p)
    BY <1>4, <2>1, <2>2, SetupFails
  <2>3. CASE ~(Fault /\ AddFails(p))
    <3>1. PICK left : left = ServicesOf(Target(p))
      OBVIOUS
    <3>2. Proceed(p, Loop("addDevices", left, "return"), left) /\ UNCHANGED faults
      BY <1>12, <2>3, <3>1 DEF AddDevices, At
    <3>3. /\ left \subseteq DeviceNames(Target(p))
          /\ \A d \in DeviceNames(Target(p)) : d \in left <=> Owns(Target(p), <<"service", d>>)
      BY <1>3, <3>1, LabelledServices DEF IInv
    <3>4. PICK r \in Networks : r = Target(p)
      BY <1>3
    <3>5. r \in Resources /\ Devices(r) = DeviceNames(r) /\ ToMake(proc[p]) = {}
      BY <1>12, <3>4, PartsAre DEF Resources, At, ToMake
    <3>6. UNCHANGED disturbed
      BY <3>2 DEF Proceed, AddReturns, history
    <3>7. ASSUME r \notin disturbed
          PROVE  /\ pod[r] = "ready" /\ \A o \in Parts(r) : Safe(o) => Owns(r, o) /\ Owns(r, o)'
                 /\ \A d \in Devices(r) \ left : ~Safe(<<"service", d>>)
      <4>1. pod[r] = "ready" /\ \A o \in Parts(r) : Safe(o) => Owns(r, o)
        BY <1>12, <3>4, <3>5, <3>7, MadeParts DEF IInv, SetupInv, Target, At, AddSteps
      <4> QED
        BY <2>1, <3>3, <3>4, <3>5, <4>1, DeviceParts DEF Owns, Label
    <3>8. CASE left = {}
      <4>1. ASSUME r \notin disturbed PROVE Up(r)'
        <5>1. \A x : Safe(x)' <=> Safe(x)
          BY <3>6 DEF Safe
        <5> QED
          BY <2>1, <3>4, <3>7, <3>8, <4>1, <5>1, MadeParts DEF Up
      <4> QED
        BY <1>4, <2>1, <3>2, <3>4, <3>8, <4>1, SetupReturns DEF Loop
    <3>9. CASE left # {}
      <4>1. PICK new : new = [proc[p] EXCEPT !.at = "addDevices", !.left = left]
        OBVIOUS
      <4>2. ProcOK(new) /\ "addDevices" \in AddSteps
        BY <1>1, <1>7, <3>3, <3>9, <4>1 DEF NetworkSetup
      <4>3. Proceed(p, "addDevices", left)
        BY <3>2, <3>9 DEF Loop
      <4>4. proc'[p] = new
        BY <4>1, <4>3 DEF Proceed, IInv, ProcsOK
      <4>5. new.at = "addDevices" /\ new.left = left /\ new.target = r
        BY <1>8, <3>4, <4>1 DEF Procedures, Target
      <4>6. SetupInv(p)'
        BY <2>1, <3>5, <3>6, <3>7, <4>4, <4>5, SetupClaims, MadeParts
      <4> QED
        BY <1>4, <2>1, <3>2, <4>1, <4>2, <4>3, <4>6, SetupGoesOn
    <3> QED
      BY <3>8, <3>9
  <2> QED
    BY <2>2, <2>3
<1>13. CASE At(p, "addDevices") /\ AddDevices(p)
  <2>1. PICK d : d = First(old)
    OBVIOUS
  <2>2. d \in old /\ d \in Devices(Target(p)) /\ Devices(Target(p)) = DeviceNames(Target(p))
    BY <1>3, <1>6, <1>13, <2>1, FirstOf, PartsAre DEF At, OverLeft
  <2>3. PICK step : step = Loop("addDevices", old \ {d}, "return")
    OBVIOUS
  <2>4. TopoAdd(p, d, step, old \ {d})
    BY <1>5, <1>13, <2>1, <2>3 DEF AddDevices, At
  <2>5. step = IF old \ {d} = {} THEN "return" ELSE "addDevices"
    BY <2>3 DEF Loop
  <2>6. step # "return" => ProcOK([proc[p] EXCEPT !.at = step, !.left = old \ {d}])
    BY <1>6, <1>7, <2>5 DEF NetworkSetup
  <2>7. PICK left : left = old \ {d}
    OBVIOUS
  <2>8. \A e \in Devices(Target(p)) \ left :
          e = d \/ (proc[p].at = "addDevices" /\ e \notin proc[p].left)
    BY <1>5, <1>13, <2>7 DEF At
  <2> QED
    BY <1>2, <1>13, <2>2, <2>4, <2>5, <2>6, <2>7, <2>8, TopoAddKeeps DEF At
<1> QED
  BY <1>9, <1>10, <1>11, <1>12, <1>13 DEF AddDevices

LEMMA AppSetupSteps ==
  ASSUME IInv, NEW p \in Procs,
         CreateAppService(p) \/ CreateSecret(p) \/ CreateDeployment(p) \/ AwaitApp(p)
  PROVE  IInv'
<1>1. proc[p].at \in AppSetup /\ AppSetup \subseteq AddSteps
  BY DEF CreateAppService, CreateSecret, CreateDeployment, AwaitApp, Await, At, AppSetup, AddSteps
<1>2. Target(p) \in Resources
  BY <1>1, ResourceKinds
<1>3. Target(p) \in Apps /\ Target(p) \notin Simulators \cup Networks
  <2>1. proc[p].at \in {"createSecret", "createDeployment"} => Target(p) \in Apps
    BY <1>2, ResourceKinds DEF SimulatorSetup, SimulatorTearDown, NetworkSetup, NetworkTearDown,
       AppSetup, AppTearDown
  <2>2. Target(p) \in Apps
    BY <2>1 DEF CreateAppService, CreateSecret, CreateDeployment, AwaitApp, At, IsApp
  <2> QED
    BY <2>2, ResourceAssumption
<1>4. InSetup(p)
  BY <1>1, <1>2 DEF InSetup
<1>5. Parts(Target(p)) = {<<"service", Target(p)>>, <<"secret", Target(p)>>} /\ Devices(Target(p)) = {}
  BY <1>3, PartsAre
<1>6. ASSUME NEW step \in AppSetup
      PROVE  ProcOK([proc[p] EXCEPT !.at = step, !.left = {}])
  BY <1>1, <1>3, AppSetupOK
<1>7. CASE CreateAppService(p)
  <2>1. PICK new : new = [proc[p] EXCEPT !.at = "createSecret", !.left = {}]
    OBVIOUS
  <2>2. new.at = "createSecret" /\ new.target = Target(p)
    BY <2>1, ProcOf DEF Procedures, Target
  <2>3. ToMake(proc[p]) \subseteq ToMake(new) \cup {<<"service", Target(p)>>}
    BY <1>3, <1>7, <2>2 DEF ToMake, CreateAppService, At, Target
  <2> QED
    BY <1>1, <1>4, <1>5, <1>6, <1>7, <2>1, <2>3, CreateKeeps DEF CreateAppService, AppSetup, PodMade
<1>8. CASE CreateSecret(p)
  <2>1. PICK new : new = [proc[p] EXCEPT !.at = "createDeployment", !.left = {}]
    OBVIOUS
  <2>2. new.at = "createDeployment" /\ new.target = Target(p)
    BY <2>1, ProcOf DEF Procedures, Target
  <2>3. ToMake(proc[p]) \subseteq {<<"secret", Target(p)>>} /\ "createDeployment" \in AddSteps
    BY <1>3, <1>8 DEF ToMake, CreateSecret, At, Target, AddSteps
  <2>4. CASE Create(p, <<"secret", Target(p)>>, "createDeployment", {})
    BY <1>1, <1>4, <1>5, <1>6, <1>8, <2>1, <2>3, <2>4, CreateKeeps DEF AppSetup, PodMade
  <2>5. ASSUME Target(p) \in Secretless, Proceed(p, "createDeployment", {}), UNCHANGED <<world, faults>>
        PROVE  IInv'
    <3>1. UNCHANGED <<owner, pod, registered, disturbed>> /\ proc'[p] = new
      BY <2>1, <2>5 DEF world, Proceed, history, IInv, ProcsOK
    <3>2. World(p) /\ KeepsDevices(p)
      BY <3>1, DevicesStay DEF World
    <3>3. PICK r \in Resources : r = Target(p)
      BY <1>2
    <3>4. ASSUME r \notin disturbed PROVE \A o \in Made(r) : Safe(o) => Owns(r, o)'
      <4>1. \A o \in Made(r) \ ToMake(proc[p]) : Safe(o) => Owns(r, o)
        BY <1>4, <3>3, <3>4 DEF IInv, SetupInv, InSetup, Target
      <4>2. Made(r) = {<<"service", r>>}
        BY <2>5, <3>3, MadeParts
      <4> QED
        BY <2>3, <3>1, <3>3, <4>1, <4>2 DEF Owns, Label
    <3>5. SetupInv(p)'
      BY <1>3, <2>2, <3>1, <3>3, <3>4, SetupClaims DEF PodMade
    <3> QED
      BY <1>4, <1>6, <2>1, <2>3, <2>5, <3>2, <3>5, SetupGoesOn DEF AppSetup
  <2> QED
    BY <1>8, <2>4, <2>5 DEF CreateSecret
<1>9. CASE CreateDeployment(p)
  <2>1. ToMake(proc[p]) = {}
    BY <1>9 DEF CreateDeployment, At, ToMake
  <2> QED
    BY <1>1, <1>4, <1>6, <1>9, <2>1, WorkloadKeeps DEF CreateDeployment, AppSetup
<1>10. CASE AwaitApp(p)
  BY <1>2, <1>5, <1>10, AwaitKeeps DEF AwaitApp
<1> QED
  BY <1>7, <1>8, <1>9, <1>10

-----------------------------------------------------------------------------
(* The calls of TearDown.                                                  *)

(* A step that fits the resource, over devices of it.                      *)
Fits(r, step, left) ==
  /\ left \in SUBSET ServiceNames
  /\ \/ r \in Simulators /\ step \in SimulatorTearDown
     \/ /\ r \in Networks /\ step \in NetworkTearDown
        /\ left \subseteq DeviceNames(r)
        /\ step \in OverLeft => left # {}
     \/ r \in Apps /\ step \in AppTearDown

(* What there will be to claim, safe meaning the same.                     *)
ClaimsAfter(r, step, left, failed, clean) ==
  /\ clean => \A o \in Parts(r) \ ToDelete(r, step, left) : Safe(o) => ~Owns(r, o)'
  /\ clean /\ step \in PodDeleted \cup {"deleteService"} => pod'[r] \in {"none", "terminating"}
  /\ r \in Networks /\ step \in OverLeft =>
       \A d \in left : Safe(<<"service", d>>) => Owns(r, <<"service", d>>)'
  /\ r \in Simulators /\ step \in DevicesRemoved /\ (clean \/ ~failed) => r \notin registered'
  /\ r \in Networks /\ step \in DevicesRemoved \cup {"getDevices", "removeDevices"} /\ ~failed =>
       \A d \in Devices(r) :
         Safe(<<"service", d>>) /\ Owns(r, <<"service", d>>)' /\ d \in registered' =>
           step \in {"getDevices", "removeDevices"} /\ d \in left

LEMMA RemoveKeeps ==
  ASSUME IInv, NEW p \in Procs, NEW r \in Resources, r = Target(p), proc[p].at \in RemoveSteps,
         World(p), NEW step \in RemoveSteps, NEW left, Fits(r, step, left),
         NEW err \in BOOLEAN, NEW fault \in BOOLEAN,
         TearDownGoesOn(p, step, left, err, fault),
         NEW failed \in BOOLEAN, failed = (proc[p].failed \/ err), Told(failed),
         NEW clean \in BOOLEAN, clean = (proc[p].clean /\ ~fault),
         r \notin disturbed => ClaimsAfter(r, step, left, failed, clean)
  PROVE  IInv'
<1>1. InTearDown(p) /\ proc[p] \in Procedures /\ proc \in [Procs -> Procedures]
  BY DEF InTearDown, IInv, ProcsOK
<1>2. PICK new : new = [proc[p] EXCEPT !.at = step, !.left = left, !.failed = @ \/ err,
                                       !.clean = @ /\ ~fault]
  OBVIOUS
<1>3. /\ new.at = step /\ new.left = left /\ new.target = r
      /\ new.failed = failed /\ new.clean = clean
  BY <1>1, <1>2 DEF Procedures, Target
<1>4. ProcOK(new)
  BY <1>3, ResourceAssumption DEF ProcOK, Fits, NetworkTearDown
<1>5. new \in Procedures
  BY <1>1, <1>2, <1>3, <1>4 DEF Procedures, ProcOK
<1>6. proc' = [proc EXCEPT ![p] = new] /\ UNCHANGED history
  BY <1>1, <1>2, StepsApart DEF TearDownGoesOn, Procedures
<1>7. /\ proc' \in [Procs -> Procedures] /\ proc'[p] = new
      /\ \A q \in Procs \ {p} : proc'[q] = proc[q]
  BY <1>1, <1>5, <1>6
<1>8. GoesOn(p)
  BY <1>3, <1>4, <1>6, <1>7, StepsApart DEF GoesOn, history
<1>9. Changes(p)
  BY <1>6, <1>7 DEF TearDownGoesOn, World, Changes, pool, history
<1>10. TearDownInv(p)'
  <2>1. \A x : Safe(x)' <=> Safe(x)
    BY <1>6 DEF Safe, history
  <2>2. r \notin disturbed => TearDownClaims(r, step, left, failed, clean)'
    BY <2>1 DEF TearDownClaims, ClaimsAfter
  <2> QED
    BY <1>3, <1>6, <1>7, <2>2 DEF TearDownInv, history
<1>11. SetupInv(p)'
  BY <1>3, <1>7, StepsApart DEF SetupInv
<1>12. KeepsOwn(p)
  BY <1>6, <1>7, <1>10, <1>11 DEF KeepsOwn, IInv, AloneInv, history
<1>13. KeepsDevices(p)
  BY <1>3, <1>7 DEF KeepsDevices, Told
<1> QED
  BY <1>7, <1>8, <1>9, <1>12, <1>13, StepKeeps DEF Moves

(* What is known of the resource meanwhile.                                *)
LEMMA KnownSoFar ==
  ASSUME IInv, NEW p \in Procs, NEW r \in Resources, r = Target(p), proc[p].at \in RemoveSteps,
         r \notin disturbed, NEW step, proc[p].at = step
  PROVE  /\ proc[p].clean => \A o \in Parts(r) \ ToDelete(r, step, proc[p].left) : Safe(o) => ~Owns(r, o)
         /\ proc[p].clean /\ step \in PodDeleted \cup {"deleteService"} =>
              pod[r] \in {"none", "terminating"}
         /\ r \in Networks /\ step \in OverLeft =>
              \A d \in proc[p].left : Safe(<<"service", d>>) => Owns(r, <<"service", d>>)
         /\ r \in Simulators /\ step \in DevicesRemoved /\ (proc[p].clean \/ ~proc[p].failed) =>
              r \notin registered
         /\ r \in Networks /\ step \in DevicesRemoved \cup {"getDevices", "removeDevices"}
              /\ ~proc[p].failed =>
              \A d \in Devices(r) :
                Safe(<<"service", d>>) /\ Owns(r, <<"service", d>>) /\ d \in registered =>
                  step \in {"getDevices", "removeDevices"} /\ d \in proc[p].left
BY DEF IInv, TearDownInv, TearDownClaims, Target

LEMMA UnmakeDeletes ==
  ASSUME NEW r \in Resources, NEW o \in Parts(r), Unmake(o),
         Safe(o) => Owns(r, o)
  PROVE  /\ DeletesPart(r) /\ UNCHANGED <<pod, registered>>
         /\ ~Owns(r, o)' /\ DOMAIN owner' = DOMAIN owner \ {o}
         /\ \A x : x # o => (Owns(r, x)' <=> Owns(r, x))
BY DEF Unmake, DeletesPart, Owns, Restrict

(* The object of a simulator or an app that has no device in onos-topo.    *)
LEMMA DeleteKeeps ==
  ASSUME IInv, NEW p \in Procs, NEW r \in Simulators \cup Apps, r = Target(p),
         NEW at, proc[p].at = at, at \in RemoveSteps,
         NEW o \in Parts(r), NEW step \in RemoveSteps, Fits(r, step, {}),
         ToDelete(r, at, proc[p].left) \subseteq ToDelete(r, step, {}) \cup {o},
         step \in PodDeleted => at \in PodDeleted \cup {"deleteService"},
         r \in Simulators => at \in DevicesRemoved, step # "deleteService",
         Delete(p, o, step)
  PROVE  IInv'
<1>1. r \in Resources /\ r \notin Networks
  BY ResourceAssumption DEF Resources
<1>2. Safe(o) => Owns(r, o) \/ o \notin DOMAIN owner
  BY OwnParts DEF IInv
<1>3. ASSUME Unmake(o) PROVE World(p) /\ UNCHANGED <<pod, registered>>
  <2>1. o \in DOMAIN owner
    BY <1>3 DEF Unmake
  <2> QED
    BY <1>1, <1>2, <1>3, <2>1, UnmakeDeletes DEF World
<1>4. ASSUME NEW err \in BOOLEAN, NEW fault \in BOOLEAN, fault => err,
             TearDownGoesOn(p, step, {}, err, fault), Unmake(o) \/ UNCHANGED world,
             ~fault => o \notin DOMAIN owner'
      PROVE  IInv'
  <2>1. World(p) /\ UNCHANGED <<pod, registered>>
    BY <1>3, <1>4 DEF World, world
  <2>2. \A x : Owns(r, x)' => Owns(r, x)
    BY <1>4 DEF Owns, Unmake, Restrict, world
  <2>3. PICK failed \in BOOLEAN, clean \in BOOLEAN :
          failed = (proc[p].failed \/ err) /\ clean = (proc[p].clean /\ ~fault)
    OBVIOUS
  <2>4. ASSUME r \notin disturbed
        PROVE  /\ clean => \A x \in Parts(r) \ ToDelete(r, step, {}) : Safe(x) => ~Owns(r, x)'
               /\ clean /\ step \in PodDeleted \cup {"deleteService"} => pod'[r] \in {"none", "terminating"}
               /\ r \in Simulators /\ (clean \/ ~failed) => r \notin registered'
    <3>1. ASSUME clean, NEW x \in Parts(r) \ ToDelete(r, step, {}), Safe(x) PROVE ~Owns(r, x)'
      <4>1. CASE x = o
        BY <1>4, <2>3, <3>1, <4>1 DEF Owns
      <4>2. CASE x # o
        BY <1>1, <2>2, <2>3, <2>4, <3>1, <4>2, KnownSoFar
      <4> QED
        BY <4>1, <4>2
    <3> QED
      BY <1>1, <2>1, <2>3, <2>4, <3>1, KnownSoFar
  <2>5. Told(failed)
    <3> SUFFICES ASSUME NEW d \in registered', <<"service", d>> \notin DOMAIN owner',
                        Safe(<<"service", d>>), <<"service", d>> \in DOMAIN owner,
                        ~proc[p].failed, ~err
                 PROVE  FALSE
      BY <2>1, <2>3 DEF Told
    <3>1. o = <<"service", d>> /\ d \in registered
      BY <1>4, <2>1 DEF Unmake, Restrict, world
    <3>2. d = r
      BY <1>1, <3>1, PartsAre
    <3>3. r \in Simulators
      <4>1. PICK s \in Resources : d \in Devices(s)
        BY <3>1 DEF IInv, LabelInv
      <4> QED
        BY <1>1, <3>2, <4>1, PartsAre, NameAssumption, ResourceAssumption DEF Resources
    <3>4. r \notin disturbed
      BY <1>1, <3>1, UnsafeIfDisturbed
    <3> QED
      BY <1>1, <3>1, <3>2, <3>3, <3>4, KnownSoFar
  <2>6. r \notin disturbed => ClaimsAfter(r, step, {}, failed, clean)
    BY <1>1, <2>4 DEF ClaimsAfter
  <2> QED
    BY <1>1, <1>4, <2>1, <2>3, <2>5, <2>6, RemoveKeeps, ZenonT(60)
<1>5. CASE Unmake(o) /\ TearDownGoesOn(p, step, {}, FALSE, FALSE)
  <2>1. o \notin DOMAIN owner'
    BY <1>5 DEF Unmake, Restrict
  <2> QED
    BY <1>4, <1>5, <2>1
<1>6. CASE o \notin DOMAIN owner /\ UNCHANGED world /\ TearDownGoesOn(p, step, {}, TRUE, FALSE)
  BY <1>4, <1>6 DEF world
<1>7. CASE (Unmake(o) \/ UNCHANGED world) /\ TearDownGoesOn(p, step, {}, TRUE, TRUE)
  BY <1>4, <1>7
<1> QED
  BY <1>5, <1>6, <1>7 DEF Delete

LEMMA OfTheSame ==
  ASSUME NEW p \in Procs, UNCHANGED world, NEW told
  PROVE  World(p) /\ Told(told) /\ UNCHANGED <<owner, pod, registered>>
         /\ \A r, o : Owns(r, o)' <=> Owns(r, o)
BY DEF World, Told, world, Owns

LEMMA DeleteWorkloadKeeps ==
  ASSUME IInv, NEW p \in Procs, NEW r \in Resources, r = Target(p),
         proc[p].at \in {"deletePod", "deleteDeployment"},
         r \in Simulators \cup Networks => proc[p].at = "deletePod",
         NEW to \in {"none", "terminating"}, r \in Apps => to = "none",
         NEW step \in {"deleteService", "listServices"}, Fits(r, step, {}),
         DeleteWorkload(p, to, step)
  PROVE  IInv'
<1>1. /\ proc[p].at \in RemoveSteps /\ step \in RemoveSteps
      /\ ToDelete(r, step, {}) = Parts(r) /\ step \notin OverLeft
      /\ r \in Simulators \cup Networks => proc[p].at \in DevicesRemoved
  BY DEF RemoveSteps, ToDelete, OverLeft, DevicesRemoved
<1> DEFINE deleted == SetPod(r, {"starting", "ready", "terminating"}, to)
<1>2. ASSUME deleted PROVE World(p) /\ UNCHANGED <<owner, registered>> /\ pod'[r] = to
  <2>1. pod \in [Resources -> {"none", "starting", "ready", "terminating"}]
    BY DEF IInv, Types
  <2> QED
    BY <1>2, <2>1 DEF World, SetPod, SetsPod
<1>3. ASSUME NEW err \in BOOLEAN, NEW fault \in BOOLEAN, fault => err,
             TearDownGoesOn(p, step, {}, err, fault), deleted \/ UNCHANGED world,
             ~fault => pod'[r] \in {"none", "terminating"}
      PROVE  IInv'
  <2>1. World(p) /\ UNCHANGED <<owner, registered>>
    BY <1>2, <1>3 DEF World, world
  <2>2. PICK failed \in BOOLEAN, clean \in BOOLEAN :
          failed = (proc[p].failed \/ err) /\ clean = (proc[p].clean /\ ~fault)
    OBVIOUS
  <2>3. Told(failed)
    BY <2>1 DEF Told
  <2>4. \A x : Owns(r, x)' <=> Owns(r, x)
    BY <2>1 DEF Owns
  <2>5. ASSUME r \notin disturbed PROVE ClaimsAfter(r, step, {}, failed, clean)
    <3>1. r \in Simulators /\ (clean \/ ~failed) => r \notin registered'
      BY <1>1, <1>3, <2>1, <2>2, <2>5, KnownSoFar
    <3>2. r \in Networks /\ ~failed =>
            \A d \in Devices(r) :
              ~(Safe(<<"service", d>>) /\ Owns(r, <<"service", d>>)' /\ d \in registered')
      BY <1>1, <1>3, <2>1, <2>2, <2>4, <2>5, KnownSoFar
    <3>3. clean => pod'[r] \in {"none", "terminating"}
      BY <1>3, <2>2
    <3> QED
      BY <1>1, <3>1, <3>2, <3>3 DEF ClaimsAfter
  <2> QED
    BY <1>1, <1>3, <2>1, <2>2, <2>3, <2>5, RemoveKeeps, ZenonT(60)
<1>4. CASE deleted /\ TearDownGoesOn(p, step, {}, FALSE, FALSE)
  BY <1>2, <1>3, <1>4
<1>5. CASE pod[r] = "none" /\ UNCHANGED world /\ TearDownGoesOn(p, step, {}, TRUE, FALSE)
  BY <1>3, <1>5 DEF world
<1>6. CASE (deleted \/ UNCHANGED world) /\ TearDownGoesOn(p, step, {}, TRUE, TRUE)
  BY <1>3, <1>6
<1> QED
  BY <1>4, <1>5, <1>6 DEF DeleteWorkload

(* The search for a device: its list goes on without it when it is missing *)
(* or there is an error.                                                   *)
LEMMA TopoGetKeeps ==
  ASSUME IInv, NEW p \in Procs, NEW r \in Resources, r = Target(p),
         proc[p].at \in {"getDevice", "getDevices"}, NEW d,
         r \in Simulators => d = r /\ proc[p].at = "getDevice",
         r \in Networks => proc[p].at = "getDevices", r \notin Apps,
         NEW missing \in {"getDevices", "deletePod"}, NEW left, Fits(r, missing, left),
         left \subseteq proc[p].left, Fits(r, "removeDevice", proc[p].left) \/ r \in Networks,
         r \in Networks => Fits(r, "removeDevices", proc[p].left),
         NEW found, found = IF r \in Networks THEN "removeDevices" ELSE "removeDevice",
         TopoGet(p, d, found, missing, left)
  PROVE  IInv'
<1>1. /\ proc[p].at \in RemoveSteps /\ missing \in RemoveSteps /\ found \in RemoveSteps
      /\ ToDelete(r, missing, left) = Parts(r) /\ ToDelete(r, found, proc[p].left) = Parts(r)
      /\ missing \notin PodDeleted \cup {"deleteService"} /\ found \notin PodDeleted \cup {"deleteService"}
      /\ r \notin Networks => found \notin DevicesRemoved
  BY DEF RemoveSteps, ToDelete, PodDeleted, DevicesRemoved
<1>2. UNCHANGED world
  BY DEF TopoGet
<1>3. ASSUME r \in Networks, r \notin disturbed
      PROVE  \A e \in proc[p].left : Safe(<<"service", e>>) => Owns(r, <<"service", e>>)'
  BY <1>1, <1>2, <1>3, KnownSoFar, OfTheSame DEF OverLeft
<1>4. ASSUME NEW fault \in BOOLEAN, TearDownGoesOn(p, missing, left, TRUE, fault),
             ~fault => d \notin registered
      PROVE  IInv'
  <2>1. PICK err \in BOOLEAN : err /\ TearDownGoesOn(p, missing, left, err, fault)
    BY <1>4
  <2>2. PICK failed \in BOOLEAN, clean \in BOOLEAN :
          failed = (proc[p].failed \/ err) /\ clean = (proc[p].clean /\ ~fault)
    OBVIOUS
  <2>3. r \notin disturbed => ClaimsAfter(r, missing, left, failed, clean)
    BY <1>1, <1>2, <1>3, <1>4, <2>1, <2>2 DEF ClaimsAfter, world
  <2>4. World(p) /\ Told(failed) /\ missing \in RemoveSteps /\ proc[p].at \in RemoveSteps
    BY <1>1, <1>2, OfTheSame
  <2> QED
    BY <2>1, <2>2, <2>3, <2>4, RemoveKeeps, ZenonT(60)
<1>5. ASSUME d \in registered, TearDownGoesOn(p, found, proc[p].left, FALSE, FALSE) PROVE IInv'
  <2>1. PICK failed \in BOOLEAN, clean \in BOOLEAN :
          failed = (proc[p].failed \/ FALSE) /\ clean = (proc[p].clean /\ ~FALSE)
    BY ProcOf
  <2>2. ASSUME r \notin disturbed PROVE ClaimsAfter(r, found, proc[p].left, failed, clean)
    <3>1. r \in Networks /\ ~failed =>
            \A e \in Devices(r) :
              Safe(<<"service", e>>) /\ Owns(r, <<"service", e>>)' /\ e \in registered' =>
                e \in proc[p].left
      BY <1>1, <1>2, <2>1, <2>2, KnownSoFar, OfTheSame
    <3> QED
      BY <1>1, <1>3, <2>2, <3>1 DEF ClaimsAfter
  <2>3. Fits(r, found, proc[p].left)
    OBVIOUS
  <2> QED
    BY <1>1, <1>2, <1>5, <2>1, <2>2, <2>3, OfTheSame, RemoveKeeps
<1> QED
  BY <1>4, <1>5 DEF TopoGet

(* A device is removed from onos-topo: its service is still there, or was  *)
(* gone before.                                                            *)
LEMMA TopoRemoveKeeps ==
  ASSUME IInv, NEW p \in Procs, NEW r \in Resources, r = Target(p),
         proc[p].at \in {"removeDevice", "removeDevices"}, NEW d \in Devices(r),
         r \in Simulators => proc[p].at = "removeDevice",
         r \in Networks => proc[p].at = "removeDevices" /\ d \in proc[p].left, r \notin Apps,
         NEW next \in {"getDevices", "deletePod"}, NEW left, Fits(r, next, left),
         r \in Networks => left = proc[p].left \ {d} /\ (next = "deletePod" => left = {}),
         TopoRemove(p, d, next, left)
  PROVE  IInv'
<1>1. /\ proc[p].at \in RemoveSteps /\ next \in RemoveSteps
      /\ ToDelete(r, next, left) = Parts(r) /\ next \notin PodDeleted \cup {"deleteService"}
  BY DEF RemoveSteps, ToDelete, PodDeleted
<1>2. UNCHANGED <<owner, pod>> /\ registered' \in {registered, registered \ {d}}
  BY DEF TopoRemove
<1>3. ASSUME r \in Networks, r \notin disturbed
      PROVE  \A e \in proc[p].left : Safe(<<"service", e>>) => Owns(r, <<"service", e>>)
  BY <1>1, <1>3, KnownSoFar DEF OverLeft
<1>4. World(p)
  <2>1. Safe(<<"service", d>>) => r \notin disturbed
    BY DeviceParts, UnsafeIfDisturbed
  <2> QED
    BY <1>2, <1>3, <2>1 DEF World, Registers
<1>5. \A told : Told(told)
  BY <1>2 DEF Told
<1>6. \A x : Owns(r, x)' <=> Owns(r, x)
  BY <1>2 DEF Owns
<1>7. ASSUME NEW err \in BOOLEAN, NEW fault \in BOOLEAN, fault => err,
             TearDownGoesOn(p, next, left, err, fault), ~fault => registered' = registered \ {d}
      PROVE  IInv'
  <2>1. PICK failed \in BOOLEAN, clean \in BOOLEAN :
          failed = (proc[p].failed \/ err) /\ clean = (proc[p].clean /\ ~fault)
    OBVIOUS
  <2>2. ASSUME r \notin disturbed PROVE ClaimsAfter(r, next, left, failed, clean)
    <3>1. r \in Networks => \A e \in left : Safe(<<"service", e>>) => Owns(r, <<"service", e>>)'
      BY <1>3, <1>6, <2>2
    <3>2. r \in Simulators /\ (clean \/ ~failed) => r \notin registered'
      BY <1>7, <2>1, PartsAre
    <3>3. ASSUME r \in Networks, ~failed, NEW e \in Devices(r), Safe(<<"service", e>>),
                 Owns(r, <<"service", e>>)', e \in registered'
          PROVE  next = "getDevices" /\ e \in left
      <4>1. e \in proc[p].left
        BY <1>1, <1>2, <1>6, <1>7, <2>1, <2>2, <3>3, KnownSoFar, ZenonT(60)
      <4>2. e # d
        BY <1>7, <2>1, <3>3
      <4> QED
        BY <3>3, <4>1, <4>2
    <3> QED
      BY <1>1, <3>1, <3>2, <3>3 DEF ClaimsAfter
  <2>3. Told(failed) /\ next \in RemoveSteps /\ proc[p].at \in RemoveSteps
    BY <1>1, <1>5
  <2> QED
    BY <1>4, <1>7, <2>1, <2>2, <2>3, RemoveKeeps, ZenonT(60)
<1>8. CASE registered' = registered \ {d} /\ TearDownGoesOn(p, next, left, FALSE, FALSE)
  BY <1>7, <1>8
<1>9. CASE TearDownGoesOn(p, next, left, TRUE, TRUE)
  BY <1>7, <1>9
<1> QED
  BY <1>8, <1>9 DEF TopoRemove

(* The list of a network's devices: its services.                          *)
LEMMA ListToRemoveKeeps ==
  ASSUME IInv, NEW p \in Procs, NEW r \in Networks, r = Target(p), proc[p].at = "listToRemove",
         UNCHANGED world,
         \/ /\ TearDownGoesOn(p, "deletePod", {}, TRUE, TRUE)
         \/ /\ TearDownGoesOn(p, Loop("getDevices", ServicesOf(r), "deletePod"), ServicesOf(r), FALSE, FALSE)
  PROVE  IInv'
<1>1. r \in Resources /\ Devices(r) = DeviceNames(r) /\ r \notin Simulators
  BY ResourceAssumption, PartsAre DEF Resources
<1>2. /\ ServicesOf(r) \subseteq DeviceNames(r) /\ DeviceNames(r) \subseteq ServiceNames
      /\ \A d \in DeviceNames(r) : d \in ServicesOf(r) <=> Owns(r, <<"service", d>>)
  BY <1>1, LabelledServices, PartsAreObjects DEF IInv
<1>3. ASSUME NEW step \in {"getDevices", "deletePod"}, NEW left, left \subseteq DeviceNames(r),
             step = "getDevices" => left = ServicesOf(r) /\ left # {},
             NEW err \in BOOLEAN, NEW fault \in BOOLEAN, fault => err,
             step = "deletePod" => err \/ ServicesOf(r) = {},
             TearDownGoesOn(p, step, left, err, fault)
      PROVE  IInv'
  <2>1. /\ proc[p].at \in RemoveSteps /\ step \in RemoveSteps /\ Fits(r, step, left)
        /\ ToDelete(r, step, left) = Parts(r) /\ step \notin PodDeleted \cup {"deleteService"}
        /\ step = "deletePod" => step \notin OverLeft
    BY <1>1, <1>2, <1>3 DEF RemoveSteps, ToDelete, PodDeleted, Fits, NetworkTearDown, OverLeft
  <2>2. PICK failed \in BOOLEAN, clean \in BOOLEAN :
          failed = (proc[p].failed \/ err) /\ clean = (proc[p].clean /\ ~fault)
    OBVIOUS
  <2>3. World(p) /\ Told(failed) /\ \A o : Owns(r, o)' <=> Owns(r, o)
    BY OfTheSame
  <2>4. ClaimsAfter(r, step, left, failed, clean)
    BY <1>1, <1>2, <1>3, <2>1, <2>2, <2>3 DEF ClaimsAfter
  <2> QED
    BY <1>1, <1>3, <2>1, <2>2, <2>3, <2>4, RemoveKeeps
<1>4. CASE TearDownGoesOn(p, "deletePod", {}, TRUE, TRUE)
  BY <1>3, <1>4
<1>5. CASE TearDownGoesOn(p, Loop("getDevices", ServicesOf(r), "deletePod"), ServicesOf(r), FALSE, FALSE)
  <2>1. CASE ServicesOf(r) = {}
    BY <1>3, <1>5, <2>1 DEF Loop
  <2>2. CASE ServicesOf(r) # {}
    <3>1. PICK left : left = ServicesOf(r)
      OBVIOUS
    <3>2. TearDownGoesOn(p, "getDevices", left, FALSE, FALSE)
      BY <1>5, <2>2, <3>1 DEF Loop
    <3> QED
      BY <1>2, <1>3, <2>2, <3>1, <3>2
  <2> QED
    BY <2>1, <2>2
<1> QED
  BY <1>4, <1>5

LEMMA ListServicesKeeps ==
  ASSUME IInv, NEW p \in Procs, NEW r \in Networks, r = Target(p), ListServices(p)
  PROVE  IInv'
<1>1. /\ r \in Resources /\ Devices(r) = DeviceNames(r) /\ Parts(r) = Services(DeviceNames(r))
      /\ r \notin Simulators
  BY ResourceAssumption, PartsAre DEF Resources
<1>2. /\ ServicesOf(r) \subseteq DeviceNames(r) /\ DeviceNames(r) \subseteq ServiceNames
      /\ \A d \in DeviceNames(r) : d \in ServicesOf(r) <=> Owns(r, <<"service", d>>)
  BY <1>1, LabelledServices, PartsAreObjects DEF IInv
<1>3. /\ proc[p].at = "listServices" /\ proc[p].at \in RemoveSteps /\ InTearDown(p)
      /\ proc[p].at \in PodDeleted /\ proc[p].at \in DevicesRemoved
  BY <1>1 DEF ListServices, At, RemoveSteps, InTearDown, PodDeleted, DevicesRemoved
<1>4. UNCHANGED world /\ World(p)
  BY OfTheSame DEF ListServices
<1>5. \A o : Owns(r, o)' <=> Owns(r, o)
  BY <1>4, OfTheSame
<1>6. ASSUME r \notin disturbed
      PROVE  /\ proc[p].clean => pod'[r] \in {"none", "terminating"}
             /\ ~proc[p].failed =>
                  \A d \in Devices(r) :
                    ~(Safe(<<"service", d>>) /\ Owns(r, <<"service", d>>)' /\ d \in registered')
  BY <1>1, <1>3, <1>4, <1>5, <1>6, KnownSoFar DEF world
<1>7. ASSUME NEW fault \in BOOLEAN, NEW left, TearDownGoesOn(p, "return", left, FALSE, fault),
             ~fault => ServicesOf(r) = {}
      PROVE  IInv'
  <2>1. PICK err \in BOOLEAN : ~err /\ TearDownGoesOn(p, "return", left, err, fault)
    BY <1>7
  <2>2. PICK failed \in BOOLEAN, clean \in BOOLEAN :
          failed = (proc[p].failed \/ err) /\ clean = (proc[p].clean /\ ~fault)
    OBVIOUS
  <2>3. ASSUME clean, r \notin disturbed PROVE Gone(r)'
    <3>1. \A o \in Parts(r) : ~Owns(r, o)'
      BY <1>1, <1>2, <1>5, <1>7, <2>2, <2>3 DEF Services
    <3> QED
      BY <1>1, <1>6, <2>2, <2>3, <3>1 DEF Gone
  <2>4. Told(failed)
    BY <1>4, OfTheSame
  <2> QED
    BY <1>1, <1>3, <1>4, <2>1, <2>2, <2>3, <2>4, TearDownReturns
<1>8. ASSUME NEW left, left = ServicesOf(r), left # {},
             TearDownGoesOn(p, "deleteServices", left, FALSE, FALSE)
      PROVE  IInv'
  <2>1. PICK err \in BOOLEAN, fault \in BOOLEAN :
          ~err /\ ~fault /\ TearDownGoesOn(p, "deleteServices", left, err, fault)
    BY <1>8
  <2>2. PICK failed \in BOOLEAN, clean \in BOOLEAN :
          failed = (proc[p].failed \/ err) /\ clean = (proc[p].clean /\ ~fault)
    OBVIOUS
  <2>3. Fits(r, "deleteServices", left) /\ "deleteServices" \in RemoveSteps /\ Told(failed)
    BY <1>2, <1>4, <1>8, OfTheSame DEF Fits, NetworkTearDown, RemoveSteps
  <2>4. ASSUME r \notin disturbed PROVE ClaimsAfter(r, "deleteServices", left, failed, clean)
    <3>1. \A o \in Parts(r) \ ToDelete(r, "deleteServices", left) : ~Owns(r, o)'
      BY <1>1, <1>2, <1>5, <1>8 DEF ToDelete, Services
    <3>2. \A d \in left : Owns(r, <<"service", d>>)'
      BY <1>2, <1>5, <1>8
    <3> QED
      BY <1>1, <1>6, <2>1, <2>2, <2>4, <3>1, <3>2 DEF ClaimsAfter
  <2> QED
    BY <1>1, <1>3, <1>4, <2>1, <2>2, <2>3, <2>4, RemoveKeeps
<1>9. CASE TearDownGoesOn(p, "return", {}, FALSE, TRUE)
  BY <1>7, <1>9
<1>10. CASE TearDownGoesOn(p, Loop("deleteServices", ServicesOf(r), "return"), ServicesOf(r), FALSE, FALSE)
  <2>1. CASE ServicesOf(r) = {}
    BY <1>7, <1>10, <2>1 DEF Loop
  <2>2. CASE ServicesOf(r) # {}
    BY <1>8, <1>10, <2>2 DEF Loop
  <2> QED
    BY <2>1, <2>2
<1> QED
  BY <1>9, <1>10 DEF ListServices

(* The loop over the services, which the first error ends.                 *)
LEMMA DeleteServicesKeeps ==
  ASSUME IInv, NEW p \in Procs, NEW r \in Networks, r = Target(p), DeleteServices(p)
  PROVE  IInv'
<1>1. /\ r \in Resources /\ Devices(r) = DeviceNames(r) /\ Parts(r) = Services(DeviceNames(r))
      /\ r \notin Simulators
  BY ResourceAssumption, PartsAre DEF Resources
<1>2. /\ proc[p].at = "deleteServices" /\ proc[p].at \in RemoveSteps /\ InTearDown(p)
      /\ proc[p].at \in PodDeleted /\ proc[p].at \in DevicesRemoved /\ proc[p].at \in OverLeft
  BY <1>1 DEF DeleteServices, At, RemoveSteps, InTearDown, PodDeleted, DevicesRemoved, OverLeft
<1>3. PICK old : old = proc[p].left
  OBVIOUS
<1>4. old # {} /\ old \subseteq DeviceNames(r) /\ DeviceNames(r) \subseteq ServiceNames
  BY <1>1, <1>2, <1>3, ResourceKinds, PartsAreObjects
<1>5. PICK d \in old : d = First(old)
  BY <1>4, FirstOf
<1>6. PICK o \in Parts(r) : o = <<"service", d>>
  BY <1>1, <1>4 DEF Services
<1>7. ASSUME r \notin disturbed
      PROVE  /\ proc[p].clean => \A x \in Parts(r) \ Services(old) : Safe(x) => ~Owns(r, x)
             /\ proc[p].clean => pod[r] \in {"none", "terminating"}
             /\ \A e \in old : Safe(<<"service", e>>) => Owns(r, <<"service", e>>)
             /\ ~proc[p].failed =>
                  \A e \in Devices(r) :
                    ~(Safe(<<"service", e>>) /\ Owns(r, <<"service", e>>) /\ e \in registered)
  <2>1. ToDelete(r, "deleteServices", old) = Services(old)
    BY DEF ToDelete
  <2> QED
    BY <1>1, <1>2, <1>3, <1>7, <2>1, KnownSoFar
<1>8. Safe(o) => r \notin disturbed /\ Owns(r, o)
  BY <1>1, <1>6, <1>7, UnsafeIfDisturbed
<1>9. ASSUME Unmake(o)
      PROVE  /\ World(p) /\ UNCHANGED <<pod, registered>>
             /\ ~Owns(r, o)' /\ DOMAIN owner' = DOMAIN owner \ {o}
             /\ \A x : x # o => (Owns(r, x)' <=> Owns(r, x))
  BY <1>1, <1>8, <1>9, UnmakeDeletes DEF World
<1>10. ASSUME NEW told, Unmake(o), ~proc[p].failed \/ told PROVE Told(told)
  <2> SUFFICES ASSUME NEW e \in registered', <<"service", e>> \notin DOMAIN owner',
                      Safe(<<"service", e>>), <<"service", e>> \in DOMAIN owner,
                      ~proc[p].failed
               PROVE  FALSE
    BY <1>9, <1>10 DEF Told
  <2>1. o = <<"service", e>> /\ e \in registered /\ e = d
    BY <1>6, <1>9, <1>10
  <2> QED
    BY <1>1, <1>4, <1>7, <1>8, <2>1
<1>11. ASSUME NEW err \in BOOLEAN, NEW fault \in BOOLEAN, fault => err,
              NEW left, TearDownGoesOn(p, "return", left, err, fault),
              Unmake(o) \/ UNCHANGED world,
              ~fault => o \notin DOMAIN owner \/ (Unmake(o) /\ old \ {d} = {})
       PROVE  IInv'
  <2>1. PICK failed \in BOOLEAN, clean \in BOOLEAN :
          failed = (proc[p].failed \/ err) /\ clean = (proc[p].clean /\ ~fault)
    OBVIOUS
  <2>2. World(p) /\ UNCHANGED <<pod, registered>>
    BY <1>9, <1>11, OfTheSame
  <2>3. Told(failed)
    BY <1>10, <1>11, <2>1, OfTheSame
  <2>4. UNCHANGED disturbed
    BY <1>11 DEF TearDownGoesOn, history
  <2>5. ASSUME clean, r \notin disturbed PROVE Gone(r)'
    <3>1. ASSUME \A x \in Parts(r) : Safe(x), NEW x \in Parts(r) PROVE ~Owns(r, x)'
      <4>1. Unmake(o) /\ old \ {d} = {}
        BY <1>8, <1>11, <2>1, <2>5, <3>1 DEF Owns
      <4>2. x # o => x \in Parts(r) \ Services(old)
        BY <1>6, <3>1, <4>1 DEF Services
      <4> QED
        BY <1>7, <1>9, <2>1, <2>5, <3>1, <4>1, <4>2
    <3>2. \A x : Safe(x)' <=> Safe(x)
      BY <2>4 DEF Safe
    <3> QED
      BY <1>1, <1>7, <2>1, <2>2, <2>5, <3>1, <3>2 DEF Gone
  <2> QED
    BY <1>1, <1>2, <1>11, <2>1, <2>2, <2>3, <2>5, TearDownReturns
<1>12. ASSUME NEW left, left = old \ {d}, left # {}, Unmake(o),
              TearDownGoesOn(p, "deleteServices", left, FALSE, FALSE)
       PROVE  IInv'
  <2>1. PICK err \in BOOLEAN, fault \in BOOLEAN :
          ~err /\ ~fault /\ TearDownGoesOn(p, "deleteServices", left, err, fault)
    BY <1>12
  <2>2. PICK failed \in BOOLEAN, clean \in BOOLEAN :
          failed = (proc[p].failed \/ err) /\ clean = (proc[p].clean /\ ~fault)
    OBVIOUS
  <2>3. Fits(r, "deleteServices", left) /\ "deleteServices" \in RemoveSteps
    BY <1>4, <1>12 DEF Fits, NetworkTearDown, RemoveSteps
  <2>4. Told(failed)
    BY <1>10, <1>12, <2>2
  <2>5. ASSUME r \notin disturbed PROVE ClaimsAfter(r, "deleteServices", left, failed, clean)
    <3>1. clean => \A x \in Parts(r) \ ToDelete(r, "deleteServices", left) : Safe(x) => ~Owns(r, x)'
      <4>1. \A x \in Parts(r) \ Services(left) : x # o => x \notin Services(old)
        BY <1>6, <1>12 DEF Services
      <4> QED
        BY <1>7, <1>9, <1>12, <2>2, <2>5, <4>1 DEF ToDelete
    <3>2. \A e \in left : Safe(<<"service", e>>) => Owns(r, <<"service", e>>)'
      <4>1. \A e \in left : e \in old /\ <<"service", e>> # o
        BY <1>6, <1>12
      <4> QED
        BY <1>7, <1>9, <1>12, <2>5, <4>1
    <3>3. ~failed => \A e \in Devices(r) :
            ~(Safe(<<"service", e>>) /\ Owns(r, <<"service", e>>)' /\ e \in registered')
      BY <1>7, <1>9, <1>12, <2>2, <2>5
    <3>4. clean => pod'[r] \in {"none", "terminating"}
      BY <1>7, <1>9, <1>12, <2>2, <2>5
    <3> QED
      BY <1>1, <3>1, <3>2, <3>3, <3>4 DEF ClaimsAfter
  <2>6. World(p)
    BY <1>9, <1>12
  <2> QED
    BY <1>1, <1>2, <2>1, <2>2, <2>3, <2>4, <2>5, <2>6, RemoveKeeps
<1>13. DeleteListed(p, d, Loop("deleteServices", old \ {d}, "return"), old \ {d})
  BY <1>3, <1>5 DEF DeleteServices
<1>14. CASE Unmake(o) /\ TearDownGoesOn(p, Loop("deleteServices", old \ {d}, "return"), old \ {d}, FALSE, FALSE)
  <2>1. CASE old \ {d} = {}
    BY <1>11, <1>14, <2>1 DEF Loop
  <2>2. CASE old \ {d} # {}
    BY <1>12, <1>14, <2>2 DEF Loop
  <2> QED
    BY <2>1, <2>2
<1>15. CASE o \notin DOMAIN owner /\ UNCHANGED world /\ TearDownGoesOn(p, "return", {}, TRUE, FALSE)
  BY <1>11, <1>15
<1>16. CASE (Unmake(o) \/ UNCHANGED world) /\ TearDownGoesOn(p, "return", {}, TRUE, TRUE)
  BY <1>11, <1>16
<1> QED
  BY <1>6, <1>13, <1>14, <1>15, <1>16 DEF DeleteListed

(* The last step of an app's TearDown, and of a simulator's.               *)
LEMMA DeleteSecretKeeps ==
  ASSUME IInv, NEW p \in Procs, NEW r \in Apps, r = Target(p), DeleteSecret(p)
  PROVE  IInv'
<1>1. /\ r \in Resources /\ r \notin Simulators /\ Parts(r) = {<<"service", r>>, <<"secret", r>>}
  BY ResourceAssumption, PartsAre DEF Resources
<1>2. /\ proc[p].at = "deleteSecret" /\ proc[p].at \in RemoveSteps /\ InTearDown(p)
      /\ proc[p].at \in PodDeleted
  BY <1>1 DEF DeleteSecret, At, RemoveSteps, InTearDown, PodDeleted
<1>3. PICK o \in Parts(r) : o = <<"secret", r>>
  BY <1>1
<1>4. Safe(o) => Owns(r, o) \/ o \notin DOMAIN owner
  BY OwnParts DEF IInv
<1>5. ASSUME Unmake(o)
      PROVE  /\ World(p) /\ UNCHANGED <<pod, registered>>
             /\ ~Owns(r, o)' /\ DOMAIN owner' = DOMAIN owner \ {o}
             /\ \A x : x # o => (Owns(r, x)' <=> Owns(r, x))
  <2>1. o \in DOMAIN owner
    BY <1>5 DEF Unmake
  <2> QED
    BY <1>1, <1>4, <1>5, <2>1, UnmakeDeletes DEF World
<1>6. ASSUME NEW told, Unmake(o) PROVE Told(told)
  <2>1. \A d : o # <<"service", d>>
    BY <1>3
  <2> QED
    BY <1>5, <1>6, <2>1 DEF Told
<1>7. ASSUME NEW fault \in BOOLEAN, TearDownGoesOn(p, "return", {}, FALSE, fault),
             Unmake(o) \/ UNCHANGED world, ~fault => Unmake(o) \/ o \notin DOMAIN owner
      PROVE  IInv'
  <2>1. PICK err \in BOOLEAN : ~err /\ TearDownGoesOn(p, "return", {}, err, fault)
    BY <1>7
  <2>2. PICK failed \in BOOLEAN, clean \in BOOLEAN :
          failed = (proc[p].failed \/ err) /\ clean = (proc[p].clean /\ ~fault)
    OBVIOUS
  <2>3. World(p) /\ UNCHANGED <<pod, registered>> /\ Told(failed)
    BY <1>5, <1>6, <1>7, OfTheSame
  <2>4. ASSUME clean, r \notin disturbed PROVE Gone(r)'
    <3>1. ToDelete(r, "deleteSecret", proc[p].left) = {o}
      BY <1>3 DEF ToDelete
    <3>2. /\ \A x \in Parts(r) \ {o} : Safe(x) => ~Owns(r, x)
          /\ pod[r] \in {"none", "terminating"}
      BY <1>1, <1>2, <2>2, <2>4, <3>1, KnownSoFar
    <3>3. ~Owns(r, o)'
      BY <1>5, <1>7, <2>2, <2>4 DEF Owns, world
    <3>4. \A x \in Parts(r) \ {o} : ~Owns(r, x)'
      BY <1>5, <1>7, <2>4, <3>2, OwnParts, OfTheSame
    <3> QED
      BY <1>1, <2>3, <3>2, <3>3, <3>4 DEF Gone
  <2> QED
    BY <1>1, <1>2, <2>1, <2>2, <2>3, <2>4, TearDownReturns
<1>8. CASE (Unmake(o) \/ (o \notin DOMAIN owner /\ UNCHANGED world))
             /\ TearDownGoesOn(p, "return", {}, FALSE, FALSE)
  BY <1>7, <1>8
<1>9. CASE (Unmake(o) \/ UNCHANGED world) /\ TearDownGoesOn(p, "return", {}, FALSE, TRUE)
  BY <1>7, <1>9
<1> QED
  BY <1>3, <1>8, <1>9 DEF DeleteSecret

LEMMA WaitForDeletePodKeeps ==
  ASSUME IInv, NEW p \in Procs, NEW r \in Simulators, r = Target(p), WaitForDeletePod(p)
  PROVE  IInv'
<1>1. /\ r \in Resources /\ r \notin Networks
  BY ResourceAssumption DEF Resources
<1>2. /\ proc[p].at \in {"openWatch", "watch", "watchEnds"} /\ proc[p].at \in RemoveSteps
      /\ InTearDown(p) /\ proc[p].at \in PodDeleted /\ proc[p].at \in DevicesRemoved
  BY <1>1 DEF WaitForDeletePod, At, RemoveSteps, InTearDown, PodDeleted, DevicesRemoved
<1>3. UNCHANGED <<owner, pod, registered>> /\ World(p) /\ \A o : Owns(r, o)' <=> Owns(r, o)
  BY OfTheSame DEF WaitForDeletePod
<1>4. \A told : Told(told)
  BY <1>3 DEF Told
<1>5. ASSUME r \notin disturbed
      PROVE  /\ proc[p].clean => \A o \in Parts(r) : Safe(o) => ~Owns(r, o)'
             /\ proc[p].clean => pod'[r] \in {"none", "terminating"}
             /\ proc[p].clean \/ ~proc[p].failed => r \notin registered'
  <2>1. ToDelete(r, proc[p].at, proc[p].left) = {}
    BY <1>2 DEF ToDelete
  <2> QED
    BY <1>1, <1>2, <1>3, <1>5, <2>1, KnownSoFar
<1>6. ASSUME NEW err \in BOOLEAN, NEW fault \in BOOLEAN, TearDownGoesOn(p, "return", {}, err, fault)
      PROVE  IInv'
  <2>1. PICK failed \in BOOLEAN, clean \in BOOLEAN :
          failed = (proc[p].failed \/ err) /\ clean = (proc[p].clean /\ ~fault)
    OBVIOUS
  <2>2. ASSUME clean, r \notin disturbed PROVE Gone(r)'
    <3>1. \A o \in Parts(r) : ~Owns(r, o)'
      BY <1>5, <2>1, <2>2, OwnParts
    <3> QED
      BY <1>5, <2>1, <2>2, <3>1 DEF Gone
  <2>3. Told(failed)
    BY <1>4
  <2> QED
    BY <1>1, <1>2, <1>3, <1>6, <2>1, <2>2, <2>3, TearDownReturns
<1>7. CASE TearDownGoesOn(p, "watch", {}, FALSE, FALSE)
  <2>1. PICK err \in BOOLEAN, fault \in BOOLEAN :
          ~err /\ ~fault /\ TearDownGoesOn(p, "watch", {}, err, fault)
    BY <1>7
  <2>2. PICK failed \in BOOLEAN, clean \in BOOLEAN :
          failed = (proc[p].failed \/ err) /\ clean = (proc[p].clean /\ ~fault)
    OBVIOUS
  <2>3. Fits(r, "watch", {}) /\ "watch" \in RemoveSteps /\ Told(failed)
    BY <1>4 DEF Fits, SimulatorTearDown, RemoveSteps
  <2>4. ASSUME r \notin disturbed PROVE ClaimsAfter(r, "watch", {}, failed, clean)
    BY <1>1, <1>5, <2>1, <2>2, <2>4 DEF ClaimsAfter
  <2> QED
    BY <1>1, <1>2, <1>3, <2>1, <2>2, <2>3, <2>4, RemoveKeeps
<1> QED
  BY <1>6, <1>7 DEF WaitForDeletePod

-----------------------------------------------------------------------------
(* The steps of TearDown.                                                  *)

LEMMA SimulatorTearDownSteps ==
  ASSUME IInv, NEW p \in Procs,
         \/ GetDevice(p) \/ RemoveDevice(p) \/ DeleteSimulatorPod(p) \/ DeleteSimulatorService(p)
         \/ DeleteConfigMap(p) \/ WaitForDeletePod(p)
  PROVE  IInv'
<1>1. proc[p].at \in SimulatorTearDown /\ SimulatorTearDown \subseteq RemoveSteps
  BY DEF GetDevice, RemoveDevice, DeleteSimulatorPod, DeleteSimulatorService, DeleteConfigMap,
     WaitForDeletePod, At, SimulatorTearDown, RemoveSteps
<1>2. Target(p) \in Resources
  BY <1>1, ResourceKinds
<1>3. Target(p) \in Simulators
  <2>1. proc[p].at \in SimulatorTearDown \ {"deletePod", "deleteService"} => Target(p) \in Simulators
    BY <1>2, ResourceKinds DEF SimulatorSetup, SimulatorTearDown, NetworkSetup, NetworkTearDown,
       AppSetup, AppTearDown
  <2> QED
    BY <1>1, <2>1 DEF GetDevice, RemoveDevice, DeleteSimulatorPod, DeleteSimulatorService,
       DeleteConfigMap, WaitForDeletePod, At, IsSimulator
<1>4. PICK r \in Simulators : r = Target(p)
  BY <1>3
<1>5. /\ r \in Resources /\ r \notin Networks /\ r \notin Apps
      /\ Parts(r) = {<<"configMap", r>>, <<"service", r>>} /\ Devices(r) = {r}
  BY PartsAre, ResourceAssumption DEF Resources
<1>6. ASSUME NEW step \in SimulatorTearDown, NEW left \in SUBSET ServiceNames PROVE Fits(r, step, left)
  BY DEF Fits
<1>7. proc[p].left \in SUBSET ServiceNames /\ {} \in SUBSET ServiceNames
  BY ProcOf DEF Procedures
<1>8. CASE GetDevice(p)
  <2>1. Fits(r, "deletePod", {}) /\ Fits(r, "removeDevice", proc[p].left)
    BY <1>6, <1>7 DEF SimulatorTearDown
  <2>2. PICK found : found = "removeDevice"
    OBVIOUS
  <2> QED
    BY <1>4, <1>5, <1>8, <2>1, <2>2, TopoGetKeeps DEF GetDevice, At
<1>9. CASE RemoveDevice(p)
  <2>1. Fits(r, "deletePod", {})
    BY <1>6, <1>7 DEF SimulatorTearDown
  <2> QED
    BY <1>4, <1>5, <1>9, <2>1, TopoRemoveKeeps DEF RemoveDevice, At
<1>10. CASE DeleteSimulatorPod(p)
  <2>1. Fits(r, "deleteService", {})
    BY <1>6, <1>7 DEF SimulatorTearDown
  <2> QED
    BY <1>4, <1>5, <1>10, <2>1, DeleteWorkloadKeeps DEF DeleteSimulatorPod, At
<1>11. CASE DeleteSimulatorService(p)
  <2>1. Fits(r, "deleteConfigMap", {}) /\ "deleteConfigMap" \in RemoveSteps
    BY <1>1, <1>6, <1>7 DEF SimulatorTearDown
  <2>2. PICK o \in Parts(r) : o = <<"service", r>>
    BY <1>5
  <2>3. PICK at \in RemoveSteps : at = "deleteService" /\ proc[p].at = at
    BY <1>1, <1>11 DEF DeleteSimulatorService, At
  <2>4. ToDelete(r, at, proc[p].left) \subseteq ToDelete(r, "deleteConfigMap", {}) \cup {o}
    BY <1>5, <2>2, <2>3 DEF ToDelete
  <2> QED
    BY <1>4, <1>11, <2>1, <2>2, <2>3, <2>4, DeleteKeeps DEF DeleteSimulatorService, DevicesRemoved
<1>12. CASE DeleteConfigMap(p)
  <2>1. Fits(r, "openWatch", {}) /\ "openWatch" \in RemoveSteps
    BY <1>1, <1>6, <1>7 DEF SimulatorTearDown
  <2>2. PICK o \in Parts(r) : o = <<"configMap", r>>
    BY <1>5
  <2>3. PICK at \in RemoveSteps : at = "deleteConfigMap" /\ proc[p].at = at
    BY <1>1, <1>12 DEF DeleteConfigMap, At
  <2>4. ToDelete(r, at, proc[p].left) \subseteq ToDelete(r, "openWatch", {}) \cup {o}
    BY <1>5, <2>2, <2>3 DEF ToDelete
  <2> QED
    BY <1>4, <1>12, <2>1, <2>2, <2>3, <2>4, DeleteKeeps DEF DeleteConfigMap, DevicesRemoved, PodDeleted
<1>13. CASE WaitForDeletePod(p)
  BY <1>4, <1>13, WaitForDeletePodKeeps
<1> QED
  BY <1>8, <1>9, <1>10, <1>11, <1>12, <1>13

LEMMA NetworkTearDownSteps ==
  ASSUME IInv, NEW p \in Procs,
         RemoveDevices(p) \/ DeleteNetworkPod(p) \/ ListServices(p) \/ DeleteServices(p)
  PROVE  IInv'
<1>1. proc[p].at \in NetworkTearDown /\ NetworkTearDown \subseteq RemoveSteps
  BY DEF RemoveDevices, DeleteNetworkPod, ListServices, DeleteServices, At, NetworkTearDown, RemoveSteps
<1>2. Target(p) \in Resources
  BY <1>1, ResourceKinds
<1>3. Target(p) \in Networks
  <2>1. proc[p].at \in NetworkTearDown \ {"deletePod"} => Target(p) \in Networks
    BY <1>2, ResourceKinds DEF SimulatorSetup, SimulatorTearDown, NetworkSetup, NetworkTearDown,
       AppSetup, AppTearDown
  <2> QED
    BY <1>1, <2>1 DEF RemoveDevices, DeleteNetworkPod, ListServices, DeleteServices, At, IsNetwork
<1>4. PICK r \in Networks : r = Target(p)
  BY <1>3
<1>5. /\ r \in Resources /\ r \notin Simulators /\ r \notin Apps
      /\ Devices(r) = DeviceNames(r) /\ DeviceNames(r) \subseteq ServiceNames
  BY PartsAre, PartsAreObjects, ResourceAssumption DEF Resources
<1>6. PICK old : old = proc[p].left
  OBVIOUS
<1>7. old \subseteq DeviceNames(r) /\ (proc[p].at \in OverLeft => old # {})
  BY <1>4, <1>5, <1>6, ResourceKinds
<1>8. ASSUME NEW step \in NetworkTearDown, NEW left, left \subseteq DeviceNames(r),
             step \in OverLeft => left # {}
      PROVE  Fits(r, step, left)
  BY <1>5, <1>8 DEF Fits
<1>9. CASE RemoveDevices(p) /\ At(p, "listToRemove")
  BY <1>4, <1>9, ListToRemoveKeeps DEF RemoveDevices, At
<1>10. CASE RemoveDevices(p) /\ proc[p].at \in {"getDevices", "removeDevices"}
  <2>1. PICK d \in old : d = First(old)
    BY <1>7, <1>10, FirstOf DEF OverLeft
  <2>2. PICK left : left = old \ {d}
    OBVIOUS
  <2>3. PICK next \in {"getDevices", "deletePod"} : next = Loop("getDevices", left, "deletePod")
    BY DEF Loop
  <2>4. \/ proc[p].at = "getDevices" /\ TopoGet(p, d, "removeDevices", next, left)
        \/ proc[p].at = "removeDevices" /\ TopoRemove(p, d, next, left)
    BY <1>6, <1>10, <2>1, <2>2, <2>3 DEF RemoveDevices, At
  <2>5. /\ Fits(r, next, left) /\ Fits(r, "removeDevices", proc[p].left)
        /\ next = "deletePod" => left = {}
    BY <1>6, <1>7, <1>8, <1>10, <2>2, <2>3 DEF Loop, NetworkTearDown, OverLeft
  <2>6. CASE proc[p].at = "getDevices" /\ TopoGet(p, d, "removeDevices", next, left)
    <3>1. PICK found : found = "removeDevices"
      OBVIOUS
    <3> QED
      BY <1>4, <1>5, <1>6, <2>2, <2>5, <2>6, <3>1, TopoGetKeeps
  <2>7. CASE proc[p].at = "removeDevices" /\ TopoRemove(p, d, next, left)
    BY <1>4, <1>5, <1>6, <1>7, <2>1, <2>2, <2>5, <2>7, TopoRemoveKeeps
  <2> QED
    BY <2>4, <2>6, <2>7
<1>11. CASE DeleteNetworkPod(p)
  <2>1. Fits(r, "listServices", {})
    BY <1>8 DEF NetworkTearDown, OverLeft
  <2> QED
    BY <1>4, <1>5, <1>11, <2>1, DeleteWorkloadKeeps DEF DeleteNetworkPod, At
<1>12. CASE ListServices(p)
  BY <1>4, <1>12, ListServicesKeeps
<1>13. CASE DeleteServices(p)
  BY <1>4, <1>13, DeleteServicesKeeps
<1> QED
  BY <1>9, <1>10, <1>11, <1>12, <1>13 DEF RemoveDevices

LEMMA AppTearDownSteps ==
  ASSUME IInv, NEW p \in Procs, DeleteDeployment(p) \/ DeleteAppService(p) \/ DeleteSecret(p)
  PROVE  IInv'
<1>1. proc[p].at \in AppTearDown /\ AppTearDown \subseteq RemoveSteps
  BY DEF DeleteDeployment, DeleteAppService, DeleteSecret, At, AppTearDown, RemoveSteps
<1>2. Target(p) \in Resources
  BY <1>1, ResourceKinds
<1>3. Target(p) \in Apps
  <2>1. proc[p].at \in AppTearDown \ {"deleteService"} => Target(p) \in Apps
    BY <1>2, ResourceKinds DEF SimulatorSetup, SimulatorTearDown, NetworkSetup, NetworkTearDown,
       AppSetup, AppTearDown
  <2> QED
    BY <1>1, <2>1 DEF DeleteDeployment, DeleteAppService, DeleteSecret, At, IsApp
<1>4. PICK r \in Apps : r = Target(p)
  BY <1>3
<1>5. /\ r \in Resources /\ r \notin Networks /\ r \notin Simulators
      /\ Parts(r) = {<<"service", r>>, <<"secret", r>>}
  BY PartsAre, ResourceAssumption DEF Resources
<1>6. ASSUME NEW step \in AppTearDown PROVE Fits(r, step, {})
  BY DEF Fits
<1>7. CASE DeleteDeployment(p)
  <2>1. Fits(r, "deleteService", {})
    BY <1>6 DEF AppTearDown
  <2> QED
    BY <1>4, <1>5, <1>7, <2>1, DeleteWorkloadKeeps DEF DeleteDeployment, At
<1>8. CASE DeleteAppService(p)
  <2>1. Fits(r, "deleteSecret", {}) /\ "deleteSecret" \in RemoveSteps
    BY <1>1, <1>6 DEF AppTearDown
  <2>2. PICK o \in Parts(r) : o = <<"service", r>>
    BY <1>5
  <2>3. PICK at \in RemoveSteps : at = "deleteService" /\ proc[p].at = at
    BY <1>1, <1>8 DEF DeleteAppService, At
  <2>4. ToDelete(r, at, proc[p].left) \subseteq ToDelete(r, "deleteSecret", {}) \cup {o}
    BY <1>5, <2>2, <2>3 DEF ToDelete
  <2> QED
    BY <1>4, <1>5, <1>8, <2>1, <2>2, <2>3, <2>4, DeleteKeeps DEF DeleteAppService
<1>9. CASE DeleteSecret(p)
  BY <1>4, <1>9, DeleteSecretKeeps
<1> QED
  BY <1>7, <1>8, <1>9

-----------------------------------------------------------------------------
(* The steps that are no calls of an operation.                            *)

(* What is known of a process stays true when its step, the objects, the   *)
(* devices and its own pod are the same.                                   *)
LEMMA ClaimsStay ==
  ASSUME IInv, NEW q \in Procs, UNCHANGED <<owner, registered>>, disturbed \subseteq disturbed',
         proc'[q] = proc[q], Target(q) \in Resources \ disturbed' => pod'[Target(q)] = pod[Target(q)]
  PROVE  SetupInv(q)' /\ TearDownInv(q)'
<1>1. PICK pr : pr = proc[q]
  OBVIOUS
<1>2. PICK s : s = pr.target
  OBVIOUS
<1>3. /\ proc'[q] = pr /\ proc[q] = pr /\ Target(q) = s
      /\ \A o : Owns(s, o)' <=> Owns(s, o)
      /\ \A o : Safe(o)' => Safe(o)
  BY <1>1, <1>2, SafeStays DEF Owns, Target
<1>4. SUFFICES ASSUME s \in Resources \ disturbed'
               PROVE  SetupInv(q)' /\ TearDownInv(q)'
  BY <1>2, <1>3 DEF SetupInv, TearDownInv
<1>5. s \in Resources \ disturbed /\ pod'[s] = pod[s]
  BY <1>3, <1>4
<1>6. SetupInv(q) /\ TearDownInv(q)
  BY DEF IInv
<1>7. SetupInv(q)'
  BY <1>2, <1>3, <1>5, <1>6 DEF SetupInv
<1>8. TearDownInv(q)'
  <2> SUFFICES ASSUME pr.at \in RemoveSteps
               PROVE  TearDownClaims(s, pr.at, pr.left, pr.failed, pr.clean)'
    BY <1>2, <1>3 DEF TearDownInv
  <2>1. TearDownClaims(s, pr.at, pr.left, pr.failed, pr.clean)
    BY <1>2, <1>3, <1>5, <1>6 DEF TearDownInv
  <2> QED
    BY <1>3, <1>5, <2>1 DEF TearDownClaims
<1> QED
  BY <1>7, <1>8

LEMMA HistoryStays ==
  ASSUME IInv, UNCHANGED <<owner, registered>>, disturbed \subseteq disturbed',
         up' \ NoReplicas \subseteq up, gone' \subseteq gone,
         \A r \in (up' \ disturbed') \ NoReplicas : pod'[r] = pod[r],
         \A r \in gone' \ disturbed' : pod[r] \in {"none", "terminating"} => pod'[r] \in {"none", "terminating"}
  PROVE  HistoryInv'
<1>1. /\ \A r, o : Owns(r, o)' <=> Owns(r, o)
      /\ \A o : Safe(o)' => Safe(o)
  BY SafeStays DEF Owns, Label
<1>2. ASSUME NEW r \in (up' \ disturbed') \ NoReplicas PROVE Up(r)'
  <2>1. Up(r) /\ pod'[r] = pod[r]
    BY <1>2 DEF IInv, HistoryInv
  <2> QED
    BY <1>1, <2>1 DEF Up
<1>3. ASSUME NEW r \in gone' \ disturbed' PROVE Gone(r)'
  <2>1. Gone(r)
    BY <1>3 DEF IInv, HistoryInv
  <2> QED
    BY <1>1, <1>3, <2>1 DEF Gone
<1>4. NoReplicas' = NoReplicas
  BY DEF NoReplicas
<1> QED
  BY <1>2, <1>3, <1>4 DEF HistoryInv

LEMMA OrphansStay ==
  ASSUME IInv, UNCHANGED <<owner, registered>>, disturbed \subseteq disturbed', reported \subseteq reported',
         \A q \in Procs : proc[q].failed /\ Target(q) \in Resources =>
           proc'[q].target = Target(q) /\ proc'[q].failed
  PROVE  OrphanInv'
<1>1. \A o : Safe(o)' => Safe(o)
  BY SafeStays
<1>2. ASSUME NEW d \in registered, <<"service", d>> \notin DOMAIN owner, Safe(<<"service", d>>)
      PROVE  \E r \in Resources :
               d \in Devices(r) /\ (r \in reported' \/ \E q \in Procs : proc'[q].target = r /\ proc'[q].failed)
  <2>1. PICK r \in Resources :
          d \in Devices(r) /\ (r \in reported \/ \E q \in Procs : Target(q) = r /\ proc[q].failed)
    BY <1>2 DEF IInv, OrphanInv
  <2> QED
    BY <2>1
<1> QED
  BY <1>1, <1>2 DEF OrphanInv, Target

LEMMA LabelsStay == ASSUME IInv, UNCHANGED <<owner, registered>> PROVE LabelInv'
BY DEF IInv, LabelInv, Label

(* The first step of an operation, where nothing is made or deleted yet.   *)
Starts(p, r, step, left) ==
  /\ \/ r \in Simulators /\ step \in {"createConfigMap", "getDevice"} /\ left = {}
     \/ r \in Networks /\ step = "createPod" /\ left = DeviceNames(r)
     \/ r \in Networks /\ step = "listToRemove" /\ left = {}
     \/ r \in Apps /\ step \in {"createService", "deleteDeployment"} /\ left = {}
  /\ p \in Workers => r \in Simulators /\ step = "createConfigMap"

(* What a step of the pool or the counters may do.                         *)
Counts ==
  /\ scenario' = scenario /\ main' \in {"start", "range", "nil", "error", "exited"}
  /\ todo' \in Seq(Simulators) /\ envs' \in 0 .. Len(scenario.setups)
  /\ faults' \in 0 .. MaxFaults /\ ops' \in 0 .. MaxOps

LEMMA BeginKeeps ==
  ASSUME IInv, NEW p \in Procs, NEW r \in Resources, NEW step, NEW left,
         Target(p) = NoResource, Starts(p, r, step, left), Begin(p, r, step, left),
         UNCHANGED <<scenario, main, envs>>, todo' \in Seq(Simulators), ops' \in 0 .. MaxOps
  PROVE  IInv'
<1>1. PICK new : new = [Idle EXCEPT !.at = step, !.target = r, !.left = left]
  OBVIOUS
<1>2. /\ new.at = step /\ new.target = r /\ new.left = left /\ new.failed = FALSE /\ new.clean = TRUE
      /\ new \in [at : {step}, target : {r}, left : {left}, failed : BOOLEAN, clean : BOOLEAN]
  BY <1>1 DEF Idle
<1>3. UNCHANGED <<owner, pod, registered, faults, reported>> /\ up' = up \ {r} /\ gone' = gone \ {r}
      /\ Disturb(r)
  BY DEF Begin, world
<1>4. r \in Simulators \cup Networks \cup Apps /\ step \in AddSteps \cup RemoveSteps
      /\ left \subseteq ServiceNames
  BY DEF Starts, AddSteps, RemoveSteps, ServiceNames
<1>5. /\ proc \in [Procs -> Procedures] /\ new \in Procedures
      /\ proc' = [proc EXCEPT ![p] = new]
  BY <1>1, <1>2, <1>4 DEF Begin, IInv, ProcsOK, Procedures
<1>6. /\ proc' \in [Procs -> Procedures] /\ proc'[p] = new
      /\ \A q \in Procs \ {p} : proc'[q] = proc[q]
  BY <1>5
<1>7. /\ disturbed \subseteq disturbed' /\ disturbed' \subseteq Resources
      /\ (\E q \in Procs : Target(q) = r) => r \in disturbed'
  BY <1>3 DEF Disturb, IInv, Types
<1>8. Types'
  BY <1>3, <1>7 DEF IInv, Types
<1>9. ProcsOK'
  <2>1. ProcOK(new)
    BY <1>2, <1>4, ResourceAssumption DEF ProcOK, Starts, SimulatorSetup, SimulatorTearDown, NetworkSetup,
       NetworkTearDown, AppSetup, AppTearDown, OverLeft
  <2>2. \A q \in Procs : ProcOK(proc'[q])
    BY <1>6, <2>1 DEF IInv, ProcsOK
  <2>3. ASSUME NEW q \in Workers
        PROVE  proc'[q].at \in PoolSteps \/ (proc'[q].target \in Simulators /\ proc'[q].at \in AddSteps)
    <3>1. CASE q = p
      BY <1>2, <1>6, <3>1 DEF Starts, AddSteps
    <3>2. CASE q # p
      BY <1>6, <3>2 DEF IInv, ProcsOK, Procs, Target
    <3> QED
      BY <3>1, <3>2
  <2> QED
    BY <1>6, <2>2, <2>3 DEF ProcsOK, Target
<1>10. LabelInv'
  BY <1>3, LabelsStay
<1>11. AloneInv'
  <2>1. ASSUME NEW q \in Procs, NEW t \in Procs, q # t, proc'[q].target = proc'[t].target,
               proc'[q].target \in Resources
        PROVE  proc'[q].target \in disturbed'
    <3>1. CASE q # p /\ t # p
      BY <1>6, <1>7, <2>1, <3>1 DEF IInv, AloneInv, Target
    <3>2. CASE q = p
      BY <1>2, <1>6, <1>7, <2>1, <3>2 DEF Target
    <3>3. CASE t = p
      BY <1>2, <1>6, <1>7, <2>1, <3>3 DEF Target
    <3> QED
      BY <3>1, <3>2, <3>3
  <2>2. ASSUME NEW s \in (up' \cup gone') \ disturbed', NEW q \in Procs PROVE proc'[q].target # s
    BY <1>2, <1>3, <1>6, <1>7, <2>2 DEF IInv, AloneInv, Target
  <2> QED
    BY <2>1, <2>2 DEF AloneInv, Target
<1>12. \A q \in Procs : SetupInv(q)' /\ TearDownInv(q)'
  <2>1. ASSUME NEW q \in Procs \ {p} PROVE SetupInv(q)' /\ TearDownInv(q)'
    BY <1>3, <1>6, <1>7, ClaimsStay
  <2>2. SetupInv(p)'
    <3> SUFFICES ASSUME step \in AddSteps PROVE SetupInv(p)'
      BY <1>2, <1>6 DEF SetupInv
    <3>1. ToMake(new) = Parts(r)
      BY <1>2, PartsAre, ResourceAssumption DEF Starts, ToMake, AddSteps
    <3>2. /\ step \in PodMade => r \in Apps
          /\ step \notin {"awaitReady", "addDevice", "listDevices", "addDevices"}
      BY DEF Starts, PodMade
    <3> QED
      BY <1>2, <1>6, <3>1, <3>2, MadeParts DEF SetupInv
  <2>3. TearDownInv(p)'
    <3> SUFFICES ASSUME step \in RemoveSteps PROVE TearDownInv(p)'
      BY <1>2, <1>6 DEF TearDownInv
    <3>1. /\ ToDelete(r, step, left) = Parts(r) /\ step \notin PodDeleted \cup {"deleteService"}
          /\ step \notin OverLeft /\ step \notin DevicesRemoved \cup {"getDevices", "removeDevices"}
      BY DEF Starts, ToDelete, RemoveSteps, PodDeleted, OverLeft, DevicesRemoved
    <3>2. TearDownClaims(r, step, left, FALSE, TRUE)'
      BY <3>1 DEF TearDownClaims
    <3> QED
      BY <1>2, <1>6, <3>2 DEF TearDownInv
  <2> QED
    BY <2>1, <2>2, <2>3
<1>13. HistoryInv'
  BY <1>3, <1>7, HistoryStays
<1>14. OrphanInv'
  <2>1. \A q \in Procs : Target(q) \in Resources => q # p
    BY ResourceAssumption
  <2> QED
    BY <1>3, <1>6, <1>7, <2>1, OrphansStay DEF Target
<1> QED
  BY <1>8, <1>9, <1>10, <1>11, <1>12, <1>13, <1>14 DEF IInv

(* An app without replicas is up at once, with nothing to claim of it.     *)
LEMMA BeginNothingKeeps ==
  ASSUME IInv, NEW p \in Procs, NEW r \in NoReplicas, Target(p) = NoResource, BeginNothing(p, r),
         UNCHANGED <<scenario, main, envs>>, todo' \in Seq(Simulators), ops' \in 0 .. MaxOps
  PROVE  IInv'
<1>1. UNCHANGED <<owner, pod, registered, faults, reported>> /\ up' = up \cup {r} /\ gone' = gone \ {r}
      /\ Disturb(r) /\ r \in Resources
  BY DEF BeginNothing, world, NoReplicas, Resources
<1>2. /\ Idle \in Procedures /\ Idle.at = "idle" /\ Idle.target = NoResource
      /\ Idle.left = {} /\ Idle.failed = FALSE /\ Idle.clean = TRUE
  BY DEF Idle, Procedures, PoolSteps
<1>3. /\ proc' \in [Procs -> Procedures] /\ proc'[p] = Idle
      /\ \A q \in Procs \ {p} : proc'[q] = proc[q]
  BY <1>2 DEF BeginNothing, IInv, ProcsOK
<1>4. /\ disturbed \subseteq disturbed' /\ disturbed' \subseteq Resources
      /\ (\E q \in Procs : Target(q) = r) => r \in disturbed'
  BY <1>1 DEF Disturb, IInv, Types
<1>5. Types'
  BY <1>1, <1>4 DEF IInv, Types
<1>6. ProcsOK'
  <2>1. ProcOK(Idle) /\ Idle.at \in PoolSteps
    BY <1>2 DEF ProcOK, PoolSteps, RemoveSteps
  <2>2. \A q \in Procs : ProcOK(proc'[q])
    BY <1>3, <2>1 DEF IInv, ProcsOK
  <2>3. \A q \in Workers :
          proc'[q].at \in PoolSteps \/ (proc'[q].target \in Simulators /\ proc'[q].at \in AddSteps)
    BY <1>3, <2>1 DEF IInv, ProcsOK, Procs, Target
  <2> QED
    BY <1>3, <2>2, <2>3 DEF ProcsOK, Target
<1>7. LabelInv'
  BY <1>1, LabelsStay
<1>8. AloneInv'
  <2>1. \A q \in Procs : proc'[q].target \in Resources => q # p /\ proc'[q].target = Target(q)
    BY <1>2, <1>3, ResourceAssumption DEF Target
  <2>2. \A q, t \in Procs :
          q # t /\ proc'[q].target = proc'[t].target /\ proc'[q].target \in Resources =>
            proc'[q].target \in disturbed'
    BY <1>4, <2>1 DEF IInv, AloneInv
  <2>3. ASSUME NEW s \in (up' \cup gone') \ disturbed', NEW q \in Procs PROVE proc'[q].target # s
    <3>1. s \in Resources /\ (s = r \/ s \in (up \cup gone) \ disturbed)
      BY <1>1, <1>4, <2>3 DEF IInv, Types
    <3>2. s = r => \A t \in Procs : Target(t) # s
      BY <1>4, <2>3
    <3> QED
      BY <2>1, <3>1, <3>2 DEF IInv, AloneInv
  <2> QED
    BY <2>2, <2>3 DEF AloneInv, Target
<1>9. ASSUME NEW q \in Procs PROVE SetupInv(q)' /\ TearDownInv(q)'
  <2>1. CASE q # p
    BY <1>1, <1>3, <1>4, <2>1, ClaimsStay
  <2>2. CASE q = p
    BY <1>2, <1>3, <2>2, NoClaims
  <2> QED
    BY <2>1, <2>2
<1>10. HistoryInv'
  BY <1>1, <1>4, HistoryStays
<1>11. OrphanInv'
  <2>1. \A q \in Procs : Target(q) \in Resources => q # p
    BY ResourceAssumption
  <2> QED
    BY <1>1, <1>3, <1>4, <2>1, OrphansStay DEF Target
<1> QED
  BY <1>5, <1>6, <1>7, <1>8, <1>9, <1>10, <1>11 DEF IInv

(* Steps of processes that have no operation, or end it where they are.    *)
Rests(q) ==
  \/ proc'[q] = proc[q]
  \/ /\ proc'[q].target = NoResource /\ proc'[q] \in Procedures
     /\ proc'[q].at \in IF q \in Workers THEN PoolSteps ELSE AwaitSteps \cup PoolSteps
     /\ ~proc'[q].failed /\ ~proc[q].failed

LEMMA RestKeeps ==
  ASSUME IInv, Counts, UNCHANGED <<world, history>>, proc' \in [Procs -> Procedures],
         \A q \in Procs : Rests(q)
  PROVE  IInv'
<1>1. UNCHANGED <<owner, pod, registered, up, gone, reported, disturbed>>
  BY DEF world, history
<1>2. Types'
  BY <1>1 DEF IInv, Types, Counts
<1>3. ProcsOK'
  <2>1. ASSUME NEW q \in Procs PROVE ProcOK(proc'[q])
    BY <2>1, StepsApart DEF Rests, IInv, ProcsOK, ProcOK, Procedures
  <2>2. ASSUME NEW q \in Workers
        PROVE  proc'[q].at \in PoolSteps \/ (proc'[q].target \in Simulators /\ proc'[q].at \in AddSteps)
    BY DEF Rests, IInv, ProcsOK, Procs, Target
  <2> QED
    BY <2>1, <2>2 DEF ProcsOK, Target
<1>4. LabelInv'
  BY <1>1, LabelsStay
<1>5. AloneInv'
  <2>1. \A q \in Procs : proc'[q].target \in Resources => proc'[q].target = Target(q)
    BY ResourceAssumption DEF Rests, Target
  <2>2. up \subseteq Resources /\ gone \subseteq Resources
    BY DEF IInv, Types
  <2> QED
    BY <1>1, <2>1, <2>2 DEF IInv, AloneInv, Target
<1>6. ASSUME NEW q \in Procs PROVE SetupInv(q)' /\ TearDownInv(q)'
  <2>1. CASE proc'[q] = proc[q]
    BY <1>1, <2>1, ClaimsStay
  <2>2. CASE proc'[q].target = NoResource
    BY <2>2, NoClaims
  <2> QED
    BY <2>1, <2>2 DEF Rests
<1>7. HistoryInv'
  BY <1>1, HistoryStays
<1>8. OrphanInv'
  <2>1. \A q \in Procs : proc[q].failed => proc'[q] = proc[q]
    BY DEF Rests
  <2> QED
    BY <1>1, <2>1, OrphansStay DEF Target
<1> QED
  BY <1>2, <1>3, <1>4, <1>5, <1>6, <1>7, <1>8 DEF IInv

(* A process without an operation takes another step of that kind.         *)
LEMMA RestsOne ==
  ASSUME IInv, NEW p \in Procs, proc[p].at \notin RemoveSteps, NEW pr,
         proc' = [proc EXCEPT ![p] = pr], pr \in Procedures, pr.target = NoResource, ~pr.failed,
         pr.at \in IF p \in Workers THEN PoolSteps ELSE AwaitSteps \cup PoolSteps
  PROVE  proc' \in [Procs -> Procedures] /\ \A q \in Procs : Rests(q)
<1>1. ~proc[p].failed
  BY DEF IInv, ProcsOK, ProcOK
<1>2. proc \in [Procs -> Procedures]
  BY DEF IInv, ProcsOK
<1> QED
  BY <1>1, <1>2 DEF Rests

LEMMA CountsNow == ASSUME IInv PROVE /\ scenario \in Scenarios
                                     /\ main \in {"start", "range", "nil", "error", "exited"}
                                     /\ todo \in Seq(Simulators) /\ envs \in 0 .. Len(scenario.setups)
                                     /\ faults \in 0 .. MaxFaults /\ ops \in 0 .. MaxOps
                                     /\ scenario.setups \in Seq(Simulators)
                                     /\ scenario.commands \subseteq Commands
                                     /\ scenario.targets \subseteq Resources
                                     /\ proc \in [Procs -> Procedures]
BY ResourceAssumption DEF IInv, Types, ProcsOK

LEMMA PoolStepsKeep ==
  ASSUME IInv, AddAll \/ CloseChannels \/ Die
  PROVE  IInv'
<1>1. ASSUME AddAll \/ CloseChannels PROVE IInv'
  <2>1. Counts /\ UNCHANGED <<world, history>> /\ proc' = proc
    BY <1>1, CountsNow DEF AddAll, CloseChannels, Counts
  <2>2. proc' \in [Procs -> Procedures] /\ \A q \in Procs : Rests(q)
    BY <2>1, CountsNow DEF Rests
  <2> QED
    BY <2>1, <2>2, RestKeeps
<1>2. ASSUME Die PROVE IInv'
  <2>1. Counts /\ UNCHANGED <<world, history>>
    BY <1>2, CountsNow DEF Die, Counts
  <2>2. PICK pr : pr = [Idle EXCEPT !.at = "exited"]
    OBVIOUS
  <2>3. pr \in Procedures /\ pr.target = NoResource /\ ~pr.failed /\ pr.at = "exited"
    BY <2>2 DEF Idle, Procedures, PoolSteps
  <2>4. proc' = [p \in Procs |-> IF p \in Workers THEN pr ELSE proc[p]]
    BY <1>2, <2>2 DEF Die
  <2>5. \A q \in Workers : ~proc[q].failed /\ q \in Procs
    BY StepsApart DEF IInv, ProcsOK, ProcOK, Procs
  <2>6. proc' \in [Procs -> Procedures] /\ \A q \in Procs : Rests(q)
    BY <2>3, <2>4, <2>5, CountsNow DEF Rests, PoolSteps
  <2> QED
    BY <2>1, <2>6, RestKeeps
<1> QED
  BY <1>1, <1>2

LEMMA SendsKeep ==
  ASSUME IInv, NEW p \in Procs, SendEnv(p) \/ ReceiveErr(p)
  PROVE  IInv'
<1>1. Counts /\ UNCHANGED <<world, history>>
  <2>1. Len(scenario.setups) \in Nat
    BY CountsNow
  <2> QED
    BY <2>1, CountsNow DEF SendEnv, ReceiveErr, Counts, EnvChannel
<1>2. proc' = [proc EXCEPT ![p] = Idle] /\ proc[p].at \notin RemoveSteps
  BY DEF SendEnv, ReceiveErr, At, RemoveSteps
<1>3. Idle \in Procedures /\ Idle.target = NoResource /\ ~Idle.failed /\ Idle.at \in PoolSteps
  BY DEF Idle, Procedures, PoolSteps
<1> QED
  BY <1>1, <1>2, <1>3, RestsOne, RestKeeps

LEMMA AwaitStepsKeep ==
  ASSUME IInv, NEW p \in Commands,
         AwaitStep(p) \/ \E r \in Resources : AwaitDevice(p, r)
  PROVE  IInv'
<1>1. p \in Procs /\ p \notin Workers
  BY ProcAssumption DEF Procs
<1>2. ASSUME proc[p].at \notin RemoveSteps, NEW pr \in Procedures, pr.target = NoResource, ~pr.failed,
             pr.at \in AwaitSteps \cup PoolSteps, proc' = [proc EXCEPT ![p] = pr],
             Counts, UNCHANGED <<world, history>>
      PROVE  IInv'
  BY <1>1, <1>2, RestsOne, RestKeeps
<1>3. ASSUME proc[p].at \notin RemoveSteps, NEW at \in AwaitSteps \cup PoolSteps,
             AwaitReturns(p, at), UNCHANGED faults
      PROVE  IInv'
  <2>1. PICK pr : pr = [Idle EXCEPT !.at = at]
    OBVIOUS
  <2>2. pr \in Procedures /\ pr.target = NoResource /\ ~pr.failed /\ pr.at = at
    BY <2>1 DEF Idle, Procedures
  <2>3. proc' = [proc EXCEPT ![p] = pr] /\ Counts /\ UNCHANGED <<world, history>>
    BY <1>3, <2>1, CountsNow DEF AwaitReturns, Counts, pool
  <2> QED
    BY <1>2, <1>3, <2>2, <2>3
<1>4. ASSUME At(p, "listen"), NEW at \in AwaitSteps, Listener(p, at), UNCHANGED faults \/ Fault
      PROVE  IInv'
  <2>1. PICK pr : pr = [proc[p] EXCEPT !.at = at]
    OBVIOUS
  <2>2. "listen" \notin AddSteps \cup RemoveSteps
    BY DEF AddSteps, RemoveSteps
  <2>3. ~proc[p].failed /\ proc[p] \in Procedures
    BY <1>1, <1>4, <2>2 DEF At, IInv, ProcsOK, ProcOK
  <2>4. Target(p) = NoResource
    BY <1>1, <1>4, ResourceKinds DEF At, SimulatorSetup, SimulatorTearDown, NetworkSetup,
       NetworkTearDown, AppSetup, AppTearDown
  <2>5. pr \in Procedures /\ pr.target = NoResource /\ ~pr.failed /\ pr.at = at
    BY <2>1, <2>3, <2>4 DEF Procedures, Target
  <2>6. proc' = [proc EXCEPT ![p] = pr] /\ UNCHANGED <<world, history>>
    BY <1>4, <2>1 DEF Listener
  <2>7. Counts
    BY <1>4, BoundAssumption, CountsNow DEF Listener, Counts, pool, Fault
  <2> QED
    BY <1>2, <1>4, <2>2, <2>5, <2>6, <2>7 DEF At
<1>5. CASE Recv(p)
  <2>1. PICK to \in {"match", "otherMatch"} : Listener(p, to)
    BY <1>5 DEF Recv
  <2> QED
    BY <1>4, <1>5, <2>1 DEF Recv, AwaitSteps
<1>6. CASE StreamEnds(p)
  BY <1>4, <1>6 DEF StreamEnds, AwaitSteps
<1>7. CASE TimerFires(p)
  BY <1>3, <1>7 DEF TimerFires, AwaitSteps, RemoveSteps
<1>8. CASE SelectErrCh(p)
  BY <1>3, <1>8 DEF SelectErrCh, At, AwaitSteps, PoolSteps, RemoveSteps
<1>9. ASSUME NEW r \in Resources, AwaitDevice(p, r) PROVE IInv'
  <2>1. PICK listening : listening = [Idle EXCEPT !.at = "listen", !.left = {r}]
    OBVIOUS
  <2>2. /\ listening \in Procedures /\ listening.target = NoResource /\ ~listening.failed
        /\ listening.at \in AwaitSteps
    BY <1>9, <2>1 DEF AwaitDevice, Idle, Procedures, ServiceNames, AwaitSteps
  <2>3. Idle \in Procedures /\ Idle.target = NoResource /\ ~Idle.failed /\ Idle.at \in PoolSteps
    BY DEF Idle, Procedures, PoolSteps
  <2>4. /\ proc' = [proc EXCEPT ![p] = listening] \/ proc' = [proc EXCEPT ![p] = Idle]
        /\ proc[p].at \notin RemoveSteps
        /\ UNCHANGED <<world, history>>
    BY <1>9, <2>1 DEF AwaitDevice, Command, RemoveSteps
  <2>5. Counts
    <3>1. UNCHANGED <<scenario, main, todo, envs>> /\ ops' = ops + 1 /\ ops < MaxOps
      BY <1>9 DEF AwaitDevice, Command, pool
    <3>2. faults' = faults \/ (faults < MaxFaults /\ faults' = faults + 1)
      BY <1>9 DEF AwaitDevice, Fault
    <3>3. ops' \in 0 .. MaxOps /\ faults' \in 0 .. MaxFaults
      BY <3>1, <3>2, BoundAssumption, CountsNow
    <3> QED
      BY <3>1, <3>3, CountsNow DEF Counts
  <2> QED
    BY <1>2, <2>2, <2>3, <2>4, <2>5
<1> QED
  BY <1>5, <1>6, <1>7, <1>8, <1>9 DEF AwaitStep

LEMMA NoOperation ==
  ASSUME IInv, NEW p \in Procs, proc[p].at \in {"idle", "awaited"}
  PROVE  Target(p) = NoResource
BY ResourceKinds DEF SimulatorSetup, SimulatorTearDown, NetworkSetup, NetworkTearDown, AppSetup, AppTearDown

LEMMA TakeSetupKeeps ==
  ASSUME IInv, NEW p \in Workers, TakeSetup(p)
  PROVE  IInv'
<1>1. p \in Procs /\ Target(p) = NoResource
  BY NoOperation DEF TakeSetup, At, Procs
<1>2. PICK r \in Simulators : r = Head(todo)
  BY CountsNow DEF TakeSetup
<1>3. r \in Resources /\ Starts(p, r, "createConfigMap", {})
  BY DEF Resources, Starts
<1>4. Begin(p, r, "createConfigMap", {}) /\ UNCHANGED <<scenario, main, envs, ops>>
  BY <1>2 DEF TakeSetup, AddSimulator, SetupSimulator
<1>5. todo' \in Seq(Simulators) /\ ops' \in 0 .. MaxOps
  BY CountsNow DEF TakeSetup
<1> QED
  BY <1>1, <1>3, <1>4, <1>5, BeginKeeps

LEMMA OperationsKeep ==
  ASSUME IInv, NEW p \in Commands, NEW r \in Resources, Command(p),
         \/ AddSimulator(p, r) \/ RemoveSimulator(p, r) \/ AddNetwork(p, r) \/ RemoveNetwork(p, r)
         \/ AddApp(p, r) \/ RemoveApp(p, r)
  PROVE  IInv'
<1>1. p \in Procs /\ p \notin Workers /\ Target(p) = NoResource
  BY NoOperation, ProcAssumption DEF Command, Procs
<1>2. UNCHANGED <<scenario, main, envs>> /\ todo' \in Seq(Simulators) /\ ops' \in 0 .. MaxOps
  BY BoundAssumption, CountsNow DEF Command, pool
<1>3. \/ r \in NoReplicas /\ BeginNothing(p, r)
      \/ \E step \in {"createConfigMap", "getDevice", "createPod", "listToRemove", "createService",
                      "deleteDeployment"}, left \in {{}, DeviceNames(r)} :
           Starts(p, r, step, left) /\ Begin(p, r, step, left)
  <2>1. CASE AddSimulator(p, r)
    BY <1>1, <2>1 DEF AddSimulator, SetupSimulator, Starts
  <2>2. CASE RemoveSimulator(p, r)
    BY <1>1, <2>2 DEF RemoveSimulator, TearDownSimulator, Starts
  <2>3. CASE AddNetwork(p, r)
    BY <1>1, <2>3 DEF AddNetwork, SetupNetwork, GetDevicePorts, Starts
  <2>4. CASE RemoveNetwork(p, r)
    BY <1>1, <2>4 DEF RemoveNetwork, TearDownNetwork, Starts
  <2>5. CASE AddApp(p, r)
    BY <1>1, <2>5 DEF AddApp, SetupApp, Starts, NoReplicas
  <2>6. CASE RemoveApp(p, r)
    BY <1>1, <2>6 DEF RemoveApp, TearDownApp, Starts
  <2> QED
    BY <2>1, <2>2, <2>3, <2>4, <2>5, <2>6
<1> QED
  BY <1>1, <1>2, <1>3, BeginKeeps, BeginNothingKeeps

(* The state of the pod of a resource changes, of none that is up.         *)
LEMMA PodChanges ==
  ASSUME IInv, NEW r \in Resources, NEW x \in {"none", "starting", "ready", "terminating"},
         pod' = [pod EXCEPT ![r] = x], r \in Apps => x # "terminating",
         UNCHANGED <<owner, registered, gone, reported>>, up' \subseteq up, Counts,
         disturbed \subseteq disturbed', disturbed' \subseteq Resources,
         r \in (up' \ disturbed') \ NoReplicas => pod[r] # "ready",
         pod[r] \in {"none", "terminating"} => x \in {"none", "terminating"},
         r \in gone \ disturbed' => pod[r] \in {"none", "terminating"},
         proc' \in [Procs -> Procedures],
         \A q \in Procs : /\ proc'[q].target = Target(q) /\ proc'[q].failed = proc[q].failed
                          /\ ProcOK(proc'[q])
                          /\ q \in Workers => proc'[q] = proc[q],
         \A q \in Procs : SetupInv(q)' /\ TearDownInv(q)'
  PROVE  IInv'
<1>1. /\ pod \in [Resources -> {"none", "starting", "ready", "terminating"}]
      /\ \A a \in Apps : pod[a] # "terminating" /\ a \in Resources
      /\ up \subseteq Resources /\ gone \subseteq Resources /\ reported \subseteq Resources
  BY DEF IInv, Types, Resources
<1>2. /\ pod' \in [Resources -> {"none", "starting", "ready", "terminating"}]
      /\ \A a \in Apps : pod'[a] # "terminating"
      /\ \A s \in Resources : s # r => pod'[s] = pod[s]
      /\ pod'[r] = x
  BY <1>1
<1>3. Types'
  BY <1>1, <1>2, CountsNow DEF Counts, Types
<1>4. ProcsOK'
  BY DEF IInv, ProcsOK, Target, Procs
<1>5. LabelInv'
  BY LabelsStay
<1>6. AloneInv'
  <2>1. \A q \in Procs : proc'[q].target = Target(q)
    OBVIOUS
  <2>2. \A q, t \in Procs :
          q # t /\ proc'[q].target = proc'[t].target /\ proc'[q].target \in Resources =>
            proc'[q].target \in disturbed'
    BY <2>1 DEF IInv, AloneInv
  <2>3. \A s \in (up' \cup gone') \ disturbed' : \A q \in Procs : proc'[q].target # s
    BY <2>1 DEF IInv, AloneInv
  <2> QED
    BY <2>2, <2>3 DEF AloneInv, Target
<1>7. HistoryInv'
  <2>1. ASSUME NEW s \in (up' \ disturbed') \ NoReplicas PROVE pod'[s] = pod[s]
    <3>1. s \in (up \ disturbed) \ NoReplicas
      BY <2>1
    <3>2. pod[s] = "ready"
      BY <3>1 DEF IInv, HistoryInv, Up
    <3> QED
      BY <1>1, <1>2, <2>1, <3>2
  <2>2. ASSUME NEW s \in gone' \ disturbed', pod[s] \in {"none", "terminating"}
        PROVE  pod'[s] \in {"none", "terminating"}
    BY <1>1, <1>2, <2>2
  <2> QED
    BY <2>1, <2>2, HistoryStays
<1>8. OrphanInv'
  BY OrphansStay
<1> QED
  BY <1>3, <1>4, <1>5, <1>6, <1>7, <1>8 DEF IInv

LEMMA KillKeeps ==
  ASSUME IInv, NEW p \in Commands, NEW r \in Resources, Kill(p, r)
  PROVE  IInv'
<1>1. PICK x \in {"starting", "terminating"} :
        /\ pod' = [pod EXCEPT ![r] = x] /\ pod[r] \in {"starting", "ready"}
        /\ r \in Apps => x = "starting"
        /\ UNCHANGED <<owner, registered>>
  BY DEF Kill, SetPod
<1>2. UNCHANGED <<proc, faults, gone, reported>> /\ up' = up \ {r} /\ Disturb(r)
  BY DEF Kill
<1>3. Counts
  BY <1>2, BoundAssumption, CountsNow DEF Kill, Command, pool, Counts
<1>4. /\ disturbed \subseteq disturbed' /\ disturbed' \subseteq Resources
      /\ (\E q \in Procs : Target(q) = r) => r \in disturbed'
  BY <1>2 DEF Disturb, IInv, Types
<1>5. r \in gone \ disturbed' => pod[r] \in {"none", "terminating"}
  BY <1>4 DEF IInv, HistoryInv, Gone
<1>6. \A s \in Resources : s # r => pod'[s] = pod[s]
  BY <1>1 DEF IInv, Types
<1>7. \A q \in Procs : SetupInv(q)' /\ TearDownInv(q)'
  BY <1>1, <1>2, <1>4, <1>6, ClaimsStay
<1>8. /\ proc' \in [Procs -> Procedures]
      /\ \A q \in Procs : ProcOK(proc'[q]) /\ proc'[q] = proc[q] /\ proc'[q].target = Target(q)
  BY <1>2 DEF IInv, ProcsOK, Target
<1>9. r \notin up' /\ pod[r] \notin {"none", "terminating"}
  BY <1>1, <1>2
<1> QED
  BY <1>1, <1>2, <1>3, <1>4, <1>5, <1>7, <1>8, <1>9, PodChanges

LEMMA PodReadyKeeps ==
  ASSUME IInv, NEW r \in Resources, PodReady(r)
  PROVE  IInv'
<1>1. /\ pod' = [pod EXCEPT ![r] = "ready"] /\ pod[r] = "starting"
      /\ UNCHANGED <<owner, registered, proc, up, gone, reported, disturbed>>
  BY DEF PodReady, SetPod, history
<1>2. Counts
  BY CountsNow DEF PodReady, pool, Counts
<1>3. r \notin gone \ disturbed
  BY <1>1 DEF IInv, HistoryInv, Gone
<1>4. /\ \A s \in Resources : s # r => pod'[s] = pod[s]
      /\ pod'[r] = "ready"
  BY <1>1 DEF IInv, Types
<1>5. ASSUME NEW q \in Procs PROVE SetupInv(q)' /\ TearDownInv(q)'
  <2>1. CASE Target(q) # r
    BY <1>1, <1>4, <2>1, ClaimsStay
  <2>2. CASE Target(q) = r
    <3>1. PICK pr : pr = proc[q] /\ pr = proc'[q] /\ pr.target = r
      BY <1>1, <2>2 DEF Target
    <3>2. /\ \A o : Owns(r, o)' <=> Owns(r, o)
          /\ \A o : Safe(o)' <=> Safe(o)
      BY <1>1 DEF Owns, Safe
    <3>3. SetupInv(q) /\ TearDownInv(q)
      BY DEF IInv
    <3>4. SetupInv(q)'
      BY <1>1, <1>4, <3>1, <3>2, <3>3 DEF SetupInv
    <3>5. TearDownInv(q)'
      <4> SUFFICES ASSUME r \notin disturbed, pr.at \in RemoveSteps
                   PROVE  TearDownClaims(r, pr.at, pr.left, pr.failed, pr.clean)'
        BY <1>1, <3>1 DEF TearDownInv
      <4>1. TearDownClaims(r, pr.at, pr.left, pr.failed, pr.clean)
        BY <3>1, <3>3 DEF TearDownInv
      <4> QED
        BY <1>1, <3>2, <4>1 DEF TearDownClaims
    <3> QED
      BY <3>4, <3>5
  <2> QED
    BY <2>1, <2>2
<1>6. /\ proc' \in [Procs -> Procedures]
      /\ \A q \in Procs : ProcOK(proc'[q]) /\ proc'[q] = proc[q] /\ proc'[q].target = Target(q)
  BY <1>1 DEF IInv, ProcsOK, Target
<1>7. disturbed' \subseteq Resources
  BY <1>1 DEF IInv, Types
<1> QED
  BY <1>1, <1>2, <1>3, <1>5, <1>6, <1>7, PodChanges

(* A watch that has ended is as good as one that has not.                  *)
LEMMA WatchEnds ==
  ASSUME NEW r, NEW left, NEW failed, NEW clean, TearDownClaims(r, "watch", left, failed, clean)
  PROVE  TearDownClaims(r, "watchEnds", left, failed, clean)
BY DEF TearDownClaims, ToDelete, PodDeleted, OverLeft, DevicesRemoved

LEMMA PodGoneKeeps ==
  ASSUME IInv, NEW r \in Resources, PodGone(r)
  PROVE  IInv'
<1>1. /\ pod' = [pod EXCEPT ![r] = "none"] /\ pod[r] = "terminating"
      /\ UNCHANGED <<owner, registered, up, gone, reported, disturbed>>
      /\ proc' = [p \in Procs |-> IF proc[p].at = "watch" THEN [proc[p] EXCEPT !.at = "watchEnds"]
                                                         ELSE proc[p]]
  BY DEF PodGone, SetPod, history, At
<1>2. Counts
  BY CountsNow DEF PodGone, pool, Counts
<1>3. /\ \A s \in Resources : s # r => pod'[s] = pod[s]
      /\ pod'[r] = "none"
  BY <1>1 DEF IInv, Types
<1>4. /\ \A r1, o : Owns(r1, o)' <=> Owns(r1, o)
      /\ \A o : Safe(o)' <=> Safe(o)
  BY <1>1 DEF Owns, Safe
<1>5. ASSUME NEW q \in Procs, proc[q].at = "watch"
      PROVE  /\ proc'[q].at = "watchEnds" /\ proc'[q].target = Target(q)
             /\ proc'[q].left = proc[q].left /\ proc'[q].failed = proc[q].failed
             /\ proc'[q].clean = proc[q].clean /\ proc'[q] \in Procedures
             /\ Target(q) \in Simulators /\ ProcOK(proc'[q]) /\ q \notin Workers
  <2>1. PICK pr : pr = [proc[q] EXCEPT !.at = "watchEnds"]
    OBVIOUS
  <2>2. proc'[q] = pr /\ proc[q] \in Procedures
    BY <1>1, <1>5, <2>1, CountsNow
  <2>3. /\ pr.at = "watchEnds" /\ pr.target = Target(q) /\ pr.left = proc[q].left
        /\ pr.failed = proc[q].failed /\ pr.clean = proc[q].clean /\ pr \in Procedures
    BY <2>1, <2>2 DEF Procedures, Target, RemoveSteps
  <2>4. "watch" \in RemoveSteps /\ "watch" \notin PoolSteps \cup AddSteps /\ "watchEnds" \in RemoveSteps
    BY DEF RemoveSteps, PoolSteps, AddSteps
  <2>5. Target(q) \in Simulators /\ q \notin Workers
    <3>1. Target(q) \in Resources
      BY <1>5, <2>4, ResourceKinds
    <3>2. Target(q) \in Simulators
      BY <1>5, <3>1, ResourceKinds DEF NetworkSetup, NetworkTearDown, AppSetup, AppTearDown
    <3> QED
      BY <1>5, <2>4, <3>2 DEF IInv, ProcsOK
  <2>6. ProcOK(pr)
    BY <2>3, <2>4, <2>5 DEF ProcOK, SimulatorTearDown, Procedures
  <2> QED
    BY <2>2, <2>3, <2>5, <2>6
<1>6. \A q \in Procs : proc[q].at # "watch" => proc'[q] = proc[q]
  BY <1>1
<1>7. ASSUME NEW q \in Procs
      PROVE  /\ proc'[q].target = Target(q) /\ proc'[q].failed = proc[q].failed
             /\ ProcOK(proc'[q])
             /\ q \in Workers => proc'[q] = proc[q]
  BY <1>5, <1>6 DEF IInv, ProcsOK, Target
<1>8. proc' \in [Procs -> Procedures]
  BY <1>1, <1>5, <1>6, CountsNow
<1>9. ASSUME NEW q \in Procs PROVE SetupInv(q)' /\ TearDownInv(q)'
  <2>1. PICK pr : pr = proc[q]
    OBVIOUS
  <2>2. PICK s : s = pr.target /\ s = Target(q)
    BY <2>1 DEF Target
  <2>3. SetupInv(q) /\ TearDownInv(q)
    BY DEF IInv
  <2>4. CASE pr.at = "watch"
    <3>1. proc'[q].at = "watchEnds" /\ proc'[q].target = s /\ proc'[q].left = pr.left
          /\ proc'[q].failed = pr.failed /\ proc'[q].clean = pr.clean
      BY <1>5, <2>1, <2>2, <2>4
    <3>2. "watch" \in RemoveSteps /\ "watchEnds" \notin AddSteps
      BY DEF RemoveSteps, AddSteps
    <3>3. SetupInv(q)'
      BY <3>1, <3>2 DEF SetupInv
    <3>4. TearDownInv(q)'
      <4> SUFFICES ASSUME s \in Resources \ disturbed
                   PROVE  TearDownClaims(s, "watchEnds", pr.left, pr.failed, pr.clean)'
        BY <1>1, <3>1 DEF TearDownInv
      <4>1. TearDownClaims(s, "watch", pr.left, pr.failed, pr.clean)
        BY <2>1, <2>2, <2>3, <2>4, <3>2 DEF TearDownInv
      <4>2. TearDownClaims(s, "watchEnds", pr.left, pr.failed, pr.clean)
        BY <4>1, WatchEnds
      <4> QED
        BY <1>1, <1>3, <1>4, <4>2 DEF TearDownClaims
    <3> QED
      BY <3>3, <3>4
  <2>5. CASE pr.at # "watch"
    <3>1. proc'[q] = pr /\ proc[q] = pr
      BY <1>6, <2>1, <2>5
    <3>2. CASE s # r
      BY <1>1, <1>3, <2>1, <2>2, <3>1, <3>2, ClaimsStay
    <3>3. CASE s = r
      <4>1. SetupInv(q)'
        BY <1>1, <1>3, <1>4, <2>2, <2>3, <3>1, <3>3 DEF SetupInv
      <4>2. TearDownInv(q)'
        <5> SUFFICES ASSUME r \notin disturbed, pr.at \in RemoveSteps
                     PROVE  TearDownClaims(r, pr.at, pr.left, pr.failed, pr.clean)'
          <6>1. proc'[q] = pr /\ pr.target = r /\ disturbed' = disturbed
            BY <1>1, <2>2, <3>1, <3>3
          <6> QED
            BY <6>1 DEF TearDownInv
        <5>1. TearDownClaims(r, pr.at, pr.left, pr.failed, pr.clean)
          BY <2>2, <2>3, <3>1, <3>3 DEF TearDownInv
        <5> QED
          BY <1>1, <1>3, <1>4, <5>1 DEF TearDownClaims
      <4> QED
        BY <4>1, <4>2
    <3> QED
      BY <3>2, <3>3
  <2> QED
    BY <2>4, <2>5
<1>10. disturbed' \subseteq Resources
  BY <1>1 DEF IInv, Types
<1> QED
  BY <1>1, <1>2, <1>7, <1>8, <1>9, <1>10, PodChanges

-----------------------------------------------------------------------------
(* The invariant.                                                          *)

LEMMA InitIInv == ASSUME Init PROVE IInv
<1>1. /\ proc = [p \in Procs |-> Idle] /\ owner = <<>> /\ registered = {}
      /\ up = {} /\ gone = {} /\ reported = {} /\ disturbed = {}
  BY DEF Init
<1>2. DOMAIN owner = {}
  BY <1>1
<1>3. Types
  <2>1. scenario.setups \in Seq(Simulators)
    BY ResourceAssumption DEF Init
  <2>2. 0 \in 0 .. Len(scenario.setups) /\ <<>> \in Seq(Simulators)
    BY <2>1
  <2>3. pod \in [Resources -> {"none", "starting", "ready", "terminating"}]
        /\ \A r \in Apps : pod[r] # "terminating"
    BY DEF Init, Resources
  <2> QED
    BY <2>2, <2>3, BoundAssumption DEF Init, Types
<1>4. \A p \in Procs : proc[p] = Idle
  BY <1>1
<1>5. Idle \in Procedures /\ Idle.target = NoResource /\ Idle.at = "idle" /\ ProcOK(Idle)
      /\ "idle" \in PoolSteps
  BY DEF Idle, Procedures, ProcOK, PoolSteps
<1>6. ProcsOK
  BY <1>1, <1>4, <1>5 DEF ProcsOK, Procs
<1>7. \A p \in Procs : Target(p) = NoResource
  BY <1>4, <1>5 DEF Target
<1>8. LabelInv /\ HistoryInv /\ OrphanInv
  BY <1>1, <1>2 DEF LabelInv, HistoryInv, OrphanInv
<1>9. AloneInv
  BY <1>1, <1>7, ResourceAssumption DEF AloneInv
<1>10. \A p \in Procs : SetupInv(p) /\ TearDownInv(p)
  BY <1>4, <1>5, ResourceAssumption DEF SetupInv, TearDownInv
<1> QED
  BY <1>3, <1>6, <1>8, <1>9, <1>10 DEF IInv

LEMMA StutterKeeps == ASSUME IInv, UNCHANGED vars PROVE IInv'
<1>1. Counts /\ UNCHANGED <<world, history>> /\ proc' = proc
  BY CountsNow DEF vars, pool, Counts
<1>2. proc' \in [Procs -> Procedures] /\ \A q \in Procs : Rests(q)
  BY <1>1, CountsNow DEF Rests
<1> QED
  BY <1>1, <1>2, RestKeeps

LEMMA NextKeeps == ASSUME IInv, [Next]_vars PROVE IInv'
<1>1. CASE UNCHANGED vars
  BY <1>1, StutterKeeps
<1>2. CASE AddAll \/ CloseChannels \/ Die
  BY <1>2, PoolStepsKeep
<1>3. ASSUME NEW p \in Procs, SimulatorStep(p) PROVE IInv'
  BY <1>3, SimulatorSetupSteps, SimulatorTearDownSteps DEF SimulatorStep
<1>4. ASSUME NEW p \in Procs, NetworkStep(p) PROVE IInv'
  BY <1>4, NetworkSetupSteps, NetworkTearDownSteps DEF NetworkStep
<1>5. ASSUME NEW p \in Procs, AppStep(p) PROVE IInv'
  BY <1>5, AppSetupSteps, AppTearDownSteps DEF AppStep
<1>6. ASSUME NEW p \in Workers, WorkerStep(p) PROVE IInv'
  BY <1>3, <1>6, TakeSetupKeeps, SendsKeep DEF WorkerStep, Procs
<1>7. ASSUME NEW p \in Commands, SimulatorStep(p) \/ NetworkStep(p) \/ AppStep(p) \/ AwaitStep(p)
      PROVE  IInv'
  BY <1>3, <1>4, <1>5, <1>7, AwaitStepsKeep DEF Procs
<1>8. ASSUME NEW p \in scenario.commands, NEW r \in scenario.targets, CommandStep(p, r)
      PROVE  IInv'
  <2>1. p \in Commands /\ r \in Resources
    BY CountsNow
  <2>2. CASE Kill(p, r)
    BY <2>1, <2>2, KillKeeps
  <2>3. CASE AwaitDevice(p, r)
    BY <2>1, <2>3, AwaitStepsKeep
  <2>4. CASE ~Kill(p, r) /\ ~AwaitDevice(p, r)
    BY <1>8, <2>1, <2>4, OperationsKeep
    DEF CommandStep, RunAddSimulatorCommand, RunRemoveSimulatorCommand, RunAddNetworkCommand,
        RunRemoveNetworkCommand, RunAddAppCommand, RunRemoveAppCommand
  <2> QED
    BY <2>2, <2>3, <2>4
<1>9. ASSUME NEW r \in Resources, PodReady(r) \/ PodGone(r) PROVE IInv'
  BY <1>9, PodReadyKeeps, PodGoneKeeps
<1> QED
  BY <1>1, <1>2, <1>6, <1>7, <1>8, <1>9 DEF Next

LEMMA Invariance == Spec => []IInv
<1>1. Init => IInv
  BY InitIInv
<1>2. IInv /\ [Next]_vars => IInv'
  BY NextKeeps
<1> QED
  BY <1>1, <1>2, PTL DEF Spec

-----------------------------------------------------------------------------
(* What the invariant gives.                                               *)

(* The parts of a resource are safe when nothing it shares is disturbed.   *)
LEMMA UndisturbedParts ==
  ASSUME NEW r \in Undisturbed
  PROVE  r \in Resources \ disturbed /\ \A o \in Parts(r) : Safe(o)
<1>1. r \in Resources /\ Sharing(r) \cap disturbed = {}
  BY DEF Undisturbed
<1>2. r \in Sharing(r)
  BY <1>1 DEF Sharing
<1>3. ASSUME NEW o \in Parts(r), NEW s \in Resources, o \in Parts(s) PROVE s \notin disturbed
  <2>1. CASE s = r
    BY <1>1, <1>2, <2>1
  <2>2. CASE s # r
    <3>1. r \in Networks /\ s \in Networks
      BY <1>1, <1>3, <2>2, SharedParts
    <3>2. \E d \in DeviceNames(r) : o = <<"service", d>>
      BY <3>1, PartsAre DEF Services
    <3>3. PICK d \in Devices(r) : o = <<"service", d>>
      BY <3>1, <3>2, PartsAre
    <3>4. d \in Devices(s)
      BY <1>3, <3>1, <3>3, DeviceParts
    <3> QED
      BY <1>1, <1>3, <3>3, <3>4 DEF Sharing
  <2> QED
    BY <2>1, <2>2
<1> QED
  BY <1>1, <1>2, <1>3 DEF Safe

(* Every variable has its type: the steps and what is left of their loops, *)
(* the objects with the labels of resources, the devices of onos-topo.     *)
THEOREM TypeCorrect == Spec => []TypeOK
<1>1. ASSUME IInv PROVE TypeOK
  <2>1. DOMAIN owner \subseteq Objects /\ Range(owner) \subseteq Resources \cup {RandomName}
    BY <1>1, PartsAreObjects DEF IInv, LabelInv, Range, Label
  <2>2. registered \subseteq ServiceNames
    BY <1>1, PartsAreObjects DEF IInv, LabelInv
  <2>3. proc \in [Procs -> Procedures]
    BY <1>1 DEF IInv, ProcsOK
  <2> QED
    BY <1>1, <2>1, <2>2, <2>3 DEF TypeOK, IInv, Types, Procedures
<1> QED
  BY <1>1, Invariance, PTL

(* What Setup returned nil for is there, whole and under the labels it     *)
(* gives, whatever has failed before and whichever networks want the same  *)
(* names, but for an app without replicas (Setup of simulator.go,          *)
(* network.go and service.go).                                             *)
THEOREM AddedStaysUp == Spec => []AddedIsUp
<1>1. ASSUME IInv PROVE AddedIsUp
  <2> SUFFICES ASSUME NEW r \in (up \cap Undisturbed) \ NoReplicas
               PROVE  /\ pod[r] = "ready" /\ r \in Listed
                      /\ \A o \in Made(r) : o \in DOMAIN owner /\ owner[o] = Label(r)
                      /\ AddsDevice(r) => Devices(r) \subseteq registered
    BY DEF AddedIsUp
  <2>1. r \in Resources \ disturbed /\ \A o \in Parts(r) : Safe(o)
    BY UndisturbedParts
  <2>2. Up(r)
    BY <1>1, <2>1 DEF IInv, HistoryInv
  <2>3. pod[r] = "ready" /\ \A o \in Made(r) : o \in DOMAIN owner /\ owner[o] = Label(r)
    BY <2>1, <2>2, MadeParts DEF Up, Owns
  <2>4. AddsDevice(r) => Devices(r) \subseteq registered
    BY <2>1, <2>2, DeviceParts DEF Up
  <2>5. r \in Listed
    BY <2>1, <2>3, PartsAre, MadeParts
    DEF Resources, Listed, ListSimulators, ListNetworks, ListApps, listServices, listPods, listDeployments
  <2> QED
    BY <2>3, <2>4, <2>5
<1> QED
  BY <1>1, Invariance, PTL

(* A TearDown without a fault leaves nothing of the resource but a pod     *)
(* that terminates, and of a simulator no device, whatever was there when  *)
(* it began (TearDown of simulator.go, network.go and app.go).             *)
THEOREM RemovedIsGone == Spec => []RemoveLeavesNothing
<1>1. ASSUME IInv PROVE RemoveLeavesNothing
  <2> SUFFICES ASSUME NEW r \in gone \cap Undisturbed
               PROVE  /\ pod[r] \in {"none", "terminating"} /\ (r \in Listed => r \in Networks)
                      /\ \A o \in DOMAIN owner : owner[o] # r
                      /\ r \in Apps => Parts(r) \cap DOMAIN owner = {}
                      /\ r \in Simulators => r \notin registered
    BY DEF RemoveLeavesNothing
  <2>1. r \in Resources \ disturbed /\ \A o \in Parts(r) : Safe(o)
    BY UndisturbedParts
  <2>2. Gone(r)
    BY <1>1, <2>1 DEF IInv, HistoryInv
  <2>3. /\ pod[r] \in {"none", "terminating"} /\ (r \in Simulators => r \notin registered)
        /\ \A o \in Parts(r) : ~Owns(r, o)
    BY <2>1, <2>2 DEF Gone
  <2>4. ASSUME NEW o \in DOMAIN owner PROVE owner[o] # r
    <3>1. PICK s \in Resources : owner[o] = Label(s) /\ o \in Parts(s)
      BY <1>1 DEF IInv, LabelInv
    <3>2. owner[o] = r => s = r
      BY <2>1, <3>1, Labels
    <3> QED
      BY <2>3, <3>1, <3>2 DEF Owns
  <2>5. ASSUME r \in Simulators PROVE r \notin Listed
    <3>1. <<"service", r>> \notin DOMAIN owner
      BY <1>1, <2>3, <2>5, OwnParts, PartsAre DEF IInv
    <3> QED
      BY <2>5, <3>1, ResourceAssumption
      DEF Listed, ListSimulators, ListNetworks, ListApps, listServices, listPods, listDeployments
  <2>6. ASSUME r \in Apps PROVE r \notin Listed
    <3>1. pod[r] = "none"
      BY <1>1, <2>3, <2>6 DEF IInv, Types
    <3> QED
      BY <2>6, <3>1, ResourceAssumption
      DEF Listed, ListSimulators, ListNetworks, ListApps, listServices, listPods, listDeployments
  <2>7. r \in Apps => Parts(r) \cap DOMAIN owner = {}
    BY <1>1, <2>3, OwnParts DEF IInv
  <2> QED
    BY <2>1, <2>3, <2>4, <2>5, <2>6, <2>7 DEF Resources
<1> QED
  BY <1>1, Invariance, PTL

(* A device stays in onos-topo without its service only if a command about *)
(* its resource has returned an error, or is still at work.                *)
THEOREM OrphansAreReported == Spec => []OrphanIsReported
<1>1. ASSUME IInv PROVE OrphanIsReported
  <2> SUFFICES ASSUME NEW d \in registered, <<"service", d>> \notin DOMAIN owner
               PROVE  \E r \in Resources :
                        /\ d \in Devices(r)
                        /\ r \in reported \cup disturbed \/ \E p \in Procs : Target(p) = r
    BY DEF OrphanIsReported
  <2>1. CASE Safe(<<"service", d>>)
    BY <1>1, <2>1 DEF IInv, OrphanInv
  <2>2. CASE ~Safe(<<"service", d>>)
    <3>1. PICK r \in disturbed : r \in Resources /\ <<"service", d>> \in Parts(r)
      BY <2>2 DEF Safe
    <3>2. PICK s \in Resources : d \in Devices(s)
      BY <1>1 DEF IInv, LabelInv
    <3>3. d \in Devices(r)
      <4>1. CASE r \in Simulators \cup Networks
        BY <3>1, <4>1, DeviceParts
      <4>2. CASE r \in Apps
        <5>1. d = r
          BY <3>1, <4>2, PartsAre
        <5> QED
          BY <3>2, <4>2, <5>1, PartsAre, NameAssumption, ResourceAssumption DEF Resources
      <4> QED
        BY <3>1, <4>1, <4>2 DEF Resources
    <3> QED
      BY <3>1, <3>3
  <2> QED
    BY <2>1, <2>2
<1> QED
  BY <1>1, Invariance, PTL

-----------------------------------------------------------------------------
(* AddAll comes to an end.  The guards of the steps of AddAll, of its      *)
(* goroutines, and of the pods of simulators.                              *)
MainCanRun == main = "start" \/ (main = "range" /\ todo = <<>> /\ \A p \in Workers : At(p, "idle"))
WorkerCanRun(p) ==
  \/ At(p, "idle") /\ todo # <<>>
  \/ proc[p].at \in {"createConfigMap", "createPod", "createService", "addDevice"}
  \/ At(p, "awaitReady") /\ pod[Target(p)] # "starting"
  \/ At(p, "sendEnv") /\ envs < EnvChannel
  \/ At(p, "sendErr") /\ main = "range"
CanBecomeReady(r) == pod[r] = "starting" /\ <<"configMap", r>> \in DOMAIN owner

(* Until AddAll has returned somebody can go on, unless a goroutine awaits *)
(* a simulator that a command works on at the same time (simulators.go):   *)
(* no goroutine is left with a result that nobody takes, and a pod that is *)
(* awaited can start.                                                      *)
NeverStuck ==
  main \in {"start", "range"} =>
    \/ MainCanRun
    \/ \E p \in Workers :
         \/ WorkerCanRun(p)
         \/ At(p, "awaitReady") /\ (CanBecomeReady(Target(p)) \/ Target(p) \in disturbed)

(* AddAll returns no error only with a result for every setup it was given *)
(* (simulators.go).                                                        *)
AllAreAdded == main = "nil" => envs = Len(scenario.setups)

(* Each setup is in the queue, with a goroutine, or in envCh, as long as   *)
(* no error was received.                                                  *)
Busy == {p \in Workers : ~At(p, "idle")}
PoolInv ==
  /\ main \in {"start", "nil"} => todo = <<>> /\ Busy = {}
  /\ main = "start" => envs = 0
  /\ main \in {"range", "nil"} => envs + Cardinality(Busy) + Len(todo) = Len(scenario.setups)
  /\ main # "exited" => \A p \in Workers : ~At(p, "exited")

(* The steps that are left: of AddAll, of the setups in its queue, and of  *)
(* its goroutines, as pairs with the goroutine.                            *)
WorkerLeft ==
  [createConfigMap |-> 6, createPod |-> 5, createService |-> 4, awaitReady |-> 3, addDevice |-> 2,
   sendErr |-> 1, sendEnv |-> 1, idle |-> 0, exited |-> 0]
AllSteps == Workers \X (1 .. 6)
WorkerSteps == {x \in AllSteps : x[2] <= WorkerLeft[proc[x[1]].at]}
MainLeft == [start |-> 3, range |-> 2, error |-> 1, nil |-> 0, exited |-> 0]
Queued == IF main = "start" THEN scenario.setups ELSE todo
StepsLeft == MainLeft[main] + 7 * Len(Queued) + Cardinality(WorkerSteps)

(* Every step of AddAll and its goroutines leaves them fewer, and nobody   *)
(* else gives them more: no setup is done twice (simulators.go).           *)
StepsRunOut ==
  [][\/ StepsLeft' \in 0 .. StepsLeft - 1
     \/ UNCHANGED <<pool, StepsLeft>> /\ \A p \in Workers : proc'[p] = proc[p]]_vars

LEMMA WorkerFacts ==
  ASSUME IInv, NEW p \in Workers
  PROVE  /\ p \in Procs /\ p \notin Commands /\ proc[p] \in Procedures
         /\ \/ proc[p].at \in PoolSteps
            \/ proc[p].at \in SimulatorSetup /\ Target(p) \in Simulators
<1>1. p \in Procs /\ p \notin Commands
  BY ProcAssumption DEF Procs
<1>2. proc[p].at \in PoolSteps \/ (Target(p) \in Simulators /\ proc[p].at \in AddSteps)
  BY DEF IInv, ProcsOK
<1>3. Target(p) \in Simulators => Target(p) \in Resources
  BY DEF Resources
<1>4. AddSteps \cap SimulatorTearDown = {}
  BY DEF AddSteps, SimulatorTearDown
<1> QED
  BY <1>1, <1>2, <1>3, <1>4, ResourceKinds

(* A call of a goroutine's Setup: the next one, or what it then sends.     *)
Advances(p) ==
  /\ UNCHANGED pool
  /\ \A q \in Procs \ {p} : proc'[q] = proc[q]
  /\ \/ proc[p].at = "createConfigMap" /\ proc'[p].at \in {"createPod", "sendErr"}
     \/ proc[p].at = "createPod" /\ proc'[p].at \in {"createService", "sendErr"}
     \/ proc[p].at = "createService" /\ proc'[p].at \in {"awaitReady", "sendErr"}
     \/ proc[p].at = "awaitReady" /\ proc'[p].at \in {"addDevice", "sendEnv", "sendErr"}
     \/ proc[p].at = "addDevice" /\ proc'[p].at \in {"sendEnv", "sendErr"}

LEMMA ProceedsTo ==
  ASSUME IInv, NEW p \in Workers, NEW step, NEW left, Proceed(p, step, left)
  PROVE  /\ UNCHANGED pool /\ \A q \in Procs \ {p} : proc'[q] = proc[q]
         /\ proc'[p].at = IF step = "return" THEN "sendEnv" ELSE step
<1>1. p \in Procs /\ p \notin Commands /\ proc[p] \in Procedures /\ proc \in [Procs -> Procedures]
  BY WorkerFacts DEF IInv, ProcsOK
<1>2. CASE step = "return"
  <2>1. proc' = [proc EXCEPT ![p] = [Idle EXCEPT !.at = "sendEnv"]]
    BY <1>1, <1>2 DEF Proceed, AddReturns
  <2> QED
    BY <1>1, <1>2, <2>1 DEF Proceed, Idle
<1>3. CASE step # "return"
  <2>1. proc' = [proc EXCEPT ![p].at = step, ![p].left = left]
    BY <1>3 DEF Proceed
  <2>2. \A q \in Procs \ {p} : proc'[q] = proc[q]
    BY <1>1, <2>1
  <2>3. proc'[p].at = step
    BY <1>1, <2>1 DEF Procedures
  <2> QED
    BY <1>3, <2>2, <2>3 DEF Proceed
<1> QED
  BY <1>2, <1>3

LEMMA FailsTo ==
  ASSUME IInv, NEW p \in Workers, AddFails(p)
  PROVE  /\ UNCHANGED pool /\ \A q \in Procs \ {p} : proc'[q] = proc[q]
         /\ proc'[p].at = "sendErr"
<1>1. p \in Procs /\ p \notin Commands /\ proc \in [Procs -> Procedures]
  BY WorkerFacts DEF IInv, ProcsOK
<1>2. proc' = [proc EXCEPT ![p] = [Idle EXCEPT !.at = "sendErr"]]
  BY <1>1 DEF AddFails, AddReturns
<1> QED
  BY <1>1, <1>2 DEF AddFails, Idle

LEMMA SetupAdvances ==
  ASSUME IInv, NEW p \in Workers, SimulatorStep(p)
  PROVE  Advances(p)
<1>1. proc[p].at \in PoolSteps \cup SimulatorSetup
  BY WorkerFacts
<1>2. CASE CreateConfigMap(p)
  BY <1>2, ProceedsTo, FailsTo DEF CreateConfigMap, Create, At, Advances
<1>3. CASE CreateSimulatorPod(p)
  BY <1>3, ProceedsTo, FailsTo DEF CreateSimulatorPod, CreateWorkload, At, Advances
<1>4. CASE CreateSimulatorService(p)
  BY <1>4, ProceedsTo, FailsTo DEF CreateSimulatorService, Create, At, Advances
<1>5. CASE AwaitSimulator(p)
  <2>1. PICK next \in {"addDevice", "return"} : Await(p, next)
    BY <1>5 DEF AwaitSimulator
  <2> QED
    BY <2>1, ProceedsTo, FailsTo DEF Await, At, Advances
<1>6. CASE AddDevice(p)
  BY <1>6, ProceedsTo, FailsTo DEF AddDevice, TopoAdd, At, Advances
<1>7. CASE GetDevice(p) \/ RemoveDevice(p) \/ DeleteSimulatorPod(p) \/ DeleteSimulatorService(p)
           \/ DeleteConfigMap(p) \/ WaitForDeletePod(p)
  BY <1>1, <1>7 DEF GetDevice, RemoveDevice, DeleteSimulatorPod, DeleteSimulatorService,
                    DeleteConfigMap, WaitForDeletePod, At, PoolSteps, SimulatorSetup
<1> QED
  BY <1>2, <1>3, <1>4, <1>5, <1>6, <1>7 DEF SimulatorStep

(* The steps of commands and pods leave AddAll alone.                      *)
Aside == UNCHANGED <<pool, main>> /\ \A p \in Workers : proc'[p] = proc[p]

LEMMA OperationAside ==
  ASSUME IInv, NEW p \in Commands, SimulatorStep(p) \/ NetworkStep(p) \/ AppStep(p) \/ AwaitStep(p)
  PROVE  Aside
<1>1. p \notin Workers /\ p \in Procs /\ Workers \subseteq Procs /\ proc \in [Procs -> Procedures]
  BY ProcAssumption DEF Procs, IInv, ProcsOK
<1>2. ASSUME NEW step, NEW left, Proceed(p, step, left) PROVE Aside
  BY <1>1, <1>2 DEF Proceed, AddReturns, Aside, pool
<1>3. ASSUME AddFails(p) PROVE Aside
  BY <1>1, <1>3 DEF AddFails, AddReturns, Aside, pool
<1>4. ASSUME NEW step, NEW left, NEW err, NEW fault, TearDownGoesOn(p, step, left, err, fault)
      PROVE  Aside
  BY <1>1, <1>4 DEF TearDownGoesOn, Aside, pool
<1>5. ASSUME NEW o, NEW step, NEW left, Create(p, o, step, left) PROVE Aside
  BY <1>2, <1>3, <1>5 DEF Create
<1>6. ASSUME NEW step, NEW left, CreateWorkload(p, step, left) PROVE Aside
  BY <1>2, <1>3, <1>6 DEF CreateWorkload
<1>7. ASSUME NEW step, Await(p, step) PROVE Aside
  BY <1>2, <1>3, <1>7 DEF Await
<1>8. ASSUME NEW d, NEW step, NEW left, TopoAdd(p, d, step, left) PROVE Aside
  BY <1>2, <1>3, <1>8 DEF TopoAdd
<1>9. ASSUME NEW d, NEW s, NEW m, NEW left, TopoGet(p, d, s, m, left) PROVE Aside
  BY <1>4, <1>9 DEF TopoGet
<1>10. ASSUME NEW d, NEW step, NEW left, TopoRemove(p, d, step, left) PROVE Aside
  BY <1>4, <1>10 DEF TopoRemove
<1>11. ASSUME NEW o, NEW step, Delete(p, o, step) PROVE Aside
  BY <1>4, <1>11 DEF Delete
<1>12. ASSUME NEW to, NEW step, DeleteWorkload(p, to, step) PROVE Aside
  BY <1>4, <1>12 DEF DeleteWorkload
<1>13. CASE SimulatorStep(p)
  <2>1. CASE CreateConfigMap(p) \/ CreateSimulatorPod(p) \/ CreateSimulatorService(p)
             \/ AwaitSimulator(p) \/ AddDevice(p)
    BY <1>5, <1>6, <1>7, <1>8, <2>1
    DEF CreateConfigMap, CreateSimulatorPod, CreateSimulatorService, AwaitSimulator, AddDevice
  <2>2. CASE GetDevice(p) \/ RemoveDevice(p) \/ DeleteSimulatorPod(p) \/ DeleteSimulatorService(p)
             \/ DeleteConfigMap(p) \/ WaitForDeletePod(p)
    BY <1>4, <1>9, <1>10, <1>11, <1>12, <2>2
    DEF GetDevice, RemoveDevice, DeleteSimulatorPod, DeleteSimulatorService, DeleteConfigMap,
        WaitForDeletePod
  <2> QED
    BY <1>13, <2>1, <2>2 DEF SimulatorStep
<1>14. CASE NetworkStep(p)
  <2>1. CASE CreateNetworkPod(p) \/ CreateServices(p) \/ AwaitNetwork(p)
    BY <1>5, <1>6, <1>7, <2>1 DEF CreateNetworkPod, CreateServices, AwaitNetwork
  <2>2. CASE AddDevices(p)
    BY <1>2, <1>3, <1>8, <2>2 DEF AddDevices
  <2>3. CASE RemoveDevices(p)
    BY <1>4, <1>9, <1>10, <2>3 DEF RemoveDevices
  <2>4. CASE DeleteNetworkPod(p) \/ ListServices(p)
    BY <1>4, <1>12, <2>4 DEF DeleteNetworkPod, ListServices
  <2>5. CASE DeleteServices(p)
    BY <1>4, <2>5 DEF DeleteServices, DeleteListed
  <2> QED
    BY <1>14, <2>1, <2>2, <2>3, <2>4, <2>5 DEF NetworkStep
<1>15. CASE AppStep(p)
  <2>1. CASE CreateAppService(p) \/ CreateSecret(p) \/ CreateDeployment(p) \/ AwaitApp(p)
    BY <1>2, <1>5, <1>6, <1>7, <2>1 DEF CreateAppService, CreateSecret, CreateDeployment, AwaitApp
  <2>2. CASE DeleteDeployment(p) \/ DeleteAppService(p) \/ DeleteSecret(p)
    BY <1>4, <1>11, <1>12, <2>2 DEF DeleteDeployment, DeleteAppService, DeleteSecret
  <2> QED
    BY <1>15, <2>1, <2>2 DEF AppStep
<1>16. CASE AwaitStep(p)
  BY <1>1, <1>16 DEF AwaitStep, Recv, StreamEnds, TimerFires, SelectErrCh, Listener, AwaitReturns,
                     Aside, pool
<1> QED
  BY <1>13, <1>14, <1>15, <1>16

LEMMA OthersAside ==
  ASSUME IInv,
         \/ UNCHANGED vars
         \/ \E p \in Commands : SimulatorStep(p) \/ NetworkStep(p) \/ AppStep(p) \/ AwaitStep(p)
         \/ \E p \in scenario.commands, r \in scenario.targets : CommandStep(p, r)
         \/ \E r \in Resources : PodReady(r) \/ PodGone(r)
  PROVE  Aside
<1>1. Workers \subseteq Procs /\ Workers \cap Commands = {} /\ proc \in [Procs -> Procedures]
  BY ProcAssumption DEF Procs, IInv, ProcsOK
<1>2. CASE UNCHANGED vars
  BY <1>2 DEF vars, Aside, pool
<1>3. CASE \E p \in Commands : SimulatorStep(p) \/ NetworkStep(p) \/ AppStep(p) \/ AwaitStep(p)
  BY <1>3, OperationAside
<1>4. ASSUME NEW p \in scenario.commands, NEW r \in scenario.targets, CommandStep(p, r) PROVE Aside
  <2>1. p \in Commands /\ p \notin Workers
    BY <1>1, CountsNow
  <2>2. ASSUME NEW step, NEW left, Command(p), Begin(p, r, step, left) PROVE Aside
    BY <1>1, <2>1, <2>2 DEF Command, Begin, Aside, pool
  <2>3. ASSUME Command(p), BeginNothing(p, r) PROVE Aside
    BY <1>1, <2>1, <2>3 DEF Command, BeginNothing, Aside, pool
  <2>4. CASE Kill(p, r) \/ AwaitDevice(p, r)
    BY <1>1, <2>1, <2>4 DEF Kill, AwaitDevice, Command, Aside, pool
  <2> QED
    BY <1>4, <2>2, <2>3, <2>4
    DEF CommandStep, RunAddSimulatorCommand, RunRemoveSimulatorCommand, RunAddNetworkCommand,
        RunRemoveNetworkCommand, RunAddAppCommand, RunRemoveAppCommand, AddSimulator, AddNetwork,
        AddApp, RemoveSimulator, RemoveNetwork, RemoveApp, SetupSimulator, SetupNetwork, SetupApp,
        TearDownSimulator, TearDownNetwork, TearDownApp
<1>5. ASSUME NEW r \in Resources, PodReady(r) PROVE Aside
  BY <1>5 DEF PodReady, Aside, pool
<1>6. ASSUME NEW r \in Resources, PodGone(r) PROVE Aside
  <2>1. ASSUME NEW p \in Workers PROVE ~At(p, "watch")
    BY WorkerFacts DEF At, PoolSteps, SimulatorSetup
  <2> QED
    BY <1>1, <1>6, <2>1 DEF PodGone, Aside, pool
<1> QED
  BY <1>2, <1>3, <1>4, <1>5, <1>6

-----------------------------------------------------------------------------
LEMMA BusyFinite ==
  ASSUME NEW S \in SUBSET Workers
  PROVE  IsFiniteSet(S) /\ Cardinality(S) \in Nat
BY ProcAssumption, FS_Subset, FS_CardinalityType

LEMMA InitPool == ASSUME Init PROVE PoolInv
<1>1. \A p \in Workers : proc[p].at = "idle"
  BY DEF Init, Idle, Procs
<1> QED
  BY <1>1 DEF Init, PoolInv, Busy, At

LEMMA PoolInductive == ASSUME IInv, PoolInv, [Next]_vars PROVE PoolInv'
<1>1. /\ Workers \subseteq Procs /\ proc \in [Procs -> Procedures] /\ todo \in Seq(Simulators)
      /\ Len(scenario.setups) \in Nat /\ envs \in Nat /\ main \in {"start", "range", "nil", "error", "exited"}
  BY CountsNow DEF Procs
<1>2. IsFiniteSet(Busy) /\ Cardinality(Busy) \in Nat
  BY BusyFinite DEF Busy
<1>3. CASE Aside
  <2>1. Busy' = Busy
    BY <1>3 DEF Aside, Busy, At
  <2> QED
    BY <1>3, <2>1 DEF Aside, pool, PoolInv, At
<1>4. CASE AddAll
  <2>1. main = "start" /\ main' = "range" /\ todo' = scenario.setups /\ envs' = envs
        /\ scenario' = scenario /\ Busy' = Busy /\ proc' = proc
    BY <1>4 DEF AddAll, Busy, At
  <2>2. envs = 0 /\ Busy = {}
    BY <2>1 DEF PoolInv
  <2>3. Cardinality(Busy') = 0
    BY <2>1, <2>2, FS_EmptySet
  <2> QED
    BY <1>1, <2>1, <2>2, <2>3 DEF PoolInv, At
<1>5. CASE CloseChannels
  <2>1. main = "range" /\ main' = "nil" /\ todo = <<>> /\ UNCHANGED <<scenario, todo, envs, proc>>
    BY <1>5 DEF CloseChannels
  <2>2. Busy = {} /\ Busy' = Busy
    BY <1>5, <2>1 DEF CloseChannels, Busy, At
  <2> QED
    BY <2>1, <2>2 DEF PoolInv, At
<1>6. CASE Die
  <2>1. main' = "exited"
    BY <1>6 DEF Die
  <2> QED
    BY <2>1 DEF PoolInv
<1>7. ASSUME NEW p \in Workers, TakeSetup(p) PROVE PoolInv'
  <2>1. /\ At(p, "idle") /\ todo # <<>> /\ todo' = Tail(todo)
        /\ UNCHANGED <<scenario, main, envs>>
        /\ proc' = [proc EXCEPT ![p] = [Idle EXCEPT !.at = "createConfigMap", !.target = Head(todo),
                                                    !.left = {}]]
    BY <1>7 DEF TakeSetup, AddSimulator, SetupSimulator, Begin
  <2>2. proc'[p].at = "createConfigMap" /\ \A q \in Workers \ {p} : proc'[q] = proc[q]
    BY <1>1, <2>1 DEF Idle
  <2>3. p \notin Busy /\ Busy' = Busy \cup {p}
    BY <2>1, <2>2 DEF Busy, At
  <2>4. Cardinality(Busy') = Cardinality(Busy) + 1
    BY <1>2, <2>3, FS_AddElement
  <2>5. Len(todo') = Len(todo) - 1
    BY <1>1, <2>1
  <2>6. main \notin {"start", "nil"} /\ main' \notin {"start", "nil"}
    BY <2>1 DEF PoolInv
  <2>7. envs + Cardinality(Busy') + Len(todo') = envs + Cardinality(Busy) + Len(todo)
    BY <1>1, <1>2, <2>4, <2>5
  <2>8. main' # "exited" => \A q \in Workers : ~At(q, "exited")'
    BY <2>1, <2>2 DEF PoolInv, At
  <2> QED
    BY <2>1, <2>6, <2>7, <2>8 DEF PoolInv
<1>8. ASSUME NEW p \in Workers, SimulatorStep(p) PROVE PoolInv'
  <2>1. Advances(p)
    BY <1>8, SetupAdvances
  <2>2. ~At(p, "idle") /\ ~At(p, "idle")' /\ ~At(p, "exited")' /\ \A q \in Workers \ {p} : proc'[q] = proc[q]
    BY <1>1, <2>1 DEF Advances, At
  <2>3. Busy' = Busy /\ p \in Busy
    BY <2>2 DEF Busy, At
  <2> QED
    BY <2>1, <2>2, <2>3 DEF PoolInv, Advances, pool, At
<1>9. ASSUME NEW p \in Workers, SendEnv(p) \/ ReceiveErr(p) PROVE PoolInv'
  <2>1. /\ proc' = [proc EXCEPT ![p] = Idle] /\ ~At(p, "idle") /\ UNCHANGED <<scenario, todo>>
        /\ \/ main' = main /\ envs' = envs + 1
           \/ main' = "error"
    BY <1>9 DEF SendEnv, ReceiveErr, At
  <2>2. proc'[p].at = "idle" /\ \A q \in Workers \ {p} : proc'[q] = proc[q]
    BY <1>1, <2>1 DEF Idle
  <2>3. p \in Busy /\ Busy' = Busy \ {p}
    BY <2>1, <2>2 DEF Busy, At
  <2>4. Cardinality(Busy') = Cardinality(Busy) - 1
    BY <1>2, <2>3, FS_RemoveElement
  <2>5. main \notin {"start", "nil"}
    BY <2>3 DEF PoolInv
  <2> QED
    BY <1>1, <1>2, <1>9, <2>1, <2>2, <2>4, <2>5 DEF PoolInv, At, SendEnv, ReceiveErr
<1> QED
  BY <1>3, <1>4, <1>5, <1>6, <1>7, <1>8, <1>9, OthersAside DEF Next, WorkerStep

LEMMA PoolInvariance == Spec => [](IInv /\ PoolInv)
<1>1. Init => PoolInv
  BY InitPool
<1>2. IInv /\ PoolInv /\ [Next]_vars => PoolInv'
  BY PoolInductive
<1> QED
  BY <1>1, <1>2, Invariance, PTL DEF Spec

(* AddAll returns nil only when it has a simulator for each setup.         *)
THEOREM AddAllIsComplete == Spec => []AllAreAdded
<1>1. IInv /\ PoolInv => AllAreAdded
  <2> SUFFICES ASSUME IInv, PoolInv, main = "nil" PROVE envs = Len(scenario.setups)
    BY DEF AllAreAdded
  <2>1. Busy = {} /\ Len(todo) = 0 /\ envs \in Nat
    BY CountsNow DEF PoolInv
  <2>2. Cardinality(Busy) = 0
    BY <2>1, FS_EmptySet
  <2> QED
    BY <2>1, <2>2 DEF PoolInv
<1> QED
  BY <1>1, PoolInvariance, PTL

(* AddAll waits only for what can come (simulators.go).                    *)
THEOREM NoDeadlock == Spec => []NeverStuck
<1>1. IInv /\ PoolInv => NeverStuck
  <2> SUFFICES ASSUME IInv, PoolInv, main \in {"start", "range"}, ~MainCanRun,
                      \A p \in Workers : ~WorkerCanRun(p),
                      \A p \in Workers :
                        At(p, "awaitReady") => ~CanBecomeReady(Target(p)) /\ Target(p) \notin disturbed
               PROVE  FALSE
    BY DEF NeverStuck
  <2>1. main = "range"
    BY DEF MainCanRun
  <2>2. Cardinality(Busy) \in Nat /\ envs \in Nat /\ Len(todo) \in Nat /\ todo \in Seq(Simulators)
        /\ Len(scenario.setups) \in Nat
    BY BusyFinite, CountsNow DEF Busy
  <2>3. PICK p \in Workers : ~At(p, "idle")
    <3>1. CASE todo = <<>>
      BY <2>1, <3>1 DEF MainCanRun
    <3>2. CASE todo # <<>>
      BY <3>2, ProcAssumption DEF WorkerCanRun
    <3> QED
      BY <3>1, <3>2
  <2>4. proc[p].at \in {"awaitReady", "sendEnv"} /\ p \in Procs
    <3>1. ~At(p, "exited")
      BY <2>1 DEF PoolInv
    <3>2. proc[p].at \in PoolSteps \cup SimulatorSetup /\ p \in Procs
      BY WorkerFacts
    <3> QED
      BY <2>1, <2>3, <3>1, <3>2 DEF WorkerCanRun, At, PoolSteps, SimulatorSetup
  <2>5. CASE At(p, "sendEnv")
    <3>1. p \in Busy /\ IsFiniteSet(Busy)
      BY <2>3, BusyFinite DEF Busy
    <3>2. Cardinality(Busy) # 0
      BY <3>1, FS_EmptySet
    <3>3. envs < Len(scenario.setups)
      BY <2>1, <2>2, <3>2 DEF PoolInv
    <3> QED
      BY <2>5, <3>3 DEF WorkerCanRun, EnvChannel
  <2>6. CASE At(p, "awaitReady")
    <3>1. Target(p) \in Simulators /\ Target(p) \in Resources \ disturbed
      BY <2>6, WorkerFacts DEF At, PoolSteps, Resources
    <3>2. pod[Target(p)] = "starting" /\ <<"configMap", Target(p)>> \notin DOMAIN owner
      BY <2>6 DEF WorkerCanRun, CanBecomeReady
    <3>3. <<"configMap", Target(p)>> \in Parts(Target(p)) \cap (Made(Target(p)) \ ToMake(proc[p]))
      BY <2>6, <3>1, PartsAre, MadeParts DEF ToMake, At
    <3>4. Safe(<<"configMap", Target(p)>>)
      BY <3>1, <3>3, OwnParts
    <3>5. Owns(Target(p), <<"configMap", Target(p)>>)
      BY <2>4, <2>6, <3>1, <3>3, <3>4 DEF IInv, SetupInv, At, AddSteps, Target
    <3> QED
      BY <3>2, <3>5 DEF Owns
  <2> QED
    BY <2>4, <2>5, <2>6 DEF At
<1> QED
  BY <1>1, PoolInvariance, PTL

-----------------------------------------------------------------------------
Places == SimulatorSetup \cup PoolSteps

LEMMA LeftIs ==
  /\ WorkerLeft["createConfigMap"] = 6 /\ WorkerLeft["createPod"] = 5
  /\ WorkerLeft["createService"] = 4 /\ WorkerLeft["awaitReady"] = 3
  /\ WorkerLeft["addDevice"] = 2 /\ WorkerLeft["sendErr"] = 1 /\ WorkerLeft["sendEnv"] = 1
  /\ WorkerLeft["idle"] = 0 /\ WorkerLeft["exited"] = 0
  /\ MainLeft["start"] = 3 /\ MainLeft["range"] = 2 /\ MainLeft["error"] = 1
  /\ MainLeft["nil"] = 0 /\ MainLeft["exited"] = 0
BY DEF WorkerLeft, MainLeft

LEMMA StepsFinite ==
  /\ IsFiniteSet(WorkerSteps) /\ Cardinality(WorkerSteps) \in Nat
  /\ IsFiniteSet(WorkerSteps') /\ Cardinality(WorkerSteps') \in Nat
<1>1. IsFiniteSet(1 .. 6)
  <2>1. 1 \in Int /\ 6 \in Int
    OBVIOUS
  <2> QED
    BY <2>1, FS_Interval
<1>2. IsFiniteSet(AllSteps)
  BY <1>1, ProcAssumption, FS_Product DEF AllSteps
<1>3. ASSUME NEW S \in SUBSET AllSteps PROVE IsFiniteSet(S) /\ Cardinality(S) \in Nat
  BY <1>2, FS_Subset, FS_CardinalityType
<1>4. WorkerSteps \in SUBSET AllSteps /\ WorkerSteps' \in SUBSET AllSteps
  BY DEF WorkerSteps, AllSteps
<1> QED
  BY <1>3, <1>4

(* A goroutine that goes on has fewer steps left, and only it; with a new  *)
(* setup it has six more.                                                  *)
LEMMA WorkerStepsAre ==
  ASSUME IInv, NEW p \in Workers, proc'[p].at \in Places,
         \A q \in Workers \ {p} : proc'[q] = proc[q]
  PROVE  /\ WorkerLeft[proc'[p].at] < WorkerLeft[proc[p].at] =>
              Cardinality(WorkerSteps') < Cardinality(WorkerSteps)
         /\ proc[p].at = "idle" => Cardinality(WorkerSteps') <= Cardinality(WorkerSteps) + 6
<1>1. proc[p].at \in Places
  BY WorkerFacts DEF Places
<1>2. \A x \in Places : WorkerLeft[x] \in 0 .. 6
  BY LeftIs DEF Places, SimulatorSetup, PoolSteps
<1>3. WorkerSteps = {x \in AllSteps : x[2] <= WorkerLeft[proc[x[1]].at]}
      /\ WorkerSteps' = {x \in AllSteps : x[2] <= WorkerLeft[proc'[x[1]].at]}
  BY DEF WorkerSteps, AllSteps, WorkerLeft
<1>4. \A x \in AllSteps : x[1] \in Workers /\ x[2] \in 1 .. 6 /\ x = <<x[1], x[2]>>
  BY DEF AllSteps
<1>5. ASSUME WorkerLeft[proc'[p].at] < WorkerLeft[proc[p].at]
      PROVE  Cardinality(WorkerSteps') < Cardinality(WorkerSteps)
  <2> DEFINE last == <<p, WorkerLeft[proc[p].at]>>
  <2>1. WorkerLeft[proc[p].at] \in 1 .. 6 /\ WorkerLeft[proc'[p].at] \in 0 .. 6
    BY <1>1, <1>2, <1>5
  <2>2. last \in AllSteps /\ last[1] = p /\ last[2] = WorkerLeft[proc[p].at]
    BY <2>1 DEF AllSteps
  <2>3. last \in WorkerSteps /\ last \notin WorkerSteps'
    BY <1>3, <1>5, <2>1, <2>2
  <2>4. WorkerSteps' \subseteq WorkerSteps
    <3> SUFFICES ASSUME NEW x \in AllSteps, x[2] <= WorkerLeft[proc'[x[1]].at]
                 PROVE  x[2] <= WorkerLeft[proc[x[1]].at]
      BY <1>3
    <3>1. CASE x[1] = p
      BY <1>4, <1>5, <2>1, <3>1
    <3>2. CASE x[1] # p
      BY <1>4, <3>2
    <3> QED
      BY <3>1, <3>2
  <2>5. Cardinality(WorkerSteps') <= Cardinality(WorkerSteps)
        /\ Cardinality(WorkerSteps') # Cardinality(WorkerSteps)
    BY <2>3, <2>4, StepsFinite, FS_Subset
  <2> QED
    BY <2>5, StepsFinite
<1>6. ASSUME proc[p].at = "idle"
      PROVE  Cardinality(WorkerSteps') <= Cardinality(WorkerSteps) + 6
  <2> DEFINE new == {p} \X (1 .. 6)
  <2>1. IsFiniteSet({p}) /\ Cardinality({p}) = 1
    BY FS_Singleton
  <2>2. IsFiniteSet(1 .. 6) /\ Cardinality(1 .. 6) = 6
    <3>1. 1 \in Int /\ 6 \in Int /\ 6 - 1 + 1 = 6 /\ ~(1 > 6)
      OBVIOUS
    <3> QED
      BY <3>1, FS_Interval
  <2>3. IsFiniteSet(new) /\ Cardinality(new) = 6
    <3>1. IsFiniteSet(new) /\ Cardinality(new) = 1 * 6
      BY <2>1, <2>2, FS_Product
    <3> QED
      BY <3>1
  <2>4. IsFiniteSet(WorkerSteps \cup new)
        /\ Cardinality(WorkerSteps \cup new) =
             Cardinality(WorkerSteps) + Cardinality(new) - Cardinality(WorkerSteps \cap new)
    BY <2>3, StepsFinite, FS_Union
  <2>5. Cardinality(WorkerSteps \cap new) \in Nat
    <3>1. IsFiniteSet(WorkerSteps \cap new)
      BY StepsFinite, FS_Intersection
    <3> QED
      BY <3>1, FS_CardinalityType
  <2>6. WorkerSteps' \subseteq WorkerSteps \cup new
    <3> SUFFICES ASSUME NEW x \in AllSteps, x[2] <= WorkerLeft[proc'[x[1]].at], x[1] # p
                 PROVE  x[2] <= WorkerLeft[proc[x[1]].at]
      BY <1>3, <1>4
    <3> QED
      BY <1>4
  <2>7. Cardinality(WorkerSteps') <= Cardinality(WorkerSteps \cup new)
    BY <2>4, <2>6, FS_Subset
  <2> QED
    BY <2>3, <2>4, <2>5, <2>7, StepsFinite
<1> QED
  BY <1>5, <1>6

(* Every step of AddAll or of its goroutines takes one from those left     *)
(* (simulators.go).                                                        *)
THEOREM EveryStepCounts == Spec => StepsRunOut
<1> DEFINE Less == StepsLeft' \in 0 .. StepsLeft - 1
<1>1. ASSUME IInv, PoolInv, [Next]_vars
      PROVE  Less \/ (UNCHANGED <<pool, StepsLeft>> /\ \A p \in Workers : proc'[p] = proc[p])
  <2>1. /\ Workers \subseteq Procs /\ proc \in [Procs -> Procedures] /\ todo \in Seq(Simulators)
        /\ scenario.setups \in Seq(Simulators)
        /\ main \in {"start", "range", "nil", "error", "exited"}
    BY <1>1, CountsNow DEF Procs
  <2>2. /\ Len(todo) \in Nat /\ Len(scenario.setups) \in Nat
        /\ Cardinality(WorkerSteps) \in Nat /\ Cardinality(WorkerSteps') \in Nat
    BY <2>1, StepsFinite
  <2>3. CASE Aside
    <3>1. WorkerSteps' = WorkerSteps
      BY <2>3 DEF Aside, WorkerSteps, AllSteps, WorkerLeft
    <3> QED
      BY <2>3, <3>1 DEF Aside, StepsLeft, Queued, MainLeft, pool
  <2>4. CASE AddAll
    <3>1. WorkerSteps' = WorkerSteps
      BY <2>4 DEF AddAll, WorkerSteps, AllSteps, WorkerLeft
    <3>2. /\ StepsLeft = 3 + 7 * Len(scenario.setups) + Cardinality(WorkerSteps)
          /\ StepsLeft' = 2 + 7 * Len(scenario.setups) + Cardinality(WorkerSteps)
      BY <2>4, <3>1, LeftIs DEF AddAll, StepsLeft, Queued, MainLeft
    <3> QED
      BY <2>2, <3>2
  <2>5. CASE CloseChannels
    <3>1. WorkerSteps' = WorkerSteps
      BY <2>5 DEF CloseChannels, WorkerSteps, AllSteps, WorkerLeft
    <3>2. /\ StepsLeft = 2 + 7 * Len(todo) + Cardinality(WorkerSteps)
          /\ StepsLeft' = 0 + 7 * Len(todo) + Cardinality(WorkerSteps)
      BY <2>5, <3>1, LeftIs DEF CloseChannels, StepsLeft, Queued, MainLeft
    <3> QED
      BY <2>2, <3>2
  <2>6. CASE Die
    <3>1. main = "error" /\ main' = "exited" /\ todo' = <<>>
      BY <2>6 DEF Die
    <3>2. \A p \in Workers : proc'[p].at = "exited"
      BY <2>1, <2>6 DEF Die, Idle
    <3>3. WorkerSteps' = {}
      <4>1. \A x \in AllSteps : x[1] \in Workers /\ x[2] \in 1 .. 6
        BY DEF AllSteps
      <4>2. WorkerSteps' = {x \in AllSteps : x[2] <= WorkerLeft[proc'[x[1]].at]}
        BY DEF WorkerSteps, AllSteps, WorkerLeft
      <4>3. \A x \in AllSteps : ~(x[2] <= WorkerLeft[proc'[x[1]].at])
        BY <3>2, <4>1, LeftIs
      <4> QED
        BY <4>2, <4>3
    <3>4. Cardinality(WorkerSteps') = 0
      BY <3>3, FS_EmptySet
    <3>5. /\ StepsLeft = 1 + 7 * Len(todo) + Cardinality(WorkerSteps)
          /\ StepsLeft' = 0
      BY <3>1, <3>4, LeftIs DEF StepsLeft, Queued, MainLeft
    <3> QED
      BY <2>2, <3>5
  <2>7. ASSUME NEW p \in Workers, TakeSetup(p) PROVE Less
    <3>1. /\ At(p, "idle") /\ todo # <<>> /\ todo' = Tail(todo) /\ main' = main
          /\ proc' = [proc EXCEPT ![p] = [Idle EXCEPT !.at = "createConfigMap",
                                                      !.target = Head(todo), !.left = {}]]
      BY <2>7 DEF TakeSetup, AddSimulator, SetupSimulator, Begin
    <3>2. proc'[p].at \in Places /\ \A q \in Workers \ {p} : proc'[q] = proc[q]
      BY <2>1, <3>1 DEF Idle, Places, SimulatorSetup
    <3>3. Cardinality(WorkerSteps') <= Cardinality(WorkerSteps) + 6
      BY <1>1, <3>1, <3>2, WorkerStepsAre DEF At
    <3>4. main # "start" /\ Len(todo') = Len(todo) - 1 /\ Len(todo') \in Nat
      <4>1. main # "start"
        BY <1>1, <3>1 DEF PoolInv
      <4> QED
        BY <2>1, <3>1, <4>1
    <3>5. MainLeft[main] \in Nat
      BY <2>1, LeftIs
    <3>6. /\ StepsLeft = MainLeft[main] + 7 * Len(todo) + Cardinality(WorkerSteps)
          /\ StepsLeft' = MainLeft[main] + 7 * Len(todo') + Cardinality(WorkerSteps')
      BY <3>1, <3>4 DEF StepsLeft, Queued, MainLeft
    <3>7. 7 * Len(todo') = 7 * Len(todo) - 7 /\ 7 * Len(todo') \in Nat
      BY <2>2, <3>4
    <3>8. ASSUME NEW m \in Nat, NEW l \in Nat, NEW k \in Nat, NEW w \in Nat, NEW v \in Nat,
                 k = l - 7, v <= w + 6
          PROVE  m + k + v \in 0 .. (m + l + w) - 1
      BY <3>8
    <3>9. 7 * Len(todo) \in Nat
      BY <2>2
    <3>10. MainLeft[main] + 7 * Len(todo') + Cardinality(WorkerSteps')
             \in 0 .. (MainLeft[main] + 7 * Len(todo) + Cardinality(WorkerSteps)) - 1
      BY <2>2, <3>3, <3>5, <3>7, <3>8, <3>9
    <3> QED
      BY <3>6, <3>10
  <2>8. ASSUME NEW p \in Workers, SimulatorStep(p) \/ SendEnv(p) \/ ReceiveErr(p) PROVE Less
    <3>1. /\ \A q \in Workers \ {p} : proc'[q] = proc[q]
          /\ proc'[p].at \in Places /\ WorkerLeft[proc'[p].at] < WorkerLeft[proc[p].at]
          /\ UNCHANGED <<scenario, todo>>
          /\ main' = main \/ (main = "range" /\ main' = "error")
      <4>1. CASE SimulatorStep(p)
        <5>1. Advances(p)
          BY <1>1, <4>1, SetupAdvances
        <5> QED
          BY <2>1, <5>1, LeftIs DEF Advances, pool, Places, SimulatorSetup, PoolSteps
      <4>2. CASE SendEnv(p) \/ ReceiveErr(p)
        <5>1. /\ proc' = [proc EXCEPT ![p] = Idle] /\ proc[p].at \in {"sendEnv", "sendErr"}
              /\ UNCHANGED <<scenario, todo>>
              /\ main' = main \/ (main = "range" /\ main' = "error")
          BY <4>2 DEF SendEnv, ReceiveErr, At
        <5>2. proc'[p].at = "idle" /\ \A q \in Workers \ {p} : proc'[q] = proc[q]
          BY <2>1, <5>1 DEF Idle
        <5> QED
          BY <5>1, <5>2, LeftIs DEF Places, PoolSteps
      <4> QED
        BY <2>8, <4>1, <4>2
    <3>2. Cardinality(WorkerSteps') < Cardinality(WorkerSteps)
      BY <1>1, <3>1, WorkerStepsAre
    <3>3. main # "start" /\ main' # "start"
      <4>1. proc[p].at # "idle"
        <5>1. WorkerLeft[proc'[p].at] \in Nat
          BY <3>1, LeftIs DEF Places, SimulatorSetup, PoolSteps
        <5> QED
          BY <3>1, <5>1, LeftIs
      <4> QED
        BY <1>1, <3>1, <4>1 DEF PoolInv, Busy, At
    <3>4. MainLeft[main] \in Nat /\ MainLeft[main'] \in Nat /\ MainLeft[main'] <= MainLeft[main]
      BY <2>1, <3>1, LeftIs
    <3>5. /\ StepsLeft = MainLeft[main] + 7 * Len(todo) + Cardinality(WorkerSteps)
          /\ StepsLeft' = MainLeft[main'] + 7 * Len(todo) + Cardinality(WorkerSteps')
      BY <3>1, <3>3 DEF StepsLeft, Queued, MainLeft
    <3> QED
      BY <2>2, <3>2, <3>4, <3>5
  <2> QED
    BY <1>1, <2>3, <2>4, <2>5, <2>6, <2>7, <2>8, OthersAside DEF Next, WorkerStep
<1> QED
  BY <1>1, PoolInvariance, PTL DEF Spec, StepsRunOut
===============================================================================
