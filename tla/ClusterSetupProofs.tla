-------------------------- MODULE ClusterSetupProofs --------------------------
(***************************************************************************)
(* Proofs about ClusterSetup, for any databases, services, settings and    *)
(* arguments and any number of runs.                                       *)
(***************************************************************************)
EXTENDS ClusterSetup, FiniteSetTheorems, TLAPS

Controller == Atomix \in ready /\ CRDs \X {Atomix} \subseteq objects

(* Everything that NilMeansUp asks of one part.                            *)
Up(p) ==
  /\ Requested(p) \subseteq objects
  /\ Awaited(p) => p \in ready
  /\ p \in Databases => settings.protocols[p] # {}

(* Where Setup is tells what exists of the controller.                     *)
MainInv ==
  /\ main \in {"clusterCRD", "partitionCRD", "deployment", "service", "await"} =>
       <<"databaseCRD", Atomix>> \in objects
  /\ main \in {"partitionCRD", "deployment", "service", "await"} =>
       <<"clusterCRD", Atomix>> \in objects
  /\ main \in {"deployment", "service", "await"} => <<"partitionCRD", Atomix>> \in objects
  /\ main \in {"setupServices", "range", "nil"} => Controller

(* Goroutines run once the controller is up, also after Setup has failed.  *)
WorkInv == \A p \in Parts : part[p] # "done" => Controller /\ main \in {"range", "error"}

(* Where a goroutine is tells what it has created.                         *)
StageInv ==
  \A p \in Parts :
    /\ part[p] = "secret" => <<"service", p>> \in objects
    /\ part[p] = "deployment" /\ p \in Services =>
         ServiceObjects(p) \subseteq objects \cup {<<"deployment", p>>}
    /\ part[p] = "deployment" /\ p = CLI => CLIObjects \subseteq objects \cup {<<"deployment", p>>}
    /\ part[p] = "await" => Requested(p) \subseteq objects
    /\ part[p] = "await" /\ p \in Databases => settings.protocols[p] # {}

(* As long as no error was received, a goroutine that is done has set its  *)
(* part up.                                                                *)
DoneInv == main \in {"range", "nil"} => \A p \in Parts : part[p] = "done" => Up(p)

(* The channel is closed when all goroutines are done.                     *)
CloserInv ==
  /\ main \in {"range", "nil"} /\ closer = "closed" => \A p \in Parts : part[p] = "done"
  /\ main = "nil" => closer = "closed"

IInv ==
  TypeOK /\ MainInv /\ WorkInv /\ StageInv /\ DoneInv /\ CloserInv /\ ControllerFirst

-----------------------------------------------------------------------------
(* What has been set up stays so while settings and arguments do.          *)
LEMMA RequestedStays ==
  ASSUME UNCHANGED inputs, NEW p \in Parts
  PROVE  /\ Requested(p)' = Requested(p)
         /\ ServiceObjects(p)' = ServiceObjects(p)
         /\ Awaited(p)' = Awaited(p)
BY DEF inputs, Requested, ServiceObjects, Awaited, Replicas, Enabled, GetArg

LEMMA UpStays ==
  ASSUME UNCHANGED inputs, objects \subseteq objects', ready \subseteq ready',
         NEW p \in Parts, Up(p)
  PROVE  Up(p)'
<1>1. Requested(p)' = Requested(p) /\ Awaited(p)' = Awaited(p)
  BY RequestedStays
<1>2. settings' = settings
  BY DEF inputs
<1> QED
  BY <1>1, <1>2 DEF Up

LEMMA ControllerStays ==
  ASSUME Controller, objects \subseteq objects', ready \subseteq ready'
  PROVE  Controller'
BY DEF Controller

LEMMA InitIInv == Init => IInv
<1> SUFFICES ASSUME Init PROVE IInv
  OBVIOUS
<1>1. TypeOK
  <2>1. Default \in SettingsType
    BY BoundAssumption DEF Default, SettingsType, Services
  <2> QED
    BY <2>1, BoundAssumption DEF Init, TypeOK
<1>2. MainInv /\ WorkInv /\ StageInv /\ DoneInv /\ CloserInv /\ ControllerFirst
  BY DEF Init, MainInv, WorkInv, StageInv, DoneInv, CloserInv, ControllerFirst
<1> QED
  BY <1>1, <1>2 DEF IInv

-----------------------------------------------------------------------------
(* The builders work before anything runs.                                 *)
LEMMA BuildKeeps ==
  ASSUME IInv, NEW new \in SettingsType, Build(new)
  PROVE  IInv'
<1> USE DEF IInv, Build, cluster
<1>1. TypeOK'
  BY DEF TypeOK
<1>2. \A p \in Parts : part[p] = "done"
  BY DEF WorkInv
<1>3. MainInv' /\ WorkInv' /\ CloserInv' /\ ControllerFirst'
  BY <1>2 DEF MainInv, WorkInv, CloserInv, ControllerFirst, Controller
<1>4. StageInv' /\ DoneInv'
  BY <1>2 DEF StageInv, DoneInv
<1> QED
  BY <1>1, <1>3, <1>4

LEMMA BuildStepKeeps ==
  ASSUME IInv, BuildStep
  PROVE  IInv'
<1> USE DEF IInv
<1>1. settings \in SettingsType
  BY DEF TypeOK
<1>2. ASSUME NEW d \in Databases, Raft(d) \/ NOPaxos(d) PROVE IInv'
  <2>1. \A x \in {"raft", "nopaxos"} :
          [settings EXCEPT !.protocols[d] = @ \cup {x}] \in SettingsType
    BY <1>1 DEF SettingsType
  <2> QED
    BY <1>2, <2>1, BuildKeeps DEF Raft, NOPaxos
<1>3. ASSUME NEW s \in Services, NEW n \in 0 .. MaxReplicas,
             SetCoreReplicas(s, n) \/ SetAppReplicas(s, n)
      PROVE  IInv'
  <2>1. [settings EXCEPT !.replicas[s] = n] \in SettingsType
    BY <1>1 DEF SettingsType
  <2> QED
    BY <1>3, <2>1, BuildKeeps DEF SetCoreReplicas, SetAppReplicas
<1>4. ASSUME NEW s \in Services, AddSecret(s) \/ \E any \in BOOLEAN : SetSecrets(s, any)
      PROVE  IInv'
  <2>1. /\ [settings EXCEPT !.secrets = @ \cup {s}] \in SettingsType
        /\ [settings EXCEPT !.secrets = @ \ {s}] \in SettingsType
    BY <1>1 DEF SettingsType
  <2>2. CASE AddSecret(s)
    BY <2>1, <2>2, BuildKeeps DEF AddSecret
  <2>3. ASSUME NEW any \in BOOLEAN, SetSecrets(s, any) PROVE IInv'
    <3>1. [settings EXCEPT !.secrets = IF any THEN @ \cup {s} ELSE @ \ {s}] \in SettingsType
      BY <1>1 DEF SettingsType
    <3> QED
      BY <2>3, <3>1, BuildKeeps DEF SetSecrets
  <2> QED
    BY <1>4, <2>2, <2>3
<1>5. CASE SetEnabled
  <2>1. [settings EXCEPT !.cliEnabled = TRUE] \in SettingsType
    BY <1>1 DEF SettingsType
  <2> QED
    BY <1>5, <2>1, BuildKeeps DEF SetEnabled
<1>6. CASE StartSetup
  <2> USE <1>6 DEF StartSetup, cluster, inputs
  <2>1. TypeOK'
    BY DEF TypeOK, CRDs
  <2>2. \A p \in Parts : part[p] = "done"
    BY DEF WorkInv
  <2>3. MainInv' /\ WorkInv' /\ CloserInv' /\ ControllerFirst' /\ StageInv' /\ DoneInv'
    BY <2>2 DEF MainInv, WorkInv, CloserInv, ControllerFirst, Controller, StageInv, DoneInv
  <2> QED
    BY <2>1, <2>3
<1> QED
  BY <1>2, <1>3, <1>4, <1>5, <1>6 DEF BuildStep

-----------------------------------------------------------------------------
(* Objects that are added, and parts that become ready, where nothing else *)
(* changes.                                                                *)
LEMMA GrowthKeepsStage ==
  ASSUME StageInv, UNCHANGED <<inputs, part>>, objects \subseteq objects'
  PROVE  StageInv'
<1> SUFFICES ASSUME NEW p \in Parts
    PROVE  /\ part[p] = "secret" => <<"service", p>> \in objects'
           /\ part[p] = "deployment" /\ p \in Services =>
                ServiceObjects(p)' \subseteq objects' \cup {<<"deployment", p>>}
           /\ part[p] = "deployment" /\ p = CLI =>
                CLIObjects \subseteq objects' \cup {<<"deployment", p>>}
           /\ part[p] = "await" => Requested(p)' \subseteq objects'
           /\ part[p] = "await" /\ p \in Databases => settings'.protocols[p] # {}
  BY DEF StageInv, CLIObjects
<1>1. Requested(p)' = Requested(p) /\ ServiceObjects(p)' = ServiceObjects(p)
  BY RequestedStays
<1> QED
  BY <1>1 DEF StageInv, inputs

(* The steps of the main goroutine for the controller: each adds at most   *)
(* an object of its own and goes on or ends with an error.                 *)
LEMMA AtomixKeeps ==
  ASSUME IInv, NEW step \in {"clusterCRD", "partitionCRD", "deployment", "service", "await",
                             "setupServices", "error"},
         MainTo(step), UNCHANGED ready, objects \subseteq objects',
         objects' \subseteq objects \cup (Objects \cap ((CRDs \cup {"deployment", "service"}) \X {Atomix})),
         main \in {"databaseCRD", "clusterCRD", "partitionCRD", "deployment", "service", "await"},
         MainInv'
  PROVE  IInv'
<1> USE DEF IInv, MainTo
<1>1. \A p \in Parts : part[p] = "done"
  BY DEF WorkInv
<1>2. TypeOK'
  BY DEF TypeOK, CRDs, inputs
<1>3. WorkInv' /\ DoneInv' /\ CloserInv'
  BY <1>1 DEF WorkInv, DoneInv, CloserInv
<1>4. StageInv'
  BY GrowthKeepsStage
<1>5. ControllerFirst'
  <2>1. ASSUME NEW o \in objects', o[2] \in Parts PROVE o \in objects
    BY <2>1, PartsAssumption DEF CRDs
  <2> QED
    BY <2>1 DEF ControllerFirst
<1> QED
  BY <1>2, <1>3, <1>4, <1>5

LEMMA AtomixStepKeeps ==
  ASSUME IInv, AtomixStep \/ AwaitControllerFails
  PROVE  IInv'
<1> USE DEF IInv
<1>1. ASSUME NEW crd \in CRDs, NEW next \in {"clusterCRD", "partitionCRD", "deployment"},
             CreateCRD(crd, next),
             <<crd, next>> \in {<<"databaseCRD", "clusterCRD">>, <<"clusterCRD", "partitionCRD">>,
                                <<"partitionCRD", "deployment">>}
      PROVE  IInv'
  <2>1. /\ main = crd /\ UNCHANGED ready
        /\ objects \subseteq objects' /\ objects' \subseteq objects \cup {<<crd, Atomix>>}
        /\ \/ MainTo(next) /\ <<crd, Atomix>> \in objects'
           \/ MainTo("error")
    BY <1>1 DEF CreateCRD
  <2>2. <<crd, Atomix>> \in Objects \cap ((CRDs \cup {"deployment", "service"}) \X {Atomix})
    BY DEF Objects
  <2>3. MainInv'
    <3>1. main' \in {next, "error"}
      BY <2>1 DEF MainTo
    <3> QED
      BY <1>1, <2>1, <3>1 DEF MainInv, MainTo
  <2> QED
    BY <2>1, <2>2, <2>3, AtomixKeeps DEF CRDs
<1>2. ASSUME NEW kind \in {"deployment", "service"}, NEW next \in {"service", "await"},
             main = kind, UNCHANGED ready,
             \/ Create(kind, Atomix) /\ MainTo(next)
             \/ CreateFails(kind, Atomix) /\ MainTo("error")
      PROVE  IInv'
  <2>1. objects \subseteq objects' /\ objects' \subseteq objects \cup {<<kind, Atomix>>}
    BY <1>2 DEF Create, CreateFails
  <2>2. <<kind, Atomix>> \in Objects \cap ((CRDs \cup {"deployment", "service"}) \X {Atomix})
    BY DEF Objects, Kinds
  <2>3. MainInv'
    BY <1>2, <2>1 DEF MainInv, MainTo
  <2> QED
    BY <1>2, <2>1, <2>2, <2>3, AtomixKeeps
<1>3. CASE AwaitController
  <2>1. MainInv'
    <3>1. CRDs \X {Atomix} \subseteq objects
      BY <1>3 DEF AwaitController, MainInv, CRDs
    <3> QED
      BY <1>3, <3>1 DEF AwaitController, MainInv, MainTo, Controller, cluster
  <2> QED
    BY <1>3, <2>1, AtomixKeeps DEF AwaitController, cluster
<1>4. CASE AwaitControllerFails
  <2>1. MainInv'
    BY <1>4 DEF AwaitControllerFails, MainInv, MainTo
  <2> QED
    BY <1>4, <2>1, AtomixKeeps DEF AwaitControllerFails, cluster
<1>5. CASE CreateDatabaseResource
  BY <1>1, <1>5 DEF CreateDatabaseResource, CRDs
<1>6. CASE CreateClusterResource
  BY <1>1, <1>6 DEF CreateClusterResource, CRDs
<1>7. CASE CreatePartitionResource
  BY <1>1, <1>7 DEF CreatePartitionResource, CRDs
<1>8. CASE AtomixDeployment
  BY <1>2, <1>8 DEF AtomixDeployment
<1>9. CASE AtomixService
  BY <1>2, <1>9 DEF AtomixService
<1> QED
  BY <1>3, <1>4, <1>5, <1>6, <1>7, <1>8, <1>9 DEF AtomixStep

-----------------------------------------------------------------------------
(* A goroutine goes on: what it has created is there, and when it is done  *)
(* without an error that was received, its part is up.                     *)
LEMMA PartKeeps ==
  ASSUME IInv, NEW p \in Parts, NEW step, PartTo(p, step), part[p] # "done",
         step \in {"setup", "await", "send", "done"} \cup Kinds,
         UNCHANGED ready, objects \subseteq objects', objects' \subseteq objects \cup (Kinds \X Parts),
         step = "secret" => <<"service", p>> \in objects',
         step = "deployment" /\ p \in Services =>
           ServiceObjects(p) \subseteq objects' \cup {<<"deployment", p>>},
         step = "deployment" /\ p = CLI =>
           CLIObjects \subseteq objects' \cup {<<"deployment", p>>},
         step = "await" => Requested(p) \subseteq objects',
         step = "await" /\ p \in Databases => settings.protocols[p] # {},
         step = "done" /\ main = "range" => Up(p)'
  PROVE  IInv'
<1> USE DEF IInv, PartTo, inputs
<1>1. Controller /\ main \in {"range", "error"}
  BY DEF WorkInv
<1>2. Controller'
  BY <1>1, ControllerStays
<1>3. \A q \in Parts : part'[q] = IF q = p THEN step ELSE part[q]
  BY DEF TypeOK
<1>4. TypeOK'
  <2>1. Kinds \X Parts \subseteq Objects
    BY DEF Objects
  <2> QED
    BY <2>1 DEF TypeOK
<1>5. MainInv' /\ WorkInv' /\ ControllerFirst'
  BY <1>1, <1>2 DEF MainInv, WorkInv, ControllerFirst, Controller
<1>6. StageInv'
  <2> SUFFICES ASSUME NEW q \in Parts
      PROVE  /\ part'[q] = "secret" => <<"service", q>> \in objects'
             /\ part'[q] = "deployment" /\ q \in Services =>
                  ServiceObjects(q) \subseteq objects' \cup {<<"deployment", q>>}
             /\ part'[q] = "deployment" /\ q = CLI =>
                  CLIObjects \subseteq objects' \cup {<<"deployment", q>>}
             /\ part'[q] = "await" => Requested(q) \subseteq objects'
             /\ part'[q] = "await" /\ q \in Databases => settings.protocols[q] # {}
    BY RequestedStays, ZenonT(60) DEF StageInv, CLIObjects
  <2>1. CASE q = p
    BY <1>3, <2>1
  <2>2. CASE q # p
    BY <1>3, <2>2 DEF StageInv
  <2> QED
    BY <2>1, <2>2
<1>7. DoneInv'
  <2> SUFFICES ASSUME main = "range", NEW q \in Parts, part'[q] = "done" PROVE Up(q)'
    BY <1>1 DEF DoneInv
  <2>1. CASE q = p
    BY <1>3, <2>1
  <2>2. CASE q # p
    <3>1. Up(q)
      BY <1>3, <2>2 DEF DoneInv
    <3> QED
      BY <3>1, UpStays
  <2> QED
    BY <2>1, <2>2
<1>8. CloserInv'
  BY <1>1 DEF CloserInv
<1> QED
  BY <1>4, <1>5, <1>6, <1>7, <1>8

LEMMA RequestedOfPart ==
  /\ \A s \in Services : Requested(s) \subseteq ServiceObjects(s)
  /\ \A d \in Databases : Requested(d) = {<<"database", d>>}
  /\ Requested(CLI) \subseteq CLIObjects
<1>1. ASSUME NEW s \in Services PROVE Requested(s) \subseteq ServiceObjects(s)
  BY PartsAssumption DEF Requested
<1>2. ASSUME NEW d \in Databases PROVE Requested(d) = {<<"database", d>>}
  BY PartsAssumption DEF Requested
<1>3. Requested(CLI) \subseteq CLIObjects
  BY PartsAssumption DEF Requested
<1> QED
  BY <1>1, <1>2, <1>3

LEMMA CreateKeeps ==
  ASSUME IInv, NEW p \in Parts, NEW from \in {"setup", "secret", "deployment"}, NEW kind \in Kinds,
         NEW next \in {"secret", "deployment", "await"},
         CreateObject(p, from, kind, next),
         next = "secret" => kind = "service",
         next = "deployment" /\ p \in Services =>
           ServiceObjects(p) \subseteq objects \cup {<<kind, p>>, <<"deployment", p>>},
         next = "deployment" /\ p = CLI =>
           CLIObjects \subseteq objects \cup {<<kind, p>>, <<"deployment", p>>},
         next = "await" => Requested(p) \subseteq objects \cup {<<kind, p>>},
         next = "await" /\ p \in Databases => settings.protocols[p] # {}
  PROVE  IInv'
<1>1. /\ part[p] # "done" /\ UNCHANGED ready
      /\ objects \subseteq objects' /\ objects' \subseteq objects \cup {<<kind, p>>}
  BY DEF CreateObject, Create, CreateFails
<1>2. objects' \subseteq objects \cup (Kinds \X Parts)
  BY <1>1
<1>3. CASE Create(kind, p) /\ PartTo(p, next)
  <2>1. objects' = objects \cup {<<kind, p>>}
    BY <1>3 DEF Create
  <2> QED
    BY <1>1, <1>2, <1>3, <2>1, PartKeeps DEF Kinds
<1>4. CASE PartTo(p, "send")
  BY <1>1, <1>2, <1>4, PartKeeps
<1> QED
  BY <1>3, <1>4 DEF CreateObject

(* A goroutine that ends its part, or has met an error, without creating.  *)
LEMMA EndKeeps ==
  ASSUME IInv, NEW p \in Parts, NEW step \in {"send", "done"}, part[p] # "done",
         PartTo(p, step), UNCHANGED cluster,
         step = "done" /\ main = "range" => Up(p)
  PROVE  IInv'
<1>1. UNCHANGED <<inputs, objects, ready>>
  BY DEF PartTo, cluster
<1>2. step = "done" /\ main = "range" => Up(p)'
  BY <1>1, UpStays
<1> QED
  BY <1>1, <1>2, PartKeeps

LEMMA AwaitReadyKeeps ==
  ASSUME IInv, NEW p \in Parts, AwaitReady(p)
  PROVE  IInv'
<1>1. Up(p)
  BY DEF IInv, AwaitReady, StageInv, Up
<1> QED
  BY <1>1, EndKeeps DEF AwaitReady

LEMMA DatabaseStepKeeps ==
  ASSUME IInv, NEW d \in Databases, DatabaseStep(d)
  PROVE  IInv'
<1>1. d \in Parts /\ d \notin Services /\ d # CLI
  BY PartsAssumption DEF Parts
<1>2. CASE UnknownProtocol(d)
  BY <1>1, <1>2, EndKeeps DEF UnknownProtocol
<1>3. CASE CreateRaftDatabase(d) \/ CreateNOPaxosDatabase(d)
  <2>1. settings.protocols[d] # {} /\ CreateObject(d, "setup", "database", "await")
    BY <1>3 DEF CreateRaftDatabase, CreateNOPaxosDatabase
  <2> QED
    BY <1>1, <2>1, RequestedOfPart, CreateKeeps DEF Kinds
<1>4. CASE AwaitRaftDatabase(d) \/ AwaitNOPaxosDatabase(d)
  BY <1>1, <1>4, AwaitReadyKeeps DEF AwaitRaftDatabase, AwaitNOPaxosDatabase
<1> QED
  BY <1>2, <1>3, <1>4 DEF DatabaseStep

LEMMA ServiceStepKeeps ==
  ASSUME IInv, NEW s \in Services, ServiceStep(s)
  PROVE  IInv'
<1>1. s \in Parts /\ s \notin Databases /\ s # CLI
  BY PartsAssumption DEF Parts
<1>2. StageInv
  BY DEF IInv
<1>3. CASE CreateService(s)
  <2>1. CASE s \in settings.secrets
    <3>1. CreateObject(s, "setup", "service", "secret")
      BY <1>3, <2>1 DEF CreateService
    <3> QED
      BY <1>1, <3>1, CreateKeeps DEF Kinds
  <2>2. CASE s \notin settings.secrets
    <3>1. CreateObject(s, "setup", "service", "deployment")
      BY <1>3, <2>2 DEF CreateService
    <3>2. ServiceObjects(s) \subseteq {<<"service", s>>, <<"deployment", s>>}
      BY <2>2 DEF ServiceObjects
    <3> QED
      BY <1>1, <3>1, <3>2, CreateKeeps DEF Kinds
  <2> QED
    BY <2>1, <2>2
<1>4. CASE CreateSecret(s)
  <2>1. CreateObject(s, "secret", "secret", "deployment")
    BY <1>4 DEF CreateSecret
  <2>2. <<"service", s>> \in objects
    BY <1>1, <1>2, <2>1 DEF CreateObject, StageInv
  <2>3. ServiceObjects(s) \subseteq objects \cup {<<"secret", s>>, <<"deployment", s>>}
    BY <2>2 DEF ServiceObjects
  <2> QED
    BY <1>1, <2>1, <2>3, CreateKeeps DEF Kinds
<1>5. CASE CreateDeployment(s)
  <2>1. CreateObject(s, "deployment", "deployment", "await")
    BY <1>5 DEF CreateDeployment
  <2>2. ServiceObjects(s) \subseteq objects \cup {<<"deployment", s>>}
    BY <1>1, <1>2, <2>1 DEF CreateObject, StageInv
  <2>3. Requested(s) \subseteq objects \cup {<<"deployment", s>>}
    BY <2>2, RequestedOfPart
  <2> QED
    BY <1>1, <2>1, <2>3, CreateKeeps DEF Kinds
<1>6. CASE AwaitService(s)
  BY <1>1, <1>6, AwaitReadyKeeps DEF AwaitService
<1> QED
  BY <1>3, <1>4, <1>5, <1>6 DEF ServiceStep

LEMMA CLIStepKeeps ==
  ASSUME IInv, CLIStep
  PROVE  IInv'
<1>1. CLI \in Parts /\ CLI \notin Databases /\ CLI \notin Services
  BY PartsAssumption DEF Parts
<1>2. StageInv
  BY DEF IInv
<1>3. CASE CreateCLIConfigMap
  <2>1. CreateObject(CLI, "setup", "configMap", "deployment")
    BY <1>3 DEF CreateCLIConfigMap
  <2>2. CLIObjects \subseteq objects \cup {<<"configMap", CLI>>, <<"deployment", CLI>>}
    BY DEF CLIObjects
  <2> QED
    BY <1>1, <2>1, <2>2, CreateKeeps DEF Kinds
<1>4. CASE CreateCLIDeployment
  <2>1. CreateObject(CLI, "deployment", "deployment", "await")
    BY <1>4 DEF CreateCLIDeployment
  <2>2. CLIObjects \subseteq objects \cup {<<"deployment", CLI>>}
    BY <1>1, <1>2, <2>1 DEF CreateObject, StageInv
  <2>3. Requested(CLI) \subseteq objects \cup {<<"deployment", CLI>>}
    BY <2>2, RequestedOfPart
  <2> QED
    BY <1>1, <2>1, <2>3, CreateKeeps DEF Kinds
<1>5. CASE AwaitCLI
  <2>1. part[CLI] = "await" /\ PartTo(CLI, "done") /\ UNCHANGED cluster
    BY <1>5 DEF AwaitCLI
  <2>2. Up(CLI)
    BY <1>1, <1>2, <1>5, <2>1 DEF AwaitCLI, StageInv, Up, Awaited
  <2> QED
    BY <1>1, <2>1, <2>2, EndKeeps
<1> QED
  BY <1>3, <1>4, <1>5 DEF CLIStep

LEMMA PartStepKeeps ==
  ASSUME IInv, NEW p \in Parts, PartStep(p) \/ AwaitFails(p)
  PROVE  IInv'
<1>1. CASE SetupNothing(p)
  <2>1. part[p] = "setup" /\ PartTo(p, "done") /\ UNCHANGED cluster /\ Requested(p) = {}
    BY <1>1 DEF SetupNothing
  <2>2. p \notin Databases
    BY <2>1, RequestedOfPart
  <2>3. Up(p)
    BY <2>1, <2>2 DEF Up, Awaited
  <2> QED
    BY <2>1, <2>3, EndKeeps
<1>2. CASE AwaitFails(p)
  BY <1>2, EndKeeps DEF AwaitFails
<1>3. CASE ReturnFirstError(p)
  <2> USE <1>3 DEF ReturnFirstError, inputs, cluster, IInv
  <2>1. TypeOK'
    BY DEF TypeOK
  <2>2. \A q \in Parts : part'[q] # "done" => part[q] # "done"
    BY DEF TypeOK
  <2>3. MainInv' /\ WorkInv' /\ DoneInv' /\ CloserInv' /\ ControllerFirst'
    BY <2>2 DEF MainInv, WorkInv, DoneInv, CloserInv, ControllerFirst, Controller
  <2>4. StageInv'
    <3> SUFFICES ASSUME NEW q \in Parts
        PROVE  /\ part'[q] = "secret" => <<"service", q>> \in objects
               /\ part'[q] = "deployment" /\ q \in Services =>
                    ServiceObjects(q) \subseteq objects \cup {<<"deployment", q>>}
               /\ part'[q] = "deployment" /\ q = CLI =>
                    CLIObjects \subseteq objects \cup {<<"deployment", q>>}
               /\ part'[q] = "await" => Requested(q) \subseteq objects
               /\ part'[q] = "await" /\ q \in Databases => settings.protocols[q] # {}
      BY RequestedStays DEF StageInv, CLIObjects
    <3>1. part'[q] = "done" \/ part'[q] = part[q]
      BY DEF TypeOK
    <3> QED
      BY <3>1 DEF StageInv
  <2> QED
    BY <2>1, <2>3, <2>4
<1> QED
  BY <1>1, <1>2, <1>3 DEF PartStep

-----------------------------------------------------------------------------
(* The steps of Setup itself, of a new process and of the world around.    *)
LEMMA SetupStepKeeps ==
  ASSUME IInv, SetupStep
  PROVE  IInv'
<1> USE DEF IInv
<1>1. CASE SetupServices
  <2> USE <1>1 DEF SetupServices, inputs, cluster
  <2>1. TypeOK'
    BY DEF TypeOK
  <2>2. \A p \in Parts : part'[p] = "setup"
    OBVIOUS
  <2>3. MainInv' /\ WorkInv' /\ ControllerFirst'
    BY <2>2 DEF MainInv, WorkInv, ControllerFirst, Controller
  <2>4. StageInv' /\ DoneInv' /\ CloserInv'
    BY <2>2 DEF StageInv, DoneInv, CloserInv
  <2> QED
    BY <2>1, <2>3, <2>4
<1>2. CASE Close
  <2> USE <1>2 DEF Close, inputs, cluster
  <2>1. TypeOK' /\ MainInv' /\ WorkInv' /\ ControllerFirst' /\ CloserInv'
    BY DEF TypeOK, MainInv, WorkInv, ControllerFirst, Controller, CloserInv
  <2>2. StageInv'
    BY GrowthKeepsStage
  <2>3. DoneInv'
    BY UpStays DEF DoneInv
  <2> QED
    BY <2>1, <2>2, <2>3
<1>3. CASE ReturnNil
  <2> USE <1>3 DEF ReturnNil, MainTo, inputs, cluster
  <2>1. \A p \in Parts : part[p] = "done"
    BY DEF CloserInv
  <2>2. TypeOK' /\ MainInv' /\ WorkInv' /\ ControllerFirst' /\ CloserInv'
    BY <2>1 DEF TypeOK, MainInv, WorkInv, ControllerFirst, Controller, CloserInv
  <2>3. StageInv'
    BY GrowthKeepsStage
  <2>4. DoneInv'
    BY UpStays DEF DoneInv
  <2> QED
    BY <2>2, <2>3, <2>4
<1> QED
  BY <1>1, <1>2, <1>3 DEF SetupStep

LEMMA RerunKeeps ==
  ASSUME IInv, Rerun
  PROVE  IInv'
<1> USE DEF IInv, Rerun, inputs, cluster
<1>1. TypeOK'
  BY BoundAssumption DEF TypeOK, CRDs
<1>2. \A p \in Parts : part'[p] = "done"
  OBVIOUS
<1>3. MainInv' /\ WorkInv' /\ StageInv' /\ DoneInv' /\ CloserInv'
  BY <1>2 DEF MainInv, WorkInv, StageInv, DoneInv, CloserInv
<1>4. ControllerFirst'
  <2>1. CASE UNCHANGED <<objects, ready>>
    BY <2>1 DEF ControllerFirst
  <2>2. CASE objects' = objects \cap (CRDs \X {Atomix})
    <3>1. \A o \in objects' : o[2] \notin Parts
      BY <2>2, PartsAssumption
    <3> QED
      BY <3>1 DEF ControllerFirst
  <2> QED
    BY <2>1, <2>2
<1> QED
  BY <1>1, <1>3, <1>4

LEMMA BecomeReadyKeeps ==
  ASSUME IInv, NEW p \in Parts \cup {Atomix}, BecomeReady(p)
  PROVE  IInv'
<1> USE DEF IInv, BecomeReady, inputs
<1>1. TypeOK' /\ WorkInv' /\ CloserInv'
  BY DEF TypeOK, WorkInv, CloserInv, Controller
<1>2. MainInv' /\ ControllerFirst'
  BY DEF MainInv, ControllerFirst, Controller
<1>3. StageInv'
  BY GrowthKeepsStage
<1>4. DoneInv'
  BY UpStays DEF DoneInv
<1> QED
  BY <1>1, <1>2, <1>3, <1>4

LEMMA StutterKeeps ==
  ASSUME IInv, UNCHANGED vars
  PROVE  IInv'
<1> USE DEF IInv, vars, inputs, cluster
<1>1. TypeOK' /\ WorkInv' /\ CloserInv' /\ MainInv' /\ ControllerFirst'
  BY DEF TypeOK, WorkInv, CloserInv, MainInv, ControllerFirst, Controller
<1>2. StageInv'
  BY GrowthKeepsStage
<1>3. DoneInv'
  BY UpStays DEF DoneInv
<1> QED
  BY <1>1, <1>2, <1>3

LEMMA InductiveInvariant == IInv /\ [Next]_vars => IInv'
<1> SUFFICES ASSUME IInv, [Next]_vars PROVE IInv'
  OBVIOUS
<1>1. CASE BuildStep
  BY <1>1, BuildStepKeeps
<1>2. CASE AtomixStep \/ AwaitControllerFails
  BY <1>2, AtomixStepKeeps
<1>3. CASE SetupStep
  BY <1>3, SetupStepKeeps
<1>4. CASE CLIStep
  BY <1>4, CLIStepKeeps
<1>5. CASE Rerun
  BY <1>5, RerunKeeps
<1>6. CASE \E d \in Databases : DatabaseStep(d)
  BY <1>6, DatabaseStepKeeps
<1>7. CASE \E s \in Services : ServiceStep(s)
  BY <1>7, ServiceStepKeeps
<1>8. CASE \E p \in Parts : PartStep(p) \/ AwaitFails(p)
  BY <1>8, PartStepKeeps
<1>9. CASE \E p \in Parts \cup {Atomix} : BecomeReady(p)
  BY <1>9, BecomeReadyKeeps
<1>10. CASE UNCHANGED vars
  BY <1>10, StutterKeeps
<1> QED
  BY <1>1, <1>2, <1>3, <1>4, <1>5, <1>6, <1>7, <1>8, <1>9, <1>10 DEF Next

LEMMA Invariance == Spec => []IInv
BY InitIInv, InductiveInvariant, PTL DEF Spec

-----------------------------------------------------------------------------
(* The variables keep their types, whatever the set-up and the runs.       *)
THEOREM TypeCorrect == Spec => []TypeOK
<1>1. IInv => TypeOK
  BY DEF IInv
<1> QED
  BY <1>1, Invariance, PTL

(* Nothing of a part is created before the Atomix resources are defined    *)
(* and their controller runs: Setup starts the goroutines after it has     *)
(* awaited the controller, and a run starts over from what is there.       *)
THEOREM ControllerIsFirst == Spec => []ControllerFirst
<1>1. IInv => ControllerFirst
  BY DEF IInv
<1> QED
  BY <1>1, Invariance, PTL

(* Setup returns nil only with everything it was asked for created and     *)
(* ready: the channel is closed after the last goroutine is done, and a    *)
(* goroutine is done only when its part is up or its error was received.   *)
THEOREM NilMeansAllUp == Spec => []NilMeansUp
<1>1. IInv => NilMeansUp
  <2> SUFFICES ASSUME IInv, main = "nil" PROVE NilMeansUp
    BY DEF NilMeansUp
  <2>1. \A p \in Parts : Up(p)
    BY DEF IInv, CloserInv, DoneInv
  <2> QED
    BY <2>1 DEF Up, NilMeansUp, Parts
<1> QED
  BY <1>1, Invariance, PTL

-----------------------------------------------------------------------------
(* Setup comes to an end. The guards of the steps of Setup, of the closer, *)
(* of a goroutine, and of Kubernetes.                                      *)
MainCanRun ==
  \/ main \in CRDs \cup {"build", "deployment", "service", "setupServices"}
  \/ main = "await" /\ (args.atomixName \/ Atomix \in ready)
  \/ main = "range" /\ closer = "closed"
CloserCanRun == closer = "wait" /\ \A p \in Parts : part[p] = "done"
DatabaseCanRun(d) ==
  \/ part[d] = "setup"
  \/ part[d] = "await" /\ d \in ready /\ settings.protocols[d] # {}
ServiceCanRun(s) ==
  \/ part[s] = "setup" /\ (Requested(s) = {} \/ <<"service", s>> \in Requested(s))
  \/ part[s] \in {"secret", "deployment"} /\ <<part[s], s>> \in Requested(s)
  \/ part[s] = "await" /\ s \in ready
CLICanRun ==
  \/ part[CLI] = "setup" /\ (Requested(CLI) = {} \/ <<"configMap", CLI>> \in Requested(CLI))
  \/ part[CLI] = "deployment" /\ <<"deployment", CLI>> \in Requested(CLI)
  \/ part[CLI] = "await" /\ (settings.cliEnabled => CLI \in ready)
PartCanRun(p) ==
  \/ p \in Databases /\ DatabaseCanRun(p)
  \/ p \in Services /\ ServiceCanRun(p)
  \/ p = CLI /\ CLICanRun
  \/ part[p] = "send" /\ main = "range"
CanBecomeReady(p) == p \notin ready /\ CanStart(p)

(* Until Setup has returned somebody can go on: what a goroutine waits for *)
(* is ready or can start, because all it needs was created, and Setup      *)
(* waits only while a goroutine or the closer is on its way (setup.go).    *)
NeverStuck ==
  main \notin {"nil", "error"} =>
    \/ MainCanRun \/ CloserCanRun
    \/ \E p \in Parts : PartCanRun(p)
    \/ \E p \in Parts \cup {Atomix} : CanBecomeReady(p)

(* A goroutine is only where it has something to create or to wait for.    *)
ProgressInv ==
  /\ main \in {"service", "await"} => <<"deployment", Atomix>> \in objects
  /\ \A p \in Parts :
       /\ part[p] \in {"setup", "secret", "deployment", "await", "send", "done"}
       /\ part[p] \in {"secret", "deployment", "await"} => Requested(p) # {}
       /\ part[p] = "secret" => p \in settings.secrets
       /\ part[p] = "deployment" => p \notin Databases

LEMMA ProgressInductive ==
  ASSUME IInv, ProgressInv, [Next]_vars
  PROVE  ProgressInv'
<1> DEFINE PartInv(p) ==
             /\ part[p] \in {"setup", "secret", "deployment", "await", "send", "done"}
             /\ part[p] \in {"secret", "deployment", "await"} => Requested(p) # {}
             /\ part[p] = "secret" => p \in settings.secrets
             /\ part[p] = "deployment" => p \notin Databases
<1> USE DEF cluster, inputs
<1>1. part \in [Parts -> {"setup", "await", "send", "done"} \cup Kinds]
  BY DEF IInv, TypeOK
<1>2. ASSUME UNCHANGED inputs, \A p \in Parts : part'[p] = part[p] \/ part'[p] \in {"setup", "send", "done"}
      PROVE  \A p \in Parts : PartInv(p)'
  BY <1>2, RequestedStays DEF ProgressInv
<1>3. CASE BuildStep
  <2>1. main = "build" /\ UNCHANGED part /\ main' \notin {"service", "await"}
    BY <1>3 DEF BuildStep, Raft, NOPaxos, SetCoreReplicas, SetAppReplicas, SetSecrets, AddSecret,
                SetEnabled, Build, StartSetup
  <2>2. \A p \in Parts : part[p] = "done"
    BY <2>1 DEF IInv, WorkInv
  <2> QED
    BY <2>1, <2>2 DEF ProgressInv
<1>4. CASE AtomixStep \/ AwaitControllerFails
  <2>1. UNCHANGED <<inputs, part>> /\ (main' \in {"service", "await"} => <<"deployment", Atomix>> \in objects')
    BY <1>4 DEF AtomixStep, AwaitControllerFails, CreateDatabaseResource, CreateClusterResource,
                CreatePartitionResource, CreateCRD, AtomixDeployment, AtomixService, AwaitController,
                Create, CreateFails, MainTo, ProgressInv
  <2> QED
    BY <1>2, <2>1 DEF ProgressInv
<1>5. CASE SetupStep \/ Rerun
  <2>1. /\ UNCHANGED inputs
        /\ main' \notin {"service", "await"} \/ UNCHANGED <<main, objects>>
        /\ \A p \in Parts : part'[p] = part[p] \/ part'[p] \in {"setup", "send", "done"}
    BY <1>5 DEF SetupStep, SetupServices, Close, ReturnNil, Rerun, MainTo
  <2> QED
    BY <1>2, <2>1 DEF ProgressInv
<1>6. ASSUME NEW p \in Parts, NEW step, PartTo(p, step), objects \subseteq objects',
             /\ step \in {"setup", "secret", "deployment", "await", "send", "done"}
             /\ step \in {"secret", "deployment", "await"} => Requested(p) # {}
             /\ step = "secret" => p \in settings.secrets
             /\ step = "deployment" => p \notin Databases
      PROVE  ProgressInv'
  <2>1. UNCHANGED inputs /\ UNCHANGED main
    BY <1>6 DEF PartTo
  <2>2. \A q \in Parts : PartInv(q)'
    <3> SUFFICES ASSUME NEW q \in Parts PROVE PartInv(q)'
      OBVIOUS
    <3>1. Requested(q)' = Requested(q)
      BY <2>1, RequestedStays
    <3>2. part'[q] = IF q = p THEN step ELSE part[q]
      BY <1>1, <1>6 DEF PartTo
    <3> QED
      BY <1>6, <2>1, <3>1, <3>2 DEF ProgressInv
  <2> QED
    BY <1>6, <2>1, <2>2 DEF ProgressInv
<1>7. ASSUME NEW p \in Parts, NEW from, NEW kind, NEW next, CreateObject(p, from, kind, next),
             next \in {"secret", "deployment", "await"},
             next = "secret" => p \in settings.secrets,
             next = "deployment" => p \notin Databases
      PROVE  ProgressInv'
  <2>1. Requested(p) # {} /\ objects \subseteq objects'
    BY <1>7 DEF CreateObject, Create, CreateFails
  <2>2. PartTo(p, next) \/ PartTo(p, "send")
    BY <1>7 DEF CreateObject
  <2> QED
    BY <1>6, <1>7, <2>1, <2>2
<1>8. ASSUME NEW d \in Databases, DatabaseStep(d) PROVE ProgressInv'
  <2>1. d \in Parts
    BY DEF Parts
  <2>2. CASE UnknownProtocol(d)
    BY <1>6, <2>1, <2>2 DEF UnknownProtocol
  <2>3. CASE CreateRaftDatabase(d) \/ CreateNOPaxosDatabase(d)
    BY <1>7, <2>1, <2>3 DEF CreateRaftDatabase, CreateNOPaxosDatabase
  <2>4. CASE AwaitRaftDatabase(d) \/ AwaitNOPaxosDatabase(d)
    BY <1>6, <2>1, <2>4 DEF AwaitRaftDatabase, AwaitNOPaxosDatabase, AwaitReady
  <2> QED
    BY <1>8, <2>2, <2>3, <2>4 DEF DatabaseStep
<1>9. ASSUME NEW s \in Services, ServiceStep(s) PROVE ProgressInv'
  <2>1. s \in Parts /\ s \notin Databases
    BY PartsAssumption DEF Parts
  <2>2. CASE CreateService(s)
    BY <1>7, <2>1, <2>2 DEF CreateService
  <2>3. CASE CreateSecret(s) \/ CreateDeployment(s)
    BY <1>7, <2>1, <2>3 DEF CreateSecret, CreateDeployment
  <2>4. CASE AwaitService(s)
    BY <1>6, <2>1, <2>4 DEF AwaitService, AwaitReady
  <2> QED
    BY <1>9, <2>2, <2>3, <2>4 DEF ServiceStep
<1>10. CASE CLIStep
  <2>1. CLI \in Parts /\ CLI \notin Databases
    BY PartsAssumption DEF Parts
  <2>2. CASE CreateCLIConfigMap \/ CreateCLIDeployment
    BY <1>7, <2>1, <2>2 DEF CreateCLIConfigMap, CreateCLIDeployment
  <2>3. CASE AwaitCLI
    BY <1>6, <2>1, <2>3 DEF AwaitCLI
  <2> QED
    BY <1>10, <2>2, <2>3 DEF CLIStep
<1>11. ASSUME NEW p \in Parts, PartStep(p) \/ AwaitFails(p) PROVE ProgressInv'
  <2>1. CASE ReturnFirstError(p)
    <3>1. /\ UNCHANGED inputs /\ main' = "error"
          /\ \A q \in Parts : part'[q] = part[q] \/ part'[q] \in {"setup", "send", "done"}
      BY <1>1, <2>1 DEF ReturnFirstError
    <3> QED
      BY <1>2, <3>1 DEF ProgressInv
  <2>2. CASE SetupNothing(p)
    BY <1>6, <2>2 DEF SetupNothing
  <2>3. CASE AwaitFails(p)
    BY <1>6, <2>3 DEF AwaitFails
  <2> QED
    BY <1>11, <2>1, <2>2, <2>3 DEF PartStep
<1>12. CASE UNCHANGED vars \/ \E p \in Parts \cup {Atomix} : BecomeReady(p)
  <2>1. UNCHANGED <<inputs, main, part, objects>>
    BY <1>12 DEF vars, BecomeReady
  <2> QED
    BY <1>2, <2>1 DEF ProgressInv
<1> QED
  BY <1>3, <1>4, <1>5, <1>8, <1>9, <1>10, <1>11, <1>12 DEF Next

LEMMA ProgressInvariance == Spec => [](IInv /\ ProgressInv)
<1>1. Init => ProgressInv
  BY DEF Init, ProgressInv
<1>2. IInv /\ ProgressInv /\ [Next]_vars => ProgressInv'
  BY ProgressInductive
<1> QED
  BY <1>1, <1>2, InitIInv, InductiveInvariant, PTL DEF Spec

(* Setup never waits for what cannot come (clusterSetup.Setup).            *)
THEOREM NoDeadlock == Spec => []NeverStuck
<1>1. IInv /\ ProgressInv => NeverStuck
  <2> SUFFICES ASSUME IInv, ProgressInv, main \notin {"nil", "error"}, ~MainCanRun, ~CloserCanRun,
                      \A p \in Parts : ~PartCanRun(p),
                      \A p \in Parts \cup {Atomix} : ~CanBecomeReady(p)
               PROVE  FALSE
    BY DEF NeverStuck
  <2>1. main \in {"await", "range"}
    BY DEF MainCanRun, IInv, TypeOK
  <2>2. CASE main = "await"
    <3>1. Atomix \notin ready /\ <<"deployment", Atomix>> \in objects
      BY <2>2 DEF MainCanRun, ProgressInv
    <3>2. Atomix \notin Databases /\ Atomix \notin settings.secrets /\ Atomix # CLI
      BY PartsAssumption DEF IInv, TypeOK, SettingsType, Parts
    <3> QED
      BY <3>1, <3>2 DEF CanBecomeReady, CanStart
  <2>3. CASE main = "range"
    <3>1. closer = "wait"
      BY <2>3 DEF MainCanRun, IInv, TypeOK
    <3>2. PICK p \in Parts : part[p] # "done"
      BY <3>1 DEF CloserCanRun
    <3>3. part[p] \in {"setup", "secret", "deployment", "await"}
      BY <2>3, <3>2 DEF ProgressInv, PartCanRun
    <3>4. Controller
      BY <3>2 DEF IInv, WorkInv
    <3>5. ~PartCanRun(p) /\ ~CanBecomeReady(p)
      OBVIOUS
    <3>6. p \in ready \/ ~CanStart(p)
      BY <3>5 DEF CanBecomeReady
    <3>7. CASE p \in Databases
      <4>1. part[p] = "await" /\ Requested(p) # {}
        <5>1. p \notin settings.secrets
          BY <3>7, PartsAssumption DEF IInv, TypeOK, SettingsType
        <5> QED
          BY <3>3, <3>5, <3>7, <5>1 DEF PartCanRun, DatabaseCanRun, ProgressInv
      <4>2. settings.protocols[p] # {} /\ Requested(p) \subseteq objects
        BY <3>7, <4>1 DEF IInv, StageInv
      <4>3. p \notin Services /\ p # CLI /\ p \notin settings.secrets
        BY <3>7, PartsAssumption DEF IInv, TypeOK, SettingsType
      <4>4. <<"database", p>> \in objects
        BY <3>7, <4>2, <4>3 DEF Requested
      <4> QED
        BY <3>4, <3>5, <3>6, <3>7, <4>1, <4>2, <4>3, <4>4
           DEF PartCanRun, DatabaseCanRun, CanStart, Controller
    <3>8. CASE p \in Services
      <4>1. p \notin Databases /\ p # CLI
        BY <3>8, PartsAssumption
      <4>2. Requested(p) = {} \/ Requested(p) = ServiceObjects(p)
        BY <3>8, <4>1 DEF Requested
      <4>3. part[p] = "await"
        BY <3>3, <3>5, <3>8, <4>2 DEF PartCanRun, ServiceCanRun, ServiceObjects, ProgressInv
      <4>4. ServiceObjects(p) \subseteq objects
        BY <4>2, <4>3 DEF IInv, StageInv, ProgressInv
      <4> QED
        BY <3>5, <3>6, <3>8, <4>1, <4>3, <4>4
           DEF PartCanRun, ServiceCanRun, CanStart, ServiceObjects
    <3>9. CASE p = CLI
      <4>1. p \notin Databases /\ p \notin Services /\ p \notin settings.secrets
        BY <3>9, PartsAssumption DEF IInv, TypeOK, SettingsType
      <4>2. Requested(p) = {} \/ Requested(p) = CLIObjects
        BY <3>9, <4>1 DEF Requested
      <4>3. part[p] = "await"
        BY <3>3, <3>5, <3>9, <4>1, <4>2 DEF PartCanRun, CLICanRun, CLIObjects, ProgressInv
      <4>4. CLIObjects \subseteq objects
        BY <4>2, <4>3 DEF IInv, StageInv, ProgressInv
      <4> QED
        BY <3>5, <3>6, <3>9, <4>1, <4>3, <4>4 DEF PartCanRun, CLICanRun, CanStart, CLIObjects
    <3> QED
      BY <3>7, <3>8, <3>9 DEF Parts
  <2> QED
    BY <2>1, <2>2, <2>3
<1> QED
  BY <1>1, ProgressInvariance, PTL

-----------------------------------------------------------------------------
(* The steps that are left: of a goroutine, as pairs with its part, of     *)
(* Setup, which pays for the goroutines it will start, of the closer, and  *)
(* of what is not ready yet.                                               *)
PartLeft == [setup |-> 5, secret |-> 4, deployment |-> 3, await |-> 2, send |-> 1, done |-> 0]
AllSteps == Parts \X (1 .. 5)
PartSteps == {x \in AllSteps : x[2] <= PartLeft[part[x[1]]]}
MainLeft ==
  [databaseCRD |-> 9, clusterCRD |-> 8, partitionCRD |-> 7, deployment |-> 6, service |-> 5,
   await |-> 4, setupServices |-> 3, range |-> 1, nil |-> 0, error |-> 0]
OfMain ==
  MainLeft[main] + (IF main \in {"range", "nil", "error"} THEN 0 ELSE Cardinality(AllSteps))
OfParts == Cardinality(PartSteps)
OfCloser == IF closer = "wait" THEN 1 ELSE 0
OfReady == Cardinality((Parts \cup {Atomix}) \ ready)
StepsLeft == OfMain + OfParts + OfCloser + OfReady

(* Every step of a run brings Setup, its goroutines and what they wait for *)
(* closer to the end: no goroutine is started twice and no object created  *)
(* over and over (setup.go).                                               *)
StepsRunOut ==
  [][main # "build" /\ runs' = runs => StepsLeft' \in 0 .. StepsLeft - 1]_vars

LEMMA MainLeftIs ==
  /\ MainLeft["databaseCRD"] = 9 /\ MainLeft["clusterCRD"] = 8 /\ MainLeft["partitionCRD"] = 7
  /\ MainLeft["deployment"] = 6 /\ MainLeft["service"] = 5 /\ MainLeft["await"] = 4
  /\ MainLeft["setupServices"] = 3 /\ MainLeft["range"] = 1 /\ MainLeft["nil"] = 0
  /\ MainLeft["error"] = 0
BY DEF MainLeft

LEMMA PartLeftIs ==
  /\ PartLeft["setup"] = 5 /\ PartLeft["secret"] = 4 /\ PartLeft["deployment"] = 3
  /\ PartLeft["await"] = 2 /\ PartLeft["send"] = 1 /\ PartLeft["done"] = 0
BY DEF PartLeft

LEMMA StepsFinite ==
  /\ IsFiniteSet(Parts) /\ IsFiniteSet(AllSteps) /\ Cardinality(AllSteps) \in Nat
<1>1. IsFiniteSet(Services) /\ IsFiniteSet(Databases) /\ IsFiniteSet({CLI})
  BY FiniteAssumption, FS_Union, FS_Singleton DEF Services
<1>2. IsFiniteSet(Databases \cup Services)
  BY <1>1, FS_Union
<1>3. IsFiniteSet(Parts)
  BY <1>1, <1>2, FS_Union DEF Parts
<1>4. IsFiniteSet(1 .. 5)
  <2>1. 1 \in Int /\ 5 \in Int
    OBVIOUS
  <2> QED
    BY <2>1, FS_Interval
<1>5. IsFiniteSet(AllSteps)
  BY <1>3, <1>4, FS_Product DEF AllSteps
<1> QED
  BY <1>3, <1>5, FS_CardinalityType

LEMMA PartStepsFinite ==
  /\ IsFiniteSet(PartSteps) /\ OfParts \in 0 .. Cardinality(AllSteps)
  /\ IsFiniteSet(PartSteps') /\ OfParts' \in 0 .. Cardinality(AllSteps)
<1>1. ASSUME NEW P \in SUBSET AllSteps
      PROVE  IsFiniteSet(P) /\ Cardinality(P) \in 0 .. Cardinality(AllSteps)
  <2>1. IsFiniteSet(P) /\ Cardinality(P) <= Cardinality(AllSteps)
    BY StepsFinite, FS_Subset
  <2> QED
    BY StepsFinite, <2>1, FS_CardinalityType
<1>2. PartSteps \in SUBSET AllSteps
  BY DEF PartSteps
<1>3. PartSteps' \in SUBSET AllSteps
  BY DEF PartSteps, AllSteps
<1> QED
  BY <1>1, <1>2, <1>3 DEF OfParts

LEMMA ReadyFinite ==
  /\ IsFiniteSet((Parts \cup {Atomix}) \ ready) /\ OfReady \in Nat
  /\ IsFiniteSet((Parts \cup {Atomix}) \ ready') /\ OfReady' \in Nat
<1>1. IsFiniteSet(Parts \cup {Atomix})
  BY StepsFinite, FS_Singleton, FS_Union
<1>2. ASSUME NEW P \in SUBSET (Parts \cup {Atomix})
      PROVE  IsFiniteSet(P) /\ Cardinality(P) \in Nat
  BY <1>1, FS_Subset, FS_CardinalityType
<1> QED
  BY <1>2 DEF OfReady

(* A goroutine that goes on has fewer steps left, and only it.             *)
LEMMA PartStepsDown ==
  ASSUME part \in [Parts -> {"setup", "secret", "deployment", "await", "send", "done"}],
         NEW p \in Parts, NEW step \in {"secret", "deployment", "await", "send", "done"},
         part' = [part EXCEPT ![p] = step], PartLeft[step] < PartLeft[part[p]]
  PROVE  OfParts' < OfParts
<1>1. PartLeft[step] \in 0 .. 5 /\ PartLeft[part[p]] \in 1 .. 5
  BY PartLeftIs
<1>2. \A q \in Parts : PartLeft[part'[q]] <= PartLeft[part[q]] /\ PartLeft[part[q]] \in 0 .. 5
  BY <1>1, PartLeftIs
<1>3. PartSteps' \subseteq PartSteps
  <2> SUFFICES ASSUME NEW x \in AllSteps, x[2] <= PartLeft[part'[x[1]]]
               PROVE  x[2] <= PartLeft[part[x[1]]]
    BY DEF PartSteps, PartLeft, AllSteps
  <2>1. x[1] \in Parts /\ x[2] \in 1 .. 5
    BY DEF AllSteps
  <2>2. PartLeft[part'[x[1]]] <= PartLeft[part[x[1]]] /\ PartLeft[part'[x[1]]] \in 0 .. 5
    BY <1>1, <1>2, <2>1
  <2> QED
    BY <1>2, <2>1, <2>2
<1>4. <<p, PartLeft[part[p]]>> \in PartSteps /\ <<p, PartLeft[part[p]]>> \notin PartSteps'
  <2> DEFINE x == <<p, PartLeft[part[p]]>>
  <2>1. x \in AllSteps /\ x[1] = p /\ x[2] = PartLeft[part[p]]
    BY <1>1 DEF AllSteps
  <2>2. part'[p] = step
    OBVIOUS
  <2>3. x \in PartSteps
    BY <1>1, <2>1 DEF PartSteps
  <2>4. ~(PartLeft[part[p]] <= PartLeft[step])
    BY <1>1
  <2>5. ASSUME x \in PartSteps' PROVE FALSE
    <3>1. x[2] <= PartLeft[part'[x[1]]]
      BY <2>5 DEF PartSteps, PartLeft
    <3> QED
      BY <2>1, <2>2, <2>4, <3>1
  <2> QED
    BY <2>3, <2>5
<1>5. IsFiniteSet(PartSteps) /\ OfParts \in Nat /\ OfParts' \in Nat
  BY PartStepsFinite
<1>6. Cardinality(PartSteps') <= Cardinality(PartSteps) /\ Cardinality(PartSteps') # Cardinality(PartSteps)
  BY <1>3, <1>4, <1>5, FS_Subset
<1> QED
  BY <1>5, <1>6 DEF OfParts

(* What becomes ready stays so.                                            *)
LEMMA ReadyStepsDown ==
  ASSUME NEW p \in Parts \cup {Atomix}, BecomeReady(p)
  PROVE  OfReady' < OfReady
<1> DEFINE R == (Parts \cup {Atomix}) \ ready
           Q == (Parts \cup {Atomix}) \ ready'
<1>1. Q = R \ {p} /\ p \in R
  BY DEF BecomeReady
<1>2. IsFiniteSet(R) /\ Cardinality(R) \in Nat
  BY ReadyFinite DEF OfReady
<1>3. Cardinality(Q) = Cardinality(R) - 1
  <2> HIDE DEF R, Q
  <2> QED
    BY <1>1, <1>2, FS_RemoveElement
<1> QED
  BY <1>2, <1>3 DEF OfReady

-----------------------------------------------------------------------------
PartCalls == {"setup", "secret", "deployment", "await", "send", "done"}

(* A goroutine goes from one call to a later one.                          *)
LEMMA GoroutineCounts ==
  ASSUME IInv, ProgressInv, NEW p \in Parts, NEW step,
         PartTo(p, step), ready' = ready,
         \/ part[p] = "setup" /\ step \in {"secret", "deployment", "await", "send", "done"}
         \/ part[p] = "secret" /\ step \in {"deployment", "send"}
         \/ part[p] = "deployment" /\ step \in {"await", "send"}
         \/ part[p] = "await" /\ step \in {"send", "done"}
  PROVE  OfMain' = OfMain /\ OfParts' < OfParts /\ OfCloser' = OfCloser /\ OfReady' = OfReady
<1>1. part \in [Parts -> PartCalls]
  BY DEF IInv, TypeOK, ProgressInv, PartCalls
<1>2. step \in {"secret", "deployment", "await", "send", "done"} /\ PartLeft[step] < PartLeft[part[p]]
  BY PartLeftIs
<1>3. OfParts' < OfParts
  BY <1>1, <1>2, PartStepsDown DEF PartTo, PartCalls
<1> QED
  BY <1>3 DEF PartTo, OfMain, OfCloser, OfReady

LEMMA CreateCounts ==
  ASSUME IInv, ProgressInv, NEW p \in Parts, NEW from, NEW kind, NEW next,
         CreateObject(p, from, kind, next),
         \/ from = "setup" /\ next \in {"secret", "deployment", "await"}
         \/ from = "secret" /\ next = "deployment"
         \/ from = "deployment" /\ next = "await"
  PROVE  OfMain' = OfMain /\ OfParts' < OfParts /\ OfCloser' = OfCloser /\ OfReady' = OfReady
<1>1. part[p] = from /\ ready' = ready /\ (PartTo(p, next) \/ PartTo(p, "send"))
  BY DEF CreateObject
<1> QED
  BY <1>1, GoroutineCounts

LEMMA PartsCount ==
  ASSUME IInv, ProgressInv,
         \/ CLIStep
         \/ \E d \in Databases : DatabaseStep(d)
         \/ \E s \in Services : ServiceStep(s)
         \/ \E p \in Parts : SetupNothing(p) \/ AwaitFails(p)
  PROVE  OfMain' = OfMain /\ OfParts' < OfParts /\ OfCloser' = OfCloser /\ OfReady' = OfReady
<1> DEFINE Less == OfMain' = OfMain /\ OfParts' < OfParts /\ OfCloser' = OfCloser /\ OfReady' = OfReady
<1>1. ASSUME NEW d \in Databases, DatabaseStep(d) PROVE Less
  <2>1. d \in Parts
    BY DEF Parts
  <2>2. CASE CreateRaftDatabase(d) \/ CreateNOPaxosDatabase(d)
    BY <2>1, <2>2, CreateCounts DEF CreateRaftDatabase, CreateNOPaxosDatabase
  <2>3. CASE UnknownProtocol(d)
    BY <2>1, <2>3, GoroutineCounts DEF UnknownProtocol, cluster
  <2>4. CASE AwaitRaftDatabase(d) \/ AwaitNOPaxosDatabase(d)
    BY <2>1, <2>4, GoroutineCounts DEF AwaitRaftDatabase, AwaitNOPaxosDatabase, AwaitReady, cluster
  <2> QED
    BY <1>1, <2>2, <2>3, <2>4 DEF DatabaseStep
<1>2. ASSUME NEW s \in Services, ServiceStep(s) PROVE Less
  <2>1. s \in Parts
    BY DEF Parts
  <2>2. CASE CreateService(s)
    BY <2>1, <2>2, CreateCounts DEF CreateService
  <2>3. CASE CreateSecret(s) \/ CreateDeployment(s)
    BY <2>1, <2>3, CreateCounts DEF CreateSecret, CreateDeployment
  <2>4. CASE AwaitService(s)
    BY <2>1, <2>4, GoroutineCounts DEF AwaitService, AwaitReady, cluster
  <2> QED
    BY <1>2, <2>2, <2>3, <2>4 DEF ServiceStep
<1>3. CASE CLIStep
  <2>1. CLI \in Parts
    BY DEF Parts
  <2>2. CASE CreateCLIConfigMap \/ CreateCLIDeployment
    BY <2>1, <2>2, CreateCounts DEF CreateCLIConfigMap, CreateCLIDeployment
  <2>3. CASE AwaitCLI
    BY <2>1, <2>3, GoroutineCounts DEF AwaitCLI, cluster
  <2> QED
    BY <1>3, <2>2, <2>3 DEF CLIStep
<1>4. ASSUME NEW p \in Parts, SetupNothing(p) \/ AwaitFails(p) PROVE Less
  BY <1>4, GoroutineCounts DEF SetupNothing, AwaitFails, cluster
<1> QED
  BY <1>1, <1>2, <1>3, <1>4

(* Setup goes from one of its positions to a later one.                    *)
LEMMA MainCounts ==
  ASSUME IInv, AtomixStep \/ AwaitControllerFails \/ ReturnNil
  PROVE  OfMain' < OfMain /\ OfParts' = OfParts /\ OfCloser' = OfCloser /\ OfReady' = OfReady
<1>1. /\ UNCHANGED <<part, closer, ready>>
      /\ \/ main = "databaseCRD" /\ main' \in {"clusterCRD", "error"}
         \/ main = "clusterCRD" /\ main' \in {"partitionCRD", "error"}
         \/ main = "partitionCRD" /\ main' \in {"deployment", "error"}
         \/ main = "deployment" /\ main' \in {"service", "error"}
         \/ main = "service" /\ main' \in {"await", "error"}
         \/ main = "await" /\ main' \in {"setupServices", "error"}
         \/ main = "range" /\ main' = "nil"
  BY DEF AtomixStep, AwaitControllerFails, ReturnNil, CreateDatabaseResource, CreateClusterResource,
         CreatePartitionResource, CreateCRD, AtomixDeployment, AtomixService, AwaitController, MainTo,
         cluster
<1>2. OfParts' = OfParts /\ OfCloser' = OfCloser /\ OfReady' = OfReady
  BY <1>1 DEF OfParts, PartSteps, AllSteps, PartLeft, OfCloser, OfReady
<1>3. OfMain' < OfMain
  BY <1>1, MainLeftIs, StepsFinite DEF OfMain, MainLeft, AllSteps
<1> QED
  BY <1>2, <1>3

LEMMA StartCounts ==
  ASSUME IInv, SetupServices
  PROVE  /\ OfMain' + Cardinality(AllSteps) <= OfMain - 2
         /\ OfCloser' <= 1 /\ OfReady' = OfReady
<1>1. main = "setupServices" /\ main' = "range" /\ ready' = ready
  BY DEF SetupServices, cluster
<1>2. OfMain = 3 + Cardinality(AllSteps)
  BY <1>1, MainLeftIs, StepsFinite DEF OfMain
<1>3. OfMain' = 1
  BY <1>1, MainLeftIs DEF OfMain, MainLeft
<1>4. OfMain' + Cardinality(AllSteps) <= OfMain - 2
  BY <1>2, <1>3, StepsFinite
<1> QED
  BY <1>1, <1>4 DEF OfCloser, OfReady

LEMMA ErrorCounts ==
  ASSUME IInv, ProgressInv, NEW p \in Parts, ReturnFirstError(p)
  PROVE  OfMain' < OfMain /\ OfParts' < OfParts /\ OfCloser' = OfCloser /\ OfReady' = OfReady
<1>1. part \in [Parts -> PartCalls]
  BY DEF IInv, TypeOK, ProgressInv, PartCalls
<1>2. part[p] = "send" /\ part' = [part EXCEPT ![p] = "done"]
  BY DEF ReturnFirstError
<1>3. PartLeft["done"] < PartLeft[part[p]]
  BY <1>2, PartLeftIs
<1>4. OfParts' < OfParts
  BY <1>1, <1>2, <1>3, PartStepsDown DEF PartCalls
<1>5. main = "range" /\ main' = "error"
  BY DEF ReturnFirstError
<1>6. OfMain' < OfMain
  BY <1>5, MainLeftIs DEF OfMain, MainLeft
<1> QED
  BY <1>4, <1>6 DEF ReturnFirstError, OfCloser, OfReady, cluster

LEMMA CloseCounts ==
  ASSUME Close
  PROVE  OfMain' = OfMain /\ OfParts' = OfParts /\ OfCloser' < OfCloser /\ OfReady' = OfReady
BY DEF Close, cluster, OfMain, MainLeft, AllSteps, OfParts, PartSteps, PartLeft, OfCloser, OfReady

LEMMA ReadyCounts ==
  ASSUME NEW p \in Parts \cup {Atomix}, BecomeReady(p)
  PROVE  OfMain' = OfMain /\ OfParts' = OfParts /\ OfCloser' = OfCloser /\ OfReady' < OfReady
<1>1. OfReady' < OfReady
  BY ReadyStepsDown
<1> QED
  BY <1>1 DEF BecomeReady, OfMain, MainLeft, AllSteps, OfParts, PartSteps, PartLeft, OfCloser

(* The four counts before and after a step, and the most that goroutines   *)
(* have to do.                                                             *)
OneLess(all, m0, p0, c0, r0, m, p, c, r) ==
  \/ m < m0 /\ p = p0 /\ c = c0 /\ r = r0
  \/ m = m0 /\ p < p0 /\ c = c0 /\ r = r0
  \/ m < m0 /\ p < p0 /\ c = c0 /\ r = r0
  \/ m = m0 /\ p = p0 /\ c < c0 /\ r = r0
  \/ m = m0 /\ p = p0 /\ c = c0 /\ r < r0
  \/ m + all <= m0 - 2 /\ c <= 1 /\ r = r0

LEMMA LessInAll ==
  ASSUME NEW all \in Nat, NEW m0 \in Nat, NEW p0 \in Nat, NEW c0 \in Nat, NEW r0 \in Nat,
         NEW m \in Nat, NEW p \in 0 .. all, NEW c \in Nat, NEW r \in Nat,
         OneLess(all, m0, p0, c0, r0, m, p, c, r)
  PROVE  m + p + c + r \in 0 .. (m0 + p0 + c0 + r0) - 1
BY DEF OneLess

CountsOK ==
  /\ main # "build" => OfMain \in Nat
  /\ OfParts \in 0 .. Cardinality(AllSteps) /\ OfCloser \in Nat /\ OfReady \in Nat

LEMMA Counts == IInv => CountsOK
<1> SUFFICES ASSUME IInv PROVE CountsOK
  OBVIOUS
<1>1. main # "build" => OfMain \in Nat
  BY MainLeftIs, StepsFinite DEF OfMain, IInv, TypeOK, CRDs
<1> QED
  BY <1>1, PartStepsFinite, ReadyFinite DEF CountsOK, OfCloser

(* Every step of a run uses up one of the finitely many steps left, so     *)
(* Setup and its goroutines come to rest, and Setup has then returned, as  *)
(* NoDeadlock says (clusterSetup.Setup).                                   *)
THEOREM EveryStepCounts == Spec => StepsRunOut
<1> DEFINE Down == main # "build" /\ runs' = runs => StepsLeft' \in 0 .. StepsLeft - 1
<1>1. IInv /\ ProgressInv /\ CountsOK /\ CountsOK' /\ [Next]_vars => [Down]_vars
  <2> SUFFICES ASSUME IInv, ProgressInv, CountsOK, CountsOK', Next, main # "build", runs' = runs
               PROVE  StepsLeft' \in 0 .. StepsLeft - 1
    OBVIOUS
  <2> DEFINE all == Cardinality(AllSteps)
  <2>1. ~BuildStep
    BY DEF BuildStep, Raft, NOPaxos, SetCoreReplicas, SetAppReplicas, SetSecrets, AddSecret,
           SetEnabled, Build, StartSetup
  <2>2. ~Rerun
    BY DEF Rerun, IInv, TypeOK
  <2>3. OneLess(all, OfMain, OfParts, OfCloser, OfReady, OfMain', OfParts', OfCloser', OfReady')
    <3>1. CASE AtomixStep \/ AwaitControllerFails \/ ReturnNil
      BY <3>1, MainCounts DEF OneLess
    <3>2. CASE SetupServices
      BY <3>2, StartCounts DEF OneLess
    <3>3. CASE Close
      BY <3>3, CloseCounts DEF OneLess
    <3>4. CASE \/ CLIStep
               \/ \E d \in Databases : DatabaseStep(d)
               \/ \E s \in Services : ServiceStep(s)
               \/ \E p \in Parts : SetupNothing(p) \/ AwaitFails(p)
      BY <3>4, PartsCount DEF OneLess
    <3>5. CASE \E p \in Parts : ReturnFirstError(p)
      BY <3>5, ErrorCounts DEF OneLess
    <3>6. CASE \E p \in Parts \cup {Atomix} : BecomeReady(p)
      BY <3>6, ReadyCounts DEF OneLess
    <3> QED
      BY <2>1, <2>2, <3>1, <3>2, <3>3, <3>4, <3>5, <3>6 DEF Next, SetupStep, PartStep
  <2>4. main' # "build"
    <3>1. \A p \in Parts : AwaitFails(p) \/ SetupNothing(p) \/ ReturnFirstError(p) => main' # "build"
      BY DEF AwaitFails, SetupNothing, ReturnFirstError, PartTo
    <3>2. \A d \in Databases : DatabaseStep(d) => main' # "build"
      BY DEF DatabaseStep, UnknownProtocol, CreateRaftDatabase, CreateNOPaxosDatabase, CreateObject,
             AwaitRaftDatabase, AwaitNOPaxosDatabase, AwaitReady, PartTo
    <3>3. \A s \in Services : ServiceStep(s) => main' # "build"
      BY DEF ServiceStep, CreateService, CreateSecret, CreateDeployment, CreateObject, AwaitService,
             AwaitReady, PartTo
    <3>4. CLIStep => main' # "build"
      BY DEF CLIStep, CreateCLIConfigMap, CreateCLIDeployment, CreateObject, AwaitCLI, PartTo
    <3>5. AtomixStep \/ AwaitControllerFails \/ SetupStep => main' # "build"
      BY DEF AtomixStep, AwaitControllerFails, SetupStep, CreateDatabaseResource, CreateClusterResource,
             CreatePartitionResource, CreateCRD, AtomixDeployment, AtomixService, AwaitController,
             SetupServices, Close, ReturnNil, MainTo
    <3>6. \A p \in Parts \cup {Atomix} : BecomeReady(p) => main' # "build"
      BY DEF BecomeReady
    <3> QED
      BY <2>1, <2>2, <3>1, <3>2, <3>3, <3>4, <3>5, <3>6 DEF Next, PartStep
  <2>5. /\ all \in Nat /\ OfMain \in Nat /\ OfParts \in Nat /\ OfCloser \in Nat /\ OfReady \in Nat
        /\ OfMain' \in Nat /\ OfParts' \in 0 .. all /\ OfCloser' \in Nat /\ OfReady' \in Nat
    BY <2>4, StepsFinite, PartStepsFinite DEF CountsOK
  <2> HIDE DEF all
  <2>6. OfMain' + OfParts' + OfCloser' + OfReady' \in 0 .. (OfMain + OfParts + OfCloser + OfReady) - 1
    BY <2>3, <2>5, LessInAll
  <2> QED
    BY <2>6 DEF StepsLeft
<1> QED
  BY <1>1, Counts, ProgressInvariance, PTL DEF Spec, StepsRunOut
===============================================================================
