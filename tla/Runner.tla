-------------------------------- MODULE Runner --------------------------------
(***************************************************************************)
(* pkg/cluster/runner.go: an onit command on the user's machine runs its   *)
(* job in a pod of the namespace kube-test.  Runner.Run makes sure that    *)
(* the namespace and the rights of the pod exist, creates the batch job,   *)
(* polls until the pod is ready, copies its log and exits with the exit    *)
(* code of the pod.  Several commands share the namespace and the rights.  *)
(*                                                                         *)
(* The API server, the job controller and the pods are external.  A call   *)
(* may fail whether or not the server has carried it out.                  *)
(***************************************************************************)
EXTENDS Naturals, FiniteSets

CONSTANTS
  Runners,   \* the onit processes
  PetNames,  \* the names NewPetName can draw
  Codes      \* exit codes of the pods

NoRunner == "none"

(* Job.ID: a job that runs a command of onit in the cluster has a prefix.  *)
Ids == {"onit", "suite"} \X PetNames
NoId == <<"none", "none">>

ASSUME RunnerAssumption == NoRunner \notin Runners /\ NoId \notin Ids
ASSUME CodeAssumption == Codes \subseteq 0 .. 255

VARIABLES
  pc,        \* pc[r]: the next call of Runner.Run
  id,        \* id[r]: Job.ID of its job
  timeout,   \* the runners whose Job.Timeout is positive
  exit,      \* exit[r]: exit status of the process, NotExited while it runs
  objects,   \* the shared objects of the namespace that exist
  creator,   \* creator[i]: the runner whose call created job i, or NoRunner
  deadline,  \* the jobs that have ActiveDeadlineSeconds
  pod,       \* pod[i]: state of the pod of job i
  code       \* code[i]: its exit code

runners == <<pc, id, timeout, exit>>
jobs == <<creator, deadline>>
pods == <<pod, code>>
vars == <<runners, objects, jobs, pods>>

NotExited == 256
ErrorStatus == 1
NoCode == 257

SharedObjects == {"namespace", "clusterRole", "clusterRoleBinding", "serviceAccount"}
Calls == {"command", "newRunner", "job", "awaitRunning", "getPod", "getLogs", "stream",
          "getStatus"} \cup SharedObjects

TypeOK ==
  /\ pc \in [Runners -> Calls \cup {"exited"}]
  /\ id \in [Runners -> Ids \cup {NoId}]
  /\ timeout \in SUBSET Runners
  /\ exit \in [Runners -> Codes \cup {NotExited, ErrorStatus}]
  /\ objects \in SUBSET SharedObjects
  /\ creator \in [Ids -> Runners \cup {NoRunner}]
  /\ deadline \in SUBSET Ids
  /\ pod \in [Ids -> {"none", "pending", "ready", "terminated", "deleted"}]
  /\ code \in [Ids -> Codes \cup {NoCode}]

Init ==
  /\ pc = [r \in Runners |-> "command"]
  /\ id = [r \in Runners |-> NoId]
  /\ timeout = {}
  /\ exit = [r \in Runners |-> NotExited]
  /\ objects = {}
  /\ creator = [i \in Ids |-> NoRunner]
  /\ deadline = {}
  /\ pod = [i \in Ids |-> "none"]
  /\ code = [i \in Ids |-> NoCode]

Goto(r, call) ==
  /\ pc' = [pc EXCEPT ![r] = call]
  /\ UNCHANGED <<id, timeout, exit>>

Exit(r, status) ==
  /\ pc' = [pc EXCEPT ![r] = "exited"]
  /\ exit' = [exit EXCEPT ![r] = status]
  /\ UNCHANGED <<id, timeout>>

(* An error is returned by Run; main prints it and exits with 1.           *)
ReturnPodCode(r) == Exit(r, code[id[r]])
ReturnError(r) == Exit(r, ErrorStatus)

-----------------------------------------------------------------------------
(* The commands.  A name is drawn without looking at those in use, so that *)
(* two may be equal.                                                       *)

NewJob(r, kind, hasTimeout) ==
  /\ pc[r] = "command"
  /\ \E n \in PetNames : id' = [id EXCEPT ![r] = <<kind, n>>]
  /\ timeout' = IF hasTimeout THEN timeout \cup {r} ELSE timeout
  /\ pc' = [pc EXCEPT ![r] = "newRunner"]
  /\ UNCHANGED <<exit, objects, jobs, pods>>

RunTestCommand(r) == \E t \in BOOLEAN : NewJob(r, "suite", t)

(* A timeout that is not above --duration becomes twice the duration.      *)
RunBenchCommand(r) == \E t, duration \in BOOLEAN : NewJob(r, "suite", t \/ duration)

(* The other commands have no flag for a timeout.                          *)
RunInCluster(r) == NewJob(r, "onit", FALSE)

-----------------------------------------------------------------------------
(* Before the job: the client and the shared objects.                      *)

NewRunner(r) ==
  /\ pc[r] = "newRunner"
  /\ Goto(r, "namespace") \/ ReturnError(r)
  /\ UNCHANGED <<objects, jobs, pods>>

(* Create an object that others may have created: AlreadyExists is no      *)
(* error.                                                                  *)
CreateShared(r, object, next) ==
  /\ pc[r] = object
  /\ \/ objects' = objects \cup {object} /\ Goto(r, next)
     \/ objects' \in {objects, objects \cup {object}} /\ ReturnError(r)
  /\ UNCHANGED <<jobs, pods>>

EnsureNamespaceOnce(r) ==
  IF pc[r] = "namespace" /\ "namespace" \in objects
    THEN Goto(r, "job") /\ UNCHANGED <<objects, jobs, pods>>
    ELSE CreateShared(r, "namespace", "clusterRole")
EnsureNamespace(r) == CreateShared(r, "namespace", "clusterRole")

CreateClusterRole(r) == CreateShared(r, "clusterRole", "clusterRoleBinding")

CreateClusterRoleBinding(r) == CreateShared(r, "clusterRoleBinding", "serviceAccount")

CreateServiceAccount(r) == CreateShared(r, "serviceAccount", "job")

-----------------------------------------------------------------------------
(* The job.                                                                *)

AddJob(r) ==
  /\ creator[id[r]] = NoRunner
  /\ creator' = [creator EXCEPT ![id[r]] = r]
  /\ deadline' = IF r \in timeout THEN deadline \cup {id[r]} ELSE deadline

(* A job of that name is an error, like any other failure.                 *)
CreateOrAdoptJob(r) ==
  /\ pc[r] = "job"
  /\ \/ (AddJob(r) \/ (creator[id[r]] # NoRunner /\ UNCHANGED jobs))
          /\ Goto(r, "awaitRunning")
     \/ (AddJob(r) \/ UNCHANGED jobs) /\ ReturnError(r)
  /\ UNCHANGED <<objects, pods>>
CreateJob(r) ==
  /\ pc[r] = "job"
  /\ \/ AddJob(r) /\ Goto(r, "awaitRunning")
     \/ (AddJob(r) \/ UNCHANGED jobs) /\ ReturnError(r)
  /\ UNCHANGED <<objects, pods>>

(* getPod with the predicate of its callers: no pod in that state is not   *)
(* an error.                                                               *)
Finds(r, state) == pod[id[r]] = state

(* The loop polls until the pod is ready; any other answer is polled       *)
(* again, so the poll that changes nothing is no step here.                *)
JobRunning(r) ==
  /\ pc[r] = "awaitRunning" /\ Finds(r, "ready")
  /\ Goto(r, "getPod")
  /\ UNCHANGED <<objects, jobs, pods>>

(* Run looks the pod up again and takes a pod that is no longer ready for  *)
(* a missing one.                                                          *)
GetPod(r) ==
  /\ pc[r] = "getPod"
  /\ IF Finds(r, "ready") THEN Goto(r, "getLogs") ELSE ReturnError(r)
  /\ UNCHANGED <<objects, jobs, pods>>

GetLogs(r) ==
  /\ pc[r] = "getLogs"
  /\ pod[id[r]] # "deleted"
  /\ Goto(r, "stream")
  /\ UNCHANGED <<objects, jobs, pods>>

(* The log ends with the pod; a connection that breaks earlier ends it     *)
(* too, the scanner's error is not looked at.                              *)
StreamEnds(r) ==
  /\ pc[r] = "stream" /\ pod[id[r]] \in {"terminated", "deleted"}
  /\ Goto(r, "getStatus")
  /\ UNCHANGED <<objects, jobs, pods>>

StreamBreaks(r) ==
  /\ pc[r] = "stream"
  /\ Goto(r, "getStatus")
  /\ UNCHANGED <<objects, jobs, pods>>

(* The loop polls until the pod has terminated; os.Exit.                   *)
GetStatusOfReady(r) ==
  /\ pc[r] = "getStatus" /\ Finds(r, "ready")
  /\ ReturnError(r)
  /\ UNCHANGED <<objects, jobs, pods>>
GetStatus(r) ==
  /\ pc[r] = "getStatus" /\ Finds(r, "terminated")
  /\ Exit(r, code[id[r]])
  /\ UNCHANGED <<objects, jobs, pods>>

(* Listing the pods or opening the log fails.                              *)
CallFails(r) ==
  /\ pc[r] \in {"awaitRunning", "getPod", "getLogs", "getStatus"}
  /\ ReturnError(r)
  /\ UNCHANGED <<objects, jobs, pods>>

-----------------------------------------------------------------------------
(* Kubernetes: the job controller and the pods.                            *)

SetPod(i, from, to) ==
  /\ pod[i] \in from
  /\ pod' = [pod EXCEPT ![i] = to]
  /\ UNCHANGED <<runners, objects, jobs>>

(* The controller makes the pod once its service account exists.           *)
CreatePod(i) ==
  /\ creator[i] # NoRunner /\ "serviceAccount" \in objects
  /\ SetPod(i, {"none"}, "pending") /\ UNCHANGED code

PodReady(i) == SetPod(i, {"pending"}, "ready") /\ UNCHANGED code

(* The container ends, perhaps before a poll could see it ready.           *)
PodTerminates(i) ==
  /\ SetPod(i, {"pending", "ready"}, "terminated")
  /\ \E c \in Codes : code' = [code EXCEPT ![i] = c]

(* ActiveDeadlineSeconds: the controller deletes a pod that is active.     *)
DeadlineExpires(i) ==
  /\ i \in deadline
  /\ SetPod(i, {"pending", "ready"}, "deleted") /\ UNCHANGED code

-----------------------------------------------------------------------------
RunnerStep(r) ==
  \/ RunTestCommand(r) \/ RunBenchCommand(r) \/ RunInCluster(r)
  \/ NewRunner(r) \/ EnsureNamespace(r) \/ CreateClusterRole(r)
  \/ CreateClusterRoleBinding(r) \/ CreateServiceAccount(r) \/ CreateJob(r)
  \/ JobRunning(r) \/ GetPod(r) \/ GetLogs(r) \/ StreamEnds(r) \/ StreamBreaks(r)
  \/ GetStatus(r) \/ CallFails(r)

KubernetesStep(i) ==
  CreatePod(i) \/ PodReady(i) \/ PodTerminates(i) \/ DeadlineExpires(i)

Next == (\E r \in Runners : RunnerStep(r)) \/ (\E i \in Ids : KubernetesStep(i))

(* A runner that can go on does: its log ends with the pod, and its poll   *)
(* meets a terminated pod, which stays.  Kubernetes makes pods ready and   *)
(* the jobs end.  Nothing forces a call to fail, nor a poll to fall into   *)
(* the time in which a pod is ready.                                       *)
Fairness ==
  /\ \A r \in Runners : WF_vars(StreamEnds(r)) /\ WF_vars(GetStatus(r))
  /\ \A i \in Ids : WF_vars(PodTerminates(i))

Spec == Init /\ [][Next]_vars /\ Fairness

-----------------------------------------------------------------------------
(* A job exists only where its pod has all the rights it needs, although   *)
(* any call of any command may have failed half-way and another command    *)
(* finds the namespace there already (ensureNamespace, setupRBAC).         *)
JobHasRights == \A i \in Ids : creator[i] # NoRunner => objects = SharedObjects

(* An exit status taken from a pod is that of the pod of the job this very *)
(* command created, also when another command drew the same name           *)
(* (createJob, getStatus).                                                 *)
Attached(r) == pc[r] \in {"awaitRunning", "getPod", "getLogs", "stream", "getStatus"}
ExitIsOfOwnJob ==
  \A r \in Runners :
    /\ Attached(r) => creator[id[r]] = r
    /\ exit[r] \notin {NotExited, ErrorStatus} =>
         creator[id[r]] = r /\ pod[id[r]] = "terminated" /\ exit[r] = code[id[r]]

(* A command that follows the log of a job without a deadline ends: the    *)
(* pod cannot be deleted before it has terminated, and getStatus finds it. *)
(* With a deadline getStatus may poll for ever for a deleted pod.          *)
FollowerEnds ==
  \A r \in Runners :
    (pc[r] \in {"stream", "getStatus"} /\ r \notin timeout) ~> (pc[r] = "exited")
===============================================================================
