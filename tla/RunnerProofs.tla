---------------------------- MODULE RunnerProofs ----------------------------
(***************************************************************************)
(* Proofs about Runner, for any number of commands, any names they can     *)
(* draw and any exit codes.                                                *)
(***************************************************************************)
EXTENDS Runner, TLAPS

Ready == {"job", "serviceAccount", "clusterRoleBinding", "clusterRole"}

(* What a command has got through tells which shared objects exist.        *)
StageInv ==
  \A r \in Runners :
    /\ pc[r] \in Ready => "namespace" \in objects
    /\ pc[r] \in Ready \ {"clusterRole"} => "clusterRole" \in objects
    /\ pc[r] \in {"job", "serviceAccount"} => "clusterRoleBinding" \in objects
    /\ pc[r] = "job" => "serviceAccount" \in objects

(* A command that has begun has a job name, one that runs has no status.   *)
CommandInv ==
  \A r \in Runners :
    /\ pc[r] # "command" => id[r] \in Ids
    /\ pc[r] # "exited" => exit[r] = NotExited

(* A pod that has terminated has an exit code.                             *)
CodeInv == \A i \in Ids : pod[i] = "terminated" => code[i] \in Codes

IInv == TypeOK /\ StageInv /\ CommandInv /\ CodeInv /\ JobHasRights /\ ExitIsOfOwnJob

LEMMA InitIInv == Init => IInv
<1> SUFFICES ASSUME Init PROVE IInv
  OBVIOUS
<1> USE RunnerAssumption DEF Init
<1>1. TypeOK
  BY DEF TypeOK, Calls
<1>2. StageInv /\ CommandInv
  BY DEF StageInv, Ready, CommandInv
<1>3. CodeInv /\ JobHasRights
  BY DEF CodeInv, JobHasRights
<1>4. ExitIsOfOwnJob
  BY DEF ExitIsOfOwnJob, Attached
<1> QED
  BY <1>1, <1>2, <1>3, <1>4 DEF IInv

(* A step of a command that does not touch objects, jobs and pods, and     *)
(* neither starts it nor creates its job, keeps the invariant when the new *)
(* place is one that asks nothing, or when the command exits.              *)
LEMMA ErrorKeeps ==
  ASSUME IInv, NEW r \in Runners, pc[r] \notin {"command", "exited"}, ReturnError(r),
         UNCHANGED <<objects, jobs, pods>>
  PROVE  IInv'
<1> USE RunnerAssumption DEF IInv, ReturnError, Exit, jobs, pods
<1>1. TypeOK'
  BY DEF TypeOK, Calls, ErrorStatus
<1>2. StageInv'
  BY DEF TypeOK, StageInv, Ready
<1>3. CommandInv'
  BY DEF TypeOK, CommandInv
<1>4. CodeInv' /\ JobHasRights'
  BY DEF CodeInv, JobHasRights
<1>5. ExitIsOfOwnJob'
  BY DEF TypeOK, ExitIsOfOwnJob, Attached
<1> QED
  BY <1>1, <1>2, <1>3, <1>4, <1>5

(* Following the own job from one wait to the next.                        *)
Following == {"awaitRunning", "getPod", "getLogs", "stream", "getStatus"}
LEMMA FollowKeeps ==
  ASSUME IInv, NEW r \in Runners, NEW step \in Following, pc[r] \in Following, Goto(r, step),
         UNCHANGED <<objects, jobs, pods>>
  PROVE  IInv'
<1> USE RunnerAssumption DEF IInv, Goto, jobs, pods, Following
<1>1. TypeOK'
  BY DEF TypeOK, Calls
<1>2. StageInv'
  BY DEF TypeOK, StageInv, Ready
<1>3. CommandInv'
  BY DEF TypeOK, CommandInv
<1>4. CodeInv' /\ JobHasRights'
  BY DEF CodeInv, JobHasRights
<1>5. ExitIsOfOwnJob'
  BY DEF TypeOK, ExitIsOfOwnJob, Attached
<1> QED
  BY <1>1, <1>2, <1>3, <1>4, <1>5

(* The commands draw a name.                                               *)
LEMMA NewJobKeeps ==
  ASSUME IInv, NEW r \in Runners, NEW kind \in {"onit", "suite"}, NEW hasTimeout \in BOOLEAN,
         NewJob(r, kind, hasTimeout)
  PROVE  IInv'
<1> USE RunnerAssumption DEF IInv, NewJob, jobs, pods
<1>1. PICK n \in PetNames : id' = [id EXCEPT ![r] = <<kind, n>>]
  OBVIOUS
<1>2. <<kind, n>> \in Ids
  BY DEF Ids
<1>3. TypeOK'
  BY <1>1, <1>2 DEF TypeOK, Calls
<1>4. StageInv'
  BY DEF TypeOK, StageInv, Ready
<1>5. CommandInv'
  BY <1>1, <1>2 DEF TypeOK, CommandInv
<1>6. CodeInv' /\ JobHasRights'
  BY DEF CodeInv, JobHasRights
<1>7. ExitIsOfOwnJob'
  BY <1>1 DEF TypeOK, CommandInv, ExitIsOfOwnJob, Attached
<1> QED
  BY <1>3, <1>4, <1>5, <1>6, <1>7

(* The shared objects only become more.                                    *)
LEMMA SharedKeeps ==
  ASSUME IInv, NEW r \in Runners, NEW object \in SharedObjects, NEW next \in Ready,
         <<object, next>> \in {<<"namespace", "clusterRole">>,
                               <<"clusterRole", "clusterRoleBinding">>,
                               <<"clusterRoleBinding", "serviceAccount">>,
                               <<"serviceAccount", "job">>},
         CreateShared(r, object, next)
  PROVE  IInv'
<1> USE RunnerAssumption DEF IInv, CreateShared, ReturnError, Exit, Goto, jobs, pods
<1>1. objects \subseteq objects' /\ objects' \subseteq SharedObjects
  BY DEF TypeOK
<1>2. TypeOK'
  BY <1>1 DEF TypeOK, Calls, SharedObjects, Ready, ErrorStatus
<1>3. StageInv'
  <2>1. CASE objects' = objects \cup {object} /\ Goto(r, next)
    BY <2>1 DEF TypeOK, StageInv, Ready
  <2>2. CASE ReturnError(r)
    BY <2>2, <1>1 DEF TypeOK, StageInv, Ready
  <2> QED
    BY <2>1, <2>2
<1>4. CommandInv'
  BY DEF TypeOK, CommandInv, SharedObjects, Ready
<1>5. CodeInv' /\ JobHasRights'
  BY <1>1 DEF CodeInv, JobHasRights
<1>6. ExitIsOfOwnJob'
  BY DEF TypeOK, ExitIsOfOwnJob, Attached, Ready
<1> QED
  BY <1>2, <1>3, <1>4, <1>5, <1>6

(* The job is created by a command that has got through everything before, *)
(* under a name that no job has.                                           *)
LEMMA CreateJobKeeps ==
  ASSUME IInv, NEW r \in Runners, CreateJob(r)
  PROVE  IInv'
<1> USE RunnerAssumption DEF IInv
<1>1. /\ pc[r] = "job" /\ id[r] \in Ids /\ exit[r] = NotExited
      /\ UNCHANGED <<objects, pod, code, id, timeout>>
  BY DEF CreateJob, CommandInv, Goto, ReturnError, Exit, pods
<1>2. CASE ~AddJob(r)
  <2>1. UNCHANGED jobs /\ ReturnError(r) /\ UNCHANGED pods /\ UNCHANGED objects
    BY <1>2 DEF CreateJob
  <2> QED
    BY <1>1, <2>1, ErrorKeeps
<1>3. CASE AddJob(r)
  <2>1. /\ creator[id[r]] = NoRunner
        /\ creator' = [creator EXCEPT ![id[r]] = r]
        /\ deadline' \in SUBSET Ids
    BY <1>1, <1>3 DEF AddJob, TypeOK
  <2>2. \/ pc' = [pc EXCEPT ![r] = "awaitRunning"] /\ exit' = exit
        \/ pc' = [pc EXCEPT ![r] = "exited"] /\ exit' = [exit EXCEPT ![r] = ErrorStatus]
    BY DEF CreateJob, Goto, ReturnError, Exit
  <2>3. TypeOK'
    BY <1>1, <2>1, <2>2 DEF TypeOK, Calls, ErrorStatus
  <2>4. StageInv' /\ CommandInv' /\ CodeInv'
    BY <1>1, <2>2 DEF TypeOK, StageInv, Ready, CommandInv, CodeInv
  <2>5. JobHasRights'
    <3>1. objects = SharedObjects
      BY <1>1 DEF TypeOK, StageInv, Ready, SharedObjects
    <3> QED
      BY <1>1, <3>1 DEF JobHasRights
  <2>6. ExitIsOfOwnJob'
    <3>1. \A q \in Runners \ {r} : creator[id[q]] = q => creator'[id[q]] = q
      BY <1>1, <2>1 DEF TypeOK
    <3>2. creator'[id[r]] = r
      BY <1>1, <2>1 DEF TypeOK
    <3>3. \A q \in Runners \ {r} : pc'[q] = pc[q] /\ exit'[q] = exit[q]
      BY <2>2 DEF TypeOK
    <3>4. exit'[r] \in {NotExited, ErrorStatus}
      BY <1>1, <2>2 DEF TypeOK
    <3> QED
      BY <1>1, <3>1, <3>2, <3>3, <3>4 DEF ExitIsOfOwnJob, Attached
  <2> QED
    BY <2>3, <2>4, <2>5, <2>6
<1> QED
  BY <1>2, <1>3

(* The status of a terminated pod.                                         *)
LEMMA GetStatusKeeps ==
  ASSUME IInv, NEW r \in Runners, GetStatus(r)
  PROVE  IInv'
<1> USE RunnerAssumption DEF IInv, GetStatus, Finds, Exit, jobs, pods
<1>1. id[r] \in Ids /\ code[id[r]] \in Codes /\ creator[id[r]] = r
  BY DEF CommandInv, CodeInv, ExitIsOfOwnJob, Attached
<1>2. TypeOK'
  BY <1>1 DEF TypeOK, Calls
<1>3. StageInv' /\ CommandInv' /\ CodeInv' /\ JobHasRights'
  BY DEF TypeOK, StageInv, Ready, CommandInv, CodeInv, JobHasRights
<1>4. ExitIsOfOwnJob'
  BY <1>1 DEF TypeOK, ExitIsOfOwnJob, Attached
<1> QED
  BY <1>2, <1>3, <1>4

(* The pods: one that has terminated stays so, with its exit code.         *)
LEMMA KubernetesKeeps ==
  ASSUME IInv, NEW i \in Ids, KubernetesStep(i)
  PROVE  IInv'
<1> USE DEF IInv, KubernetesStep, CreatePod, PodReady, PodTerminates, DeadlineExpires, SetPod,
            runners, jobs
<1>1. /\ UNCHANGED <<pc, id, timeout, exit, objects, creator, deadline>>
      /\ pod[i] \notin {"terminated", "deleted"}
      /\ \E s \in {"pending", "ready", "terminated", "deleted"} : pod' = [pod EXCEPT ![i] = s]
  OBVIOUS
<1>2. \/ code' = code /\ pod'[i] # "terminated"
      \/ \E c \in Codes : code' = [code EXCEPT ![i] = c]
  BY DEF TypeOK
<1> HIDE DEF KubernetesStep
<1>3. TypeOK'
  BY <1>1, <1>2 DEF TypeOK
<1>4. StageInv' /\ CommandInv' /\ JobHasRights'
  BY <1>1 DEF StageInv, CommandInv, JobHasRights
<1>5. CodeInv'
  BY <1>1, <1>2 DEF TypeOK, CodeInv
<1>6. \A j \in Ids : pod[j] = "terminated" => pod'[j] = pod[j] /\ code'[j] = code[j]
  BY <1>1, <1>2 DEF TypeOK
<1>7. ExitIsOfOwnJob'
  <2>1. \A r \in Runners : exit[r] # NotExited => id[r] \in Ids
    BY DEF CommandInv
  <2> QED
    BY <1>1, <1>6, <2>1 DEF ExitIsOfOwnJob, Attached
<1> QED
  BY <1>3, <1>4, <1>5, <1>7

LEMMA InductiveInvariant == IInv /\ [Next]_vars => IInv'
<1> SUFFICES ASSUME IInv, [Next]_vars PROVE IInv'
  OBVIOUS
<1>1. CASE UNCHANGED vars
  BY <1>1 DEF vars, runners, jobs, pods, IInv, TypeOK, StageInv, CommandInv, CodeInv,
              JobHasRights, ExitIsOfOwnJob, Attached
<1>2. ASSUME NEW r \in Runners, RunnerStep(r) PROVE IInv'
  <2>1. CASE RunTestCommand(r)
    BY <2>1, NewJobKeeps DEF RunTestCommand
  <2>2. CASE RunBenchCommand(r)
    <3>1. PICK t \in BOOLEAN, duration \in BOOLEAN : NewJob(r, "suite", t \/ duration)
      BY <2>2 DEF RunBenchCommand
    <3>2. (t \/ duration) \in BOOLEAN
      OBVIOUS
    <3> QED
      BY <3>1, <3>2, NewJobKeeps
  <2>3. CASE RunInCluster(r)
    BY <2>3, NewJobKeeps DEF RunInCluster
  <2>4. CASE NewRunner(r)
    <3>1. CASE ReturnError(r)
      BY <2>4, <3>1, ErrorKeeps DEF NewRunner
    <3>2. CASE Goto(r, "namespace")
      <4> USE <2>4, <3>2 DEF NewRunner, Goto, jobs, pods, IInv
      <4>1. TypeOK'
        BY DEF TypeOK, Calls, SharedObjects
      <4>2. StageInv' /\ CommandInv' /\ CodeInv' /\ JobHasRights'
        BY DEF TypeOK, StageInv, Ready, CommandInv, CodeInv, JobHasRights
      <4>3. ExitIsOfOwnJob'
        BY DEF TypeOK, ExitIsOfOwnJob, Attached
      <4> QED
        BY <4>1, <4>2, <4>3
    <3> QED
      BY <2>4, <3>1, <3>2 DEF NewRunner
  <2>5. CASE EnsureNamespace(r)
    BY <2>5, SharedKeeps DEF EnsureNamespace, SharedObjects, Ready
  <2>6. CASE CreateClusterRole(r)
    BY <2>6, SharedKeeps DEF CreateClusterRole, SharedObjects, Ready
  <2>7. CASE CreateClusterRoleBinding(r)
    BY <2>7, SharedKeeps DEF CreateClusterRoleBinding, SharedObjects, Ready
  <2>8. CASE CreateServiceAccount(r)
    BY <2>8, SharedKeeps DEF CreateServiceAccount, SharedObjects, Ready
  <2>9. CASE CreateJob(r)
    BY <2>9, CreateJobKeeps
  <2>10. CASE JobRunning(r)
    BY <2>10, FollowKeeps DEF JobRunning, Following
  <2>11. CASE GetPod(r)
    <3>1. CASE Goto(r, "getLogs")
      BY <2>11, <3>1, FollowKeeps DEF GetPod, Following
    <3>2. CASE ReturnError(r)
      BY <2>11, <3>2, ErrorKeeps DEF GetPod
    <3> QED
      BY <2>11, <3>1, <3>2 DEF GetPod
  <2>12. CASE GetLogs(r)
    BY <2>12, FollowKeeps DEF GetLogs, Following
  <2>13. CASE StreamEnds(r)
    BY <2>13, FollowKeeps DEF StreamEnds, Following
  <2>14. CASE StreamBreaks(r)
    BY <2>14, FollowKeeps DEF StreamBreaks, Following
  <2>15. CASE GetStatus(r)
    BY <2>15, GetStatusKeeps
  <2>16. CASE CallFails(r)
    BY <2>16, ErrorKeeps DEF CallFails
  <2> QED
    BY <1>2, <2>1, <2>2, <2>3, <2>4, <2>5, <2>6, <2>7, <2>8, <2>9, <2>10, <2>11, <2>12,
       <2>13, <2>14, <2>15, <2>16 DEF RunnerStep
<1>3. ASSUME NEW i \in Ids, KubernetesStep(i) PROVE IInv'
  BY <1>3, KubernetesKeeps
<1> QED
  BY <1>1, <1>2, <1>3 DEF Next

LEMMA Invariance == Spec => []IInv
  BY InitIInv, InductiveInvariant, PTL DEF Spec

(* The state of commands, jobs and pods keeps its type.                    *)
THEOREM TypeCorrect == Spec => []TypeOK
<1>1. IInv => TypeOK
  BY DEF IInv
<1> QED
  BY <1>1, Invariance, PTL

(* No job exists without all the rights its pod needs, whichever calls of  *)
(* whichever commands have failed before (ensureNamespace, setupRBAC).     *)
THEOREM RightsBeforeJobs == Spec => []JobHasRights
<1>1. IInv => JobHasRights
  BY DEF IInv
<1> QED
  BY <1>1, Invariance, PTL

(* A command follows only a job it has created itself, and an exit status  *)
(* that is not that of an error is the exit code of that job's pod         *)
(* (createJob, getStatus).                                                 *)
THEOREM OwnExitStatus == Spec => []ExitIsOfOwnJob
<1>1. IInv => ExitIsOfOwnJob
  BY DEF IInv
<1> QED
  BY <1>1, Invariance, PTL
=============================================================================
