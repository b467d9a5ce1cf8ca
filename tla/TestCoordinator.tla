--------------------------- MODULE TestCoordinator ---------------------------
(***************************************************************************)
(* pkg/test/coordinator.go: the process that runs the suites of a test     *)
(* image.  Every iteration starts one goroutine per suite (WorkerTask.Run) *)
(* which creates a cluster of its own, runs the suite in a pod there,      *)
(* reads the exit code of the pod, deletes the cluster and reports on one  *)
(* of two channels.  A closer goroutine closes the channels when all have  *)
(* reported; the main goroutine reads them and decides how to exit, which  *)
(* ends whatever the goroutines were doing.                                *)
(*                                                                         *)
(* Create and Delete of a cluster (module Cluster) are single steps here.  *)
(* The pods, run by Kubernetes, are external.  Definitions that no comment *)
(* introduces beside an action are faulty variants, used to see that a     *)
(* property notices.                                                       *)
(***************************************************************************)
EXTENDS Integers, Sequences, FiniteSets

CONSTANTS
  Suites,      \* the suites to run, each in a goroutine
  Iterations,  \* Config.Iterations
  ExitCodes,   \* exit codes of the pods
  MaxFaults    \* bound on the failed calls

ASSUME SuitesAssumption == IsFiniteSet(Suites)
ASSUME NumbersAssumption ==
  /\ Iterations \in Int /\ MaxFaults \in Nat
  /\ ExitCodes \subseteq Nat /\ ExitCodes # {}

VARIABLES
  main,       \* where the main goroutine is
  iteration,  \* iterations started
  closer,     \* where the closer goroutine of the iteration is
  errChan,    \* errors in the buffer of errChan
  codeChan,   \* exit codes in the buffer of codeChan, in order
  closed,     \* the channels that are closed
  err,        \* what Coordinator.Run returned to Main
  task,       \* task[s]: the next call of WorkerTask.Run
  failed,     \* suites whose task met an error
  status,     \* status[s]: the exit code the task has read
  clusters,   \* <<iteration, suite>> of the clusters that exist
  undeleted,  \* those whose Delete has failed
  env,        \* the map Config.Env that the configs of all suites share
  podEnv,     \* podEnv[s]: the environment the pod of s was created with
  pods,       \* pods[s]: state of the pod of the suite
  podCode,    \* podCode[s]: its exit code
  exit,       \* exit status of the process, NotExited while it runs
  faults      \* failed calls so far

channels == <<closer, errChan, codeChan, closed>>
tasks == <<task, failed, status>>
envs == <<env, podEnv>>
cluster == <<clusters, undeleted, pods, podCode>>
vars == <<main, iteration, channels, err, tasks, envs, cluster, exit, faults>>

NotExited == -1

CrashCode == 2

ApiCalls == {"createCluster", "createTestJob", "startTest", "start", "getPod",
             "streamLogs", "getStatus", "tearDown"}
EnvAccess == {"toEnv", "setNamespace", "createTestJob"}
TaskCalls == ApiCalls \cup EnvAccess
Awaiting == {"startTest", "start"}

(* The variables of the environment that differ from suite to suite.       *)
NoSuite == "none"
Environments ==
  [suite : Suites \cup {NoSuite}, namespace : Suites \cup {NoSuite}]

TypeOK ==
  /\ main \in {"forIterations", "rangeErrors", "rangeCodes", "returned", "exited",
               "crashed"}
  /\ iteration \in Nat
  /\ closer \in {"wait", "closeCodes", "done"}
  /\ errChan \in Nat
  /\ codeChan \in Seq(ExitCodes \cup {0})
  /\ errChan + Len(codeChan) <= Cardinality(Suites)
  /\ closed \in SUBSET {"errors", "codes"}
  /\ err \in BOOLEAN
  /\ task \in [Suites -> TaskCalls \cup {"report", "done"}]
  /\ failed \in SUBSET Suites
  /\ status \in [Suites -> ExitCodes \cup {0}]
  /\ clusters \in SUBSET (Nat \X Suites)
  /\ undeleted \in SUBSET clusters
  /\ env \in Environments
  /\ podEnv \in [Suites -> Environments]
  /\ pods \in [Suites -> {"none", "pending", "running", "terminated"}]
  /\ podCode \in [Suites -> ExitCodes \cup {0}]
  /\ exit \in {NotExited, 0, 1, CrashCode} \cup ExitCodes
  /\ faults \in 0 .. MaxFaults

Init ==
  /\ main = "forIterations"
  /\ iteration = 0
  /\ closer = "done"
  /\ errChan = 0
  /\ codeChan = <<>>
  /\ closed = {}
  /\ err = FALSE
  /\ task = [s \in Suites |-> "done"]
  /\ failed = {}
  /\ status = [s \in Suites |-> 0]
  /\ clusters = {}
  /\ undeleted = {}
  /\ env = [suite |-> NoSuite, namespace |-> NoSuite]
  /\ podEnv = [s \in Suites |-> [suite |-> NoSuite, namespace |-> NoSuite]]
  /\ pods = [s \in Suites |-> "none"]
  /\ podCode = [s \in Suites |-> 0]
  /\ exit = NotExited
  /\ faults = 0

Running == exit = NotExited
Fault == faults < MaxFaults /\ faults' = faults + 1
MoreIterations == iteration < Iterations \/ Iterations < 0

-----------------------------------------------------------------------------
(* The main goroutine: Coordinator.Run, runWorkers and Main.               *)

(* One worker per suite is made and its goroutine started, with new        *)
(* channels; or a NewCluster fails before any is started.                  *)
StartIteration ==
  /\ Running /\ main = "forIterations" /\ MoreIterations
  /\ \/ /\ iteration' = iteration + 1
        /\ main' = "rangeErrors"
        /\ closer' = "wait"
        /\ errChan' = 0 /\ codeChan' = <<>> /\ closed' = {}
        /\ task' = [s \in Suites |-> "createCluster"]
        /\ failed' = {}
        /\ status' = [s \in Suites |-> 0]
        /\ pods' = [s \in Suites |-> "none"]
        /\ podCode' = [s \in Suites |-> 0]
        /\ UNCHANGED <<err, faults>>
     \/ /\ Fault
        /\ main' = "returned" /\ err' = TRUE
        /\ UNCHANGED <<iteration, channels, tasks, pods, podCode>>
  /\ UNCHANGED <<envs, clusters, undeleted, exit>>

EndIterations ==
  /\ Running /\ main = "forIterations" /\ ~MoreIterations
  /\ main' = "returned"
  /\ UNCHANGED <<iteration, channels, err, tasks, envs, cluster, exit, faults>>

(* for err := range errChan: the first error is returned at once.          *)
RangeErrorsUntilEmpty ==
  /\ Running /\ main = "rangeErrors"
  /\ IF errChan > 0
       THEN errChan' = errChan - 1 /\ main' = "returned" /\ err' = TRUE
       ELSE main' = "rangeCodes" /\ UNCHANGED <<errChan, err>>
  /\ UNCHANGED <<iteration, closer, codeChan, closed, tasks, envs, cluster, exit, faults>>
RangeErrors ==
  /\ Running /\ main = "rangeErrors"
  /\ \/ /\ errChan > 0
        /\ errChan' = errChan - 1
        /\ main' = "returned" /\ err' = TRUE
     \/ /\ errChan = 0 /\ "errors" \in closed
        /\ main' = "rangeCodes"
        /\ UNCHANGED <<errChan, err>>
  /\ UNCHANGED <<iteration, closer, codeChan, closed, tasks, envs, cluster, exit, faults>>

(* for code := range codeChan: the first that is not zero is the exit      *)
(* status; with none the next iteration follows.                           *)
RangeCodes ==
  /\ Running /\ main = "rangeCodes"
  /\ \/ /\ codeChan # <<>>
        /\ codeChan' = Tail(codeChan)
        /\ IF Head(codeChan) # 0
             THEN main' = "exited" /\ exit' = Head(codeChan)
             ELSE UNCHANGED <<main, exit>>
     \/ /\ codeChan = <<>> /\ "codes" \in closed
        /\ main' = "forIterations"
        /\ UNCHANGED <<codeChan, exit>>
  /\ UNCHANGED <<iteration, closer, errChan, closed, err, tasks, envs, cluster, faults>>

(* Main: an error exits with 1, no error with 0.                           *)
MainExit ==
  /\ Running /\ main = "returned"
  /\ main' = "exited"
  /\ exit' = IF err THEN 1 ELSE 0
  /\ UNCHANGED <<iteration, channels, err, tasks, envs, cluster, faults>>

(* The closer waits for every task, then closes errChan and codeChan.      *)
SomeDone == \E s \in Suites : task[s] = "done"
WaitGroup == \A s \in Suites : task[s] = "done"

CloseErrorsOnly ==
  /\ Running /\ closer = "wait" /\ WaitGroup
  /\ closer' = "done" /\ closed' = closed \cup {"errors"}
  /\ UNCHANGED <<main, iteration, errChan, codeChan, err, tasks, envs, cluster, exit, faults>>
Close ==
  /\ Running
  /\ \/ /\ closer = "wait" /\ WaitGroup
        /\ closer' = "closeCodes" /\ closed' = closed \cup {"errors"}
     \/ /\ closer = "closeCodes"
        /\ closer' = "done" /\ closed' = closed \cup {"codes"}
  /\ UNCHANGED <<main, iteration, errChan, codeChan, err, tasks, envs, cluster, exit, faults>>

-----------------------------------------------------------------------------
(* The goroutine of a suite: WorkerTask.Run.                               *)

Goto(s, call) == task' = [task EXCEPT ![s] = call]

(* Every error return but that of tearDown itself deletes the cluster.     *)
Abandon(s) == Goto(s, "tearDown") /\ failed' = failed \cup {s}

mainVars == <<main, iteration, channels, err, exit>>

CreateCluster(s) ==
  /\ task[s] = "createCluster"
  /\ clusters' = clusters \cup {<<iteration, s>>}
  /\ Goto(s, "toEnv")
  /\ UNCHANGED <<mainVars, failed, status, envs, undeleted, pods, podCode, faults>>

(* createTestJob: Config.ToEnv writes the settings of the suite into the   *)
(* map that all suites share, more keys are set, and the whole map is read *)
(* into the pod of the job.  Nothing keeps the tasks apart in between.     *)
ToEnv(s) ==
  /\ task[s] = "toEnv"
  /\ env' = [env EXCEPT !.suite = s]
  /\ Goto(s, "setNamespace")
  /\ UNCHANGED <<mainVars, failed, status, podEnv, cluster, faults>>

SetNamespace(s) ==
  /\ task[s] = "setNamespace"
  /\ env' = [env EXCEPT !.namespace = s]
  /\ Goto(s, "createTestJob")
  /\ UNCHANGED <<mainVars, failed, status, podEnv, cluster, faults>>

CreateTestJob(s) ==
  /\ task[s] = "createTestJob"
  /\ podEnv' = [podEnv EXCEPT ![s] = env]
  /\ pods' = [pods EXCEPT ![s] = "pending"]
  /\ Goto(s, "startTest")
  /\ UNCHANGED <<mainVars, failed, status, env, clusters, undeleted, podCode, faults>>

(* The Go runtime may notice that two goroutines use the map at once.      *)
ConcurrentMapAccess ==
  /\ Running
  /\ \E s, t \in Suites : s # t /\ {task[s], task[t]} \subseteq EnvAccess
  /\ main' = "crashed"
  /\ exit' = CrashCode
  /\ UNCHANGED <<iteration, channels, err, tasks, envs, cluster, faults>>

(* A poll that sees the pod ready ends one awaitTestJobRunning; startTest  *)
(* and start each have one.  A poll that does not see it changes nothing.  *)
AwaitTestJobRunningAgain(s) ==
  /\ task[s] \in Awaiting
  /\ pods[s] = "running"
  /\ Goto(s, IF task[s] = "startTest" THEN "start" ELSE "startTest")
  /\ UNCHANGED <<mainVars, failed, status, envs, cluster, faults>>
AwaitTestJobRunning(s) ==
  /\ task[s] \in Awaiting
  /\ pods[s] = "running"
  /\ Goto(s, IF task[s] = "startTest" THEN "start" ELSE "getPod")
  /\ UNCHANGED <<mainVars, failed, status, envs, cluster, faults>>

(* One look for a running pod: none means "cannot locate test pod".        *)
GetPod(s) ==
  /\ task[s] = "getPod"
  /\ \/ pods[s] = "running" /\ Goto(s, "streamLogs") /\ UNCHANGED failed
     \/ pods[s] # "running" /\ Abandon(s)
  /\ UNCHANGED <<mainVars, status, envs, cluster, faults>>

(* The log ends with the container, or earlier if the connection breaks.   *)
StreamLogs(s) ==
  /\ task[s] = "streamLogs"
  /\ Goto(s, "getStatus")
  /\ UNCHANGED <<mainVars, failed, status, envs, cluster, faults>>

GetStatusUnset(s) ==
  /\ task[s] = "getStatus"
  /\ pods[s] \in {"running", "terminated"}
  /\ status' = [status EXCEPT ![s] = podCode[s]]
  /\ Goto(s, "tearDown")
  /\ UNCHANGED <<mainVars, failed, envs, cluster, faults>>
GetStatus(s) ==
  /\ task[s] = "getStatus"
  /\ pods[s] = "terminated"
  /\ status' = [status EXCEPT ![s] = podCode[s]]
  /\ Goto(s, "tearDown")
  /\ UNCHANGED <<mainVars, failed, envs, cluster, faults>>

(* The error of Delete is ignored.                                         *)
TearDown(s) ==
  /\ task[s] = "tearDown"
  /\ \/ /\ clusters' = clusters \ {<<iteration, s>>}
        /\ pods' = [pods EXCEPT ![s] = "none"]
        /\ UNCHANGED <<undeleted, faults>>
     \/ /\ Fault
        /\ undeleted' = undeleted \cup ({<<iteration, s>>} \cap clusters)
        /\ UNCHANGED <<clusters, pods>>
  /\ Goto(s, "report")
  /\ UNCHANGED <<mainVars, failed, status, envs, podCode>>

(* Send the error or the code and call wg.Done.                            *)
ReportTwice(s) ==
  /\ task[s] = "report"
  /\ errChan' = IF s \in failed THEN errChan + 1 ELSE errChan
  /\ codeChan' = Append(codeChan, status[s])
  /\ Goto(s, "done")
  /\ UNCHANGED <<main, iteration, closer, closed, err, exit, failed, status, envs, cluster, faults>>
Report(s) ==
  /\ task[s] = "report"
  /\ IF s \in failed
       THEN errChan' = errChan + 1 /\ UNCHANGED codeChan
       ELSE codeChan' = Append(codeChan, status[s]) /\ UNCHANGED errChan
  /\ Goto(s, "done")
  /\ UNCHANGED <<main, iteration, closer, closed, err, exit, failed, status, envs, cluster, faults>>

(* An API call of the task fails; Create may leave the namespace behind.   *)
FailCall(s) ==
  /\ Fault
  /\ task[s] \in ApiCalls \ {"tearDown"}
  /\ \/ UNCHANGED clusters
     \/ task[s] = "createCluster" /\ clusters' = clusters \cup {<<iteration, s>>}
  /\ Abandon(s)
  /\ UNCHANGED <<mainVars, status, envs, undeleted, pods, podCode>>

TaskStep(s) ==
  /\ Running
  /\ \/ CreateCluster(s) \/ ToEnv(s) \/ SetNamespace(s) \/ CreateTestJob(s)
     \/ AwaitTestJobRunning(s) \/ GetPod(s) \/ StreamLogs(s) \/ GetStatus(s) \/ TearDown(s) \/ Report(s)

-----------------------------------------------------------------------------
(* Kubernetes runs the pod of a job; it goes on when the process is gone.  *)
PodStarts(s) ==
  /\ pods[s] = "pending"
  /\ pods' = [pods EXCEPT ![s] = "running"]
  /\ UNCHANGED <<mainVars, tasks, envs, clusters, undeleted, podCode, faults>>

PodTerminates(s) ==
  /\ pods[s] = "running"
  /\ pods' = [pods EXCEPT ![s] = "terminated"]
  /\ \E c \in ExitCodes : podCode' = [podCode EXCEPT ![s] = c]
  /\ UNCHANGED <<mainVars, tasks, envs, clusters, undeleted, faults>>

MainStep ==
  StartIteration \/ EndIterations \/ RangeErrors \/ RangeCodes \/ MainExit

Next ==
  \/ MainStep
  \/ Close
  \/ ConcurrentMapAccess
  \/ \E s \in Suites :
       \/ TaskStep(s) \/ (Running /\ FailCall(s))
       \/ PodStarts(s) \/ PodTerminates(s)

Spec == Init /\ [][Next]_vars

(* Every goroutine that can run does, and every pod starts and ends.       *)
FairSpec ==
  /\ Spec
  /\ WF_vars(MainStep) /\ WF_vars(Close)
  /\ \A s \in Suites :
       WF_vars(TaskStep(s)) /\ WF_vars(PodStarts(s)) /\ WF_vars(PodTerminates(s))

-----------------------------------------------------------------------------
(* The coordinator exits as SuiteVerdict promises, judged by what the pods *)
(* really returned: with 0 only after every suite of every iteration has   *)
(* passed, with a suite's code only once all have returned (lines 120-131).*)
SV == INSTANCE SuiteVerdict WITH
        round     <- iteration,
        returned  <- {s \in Suites : task[s] = "done"},
        errored   <- {s \in failed : task[s] = "done"},
        code      <- [s \in Suites |->
                        IF task[s] = "done" /\ s \notin failed THEN podCode[s] ELSE 0],
        ExitCodes <- ExitCodes \cup {0}
ImplementsSuiteVerdict == SV!Spec

(* No task sends on a channel that has been closed, which would panic, in  *)
(* whatever order tasks, closer and main run (lines 100-118).              *)
NoSendOnClosed == closed # {} => \A s \in Suites : task[s] = "done"

(* Iterations do not overlap: a cluster of an earlier iteration still      *)
(* exists only if its Delete failed.                                       *)
OneIterationAtATime ==
  \A c \in clusters : c[1] < iteration => c \in undeleted

(* An exit with a verdict of the suites, 0 or not, leaves no cluster but   *)
(* those whose Delete failed.                                              *)
VerdictLeavesNoCluster ==
  main = "exited" /\ ~err => clusters \subseteq undeleted

(* Every task deletes its cluster before its iteration counts as ended:    *)
(* neither the next iteration nor an exit with a verdict finds one, and    *)
(* only a failed Delete leaves any (lines 53-62, 95-131, 189-194).         *)
ClustersAreDeleted == OneIterationAtATime /\ VerdictLeavesNoCluster

(* A missed start: the suite waits for its pod to be ready, and it has     *)
(* ended.                                                                  *)
MissedReady(s) == task[s] \in Awaiting /\ pods[s] = "terminated"

(* The coordinator exits, whatever fails, unless it misses the time in     *)
(* which some pod is ready: no channel or wait group ever blocks it.       *)
Exits == <>(exit # NotExited \/ \E s \in Suites : MissedReady(s))

(* The guards of the steps of the main goroutine, of the closer, of a task *)
(* and of a pod.                                                           *)
MainCanRun ==
  \/ main \in {"forIterations", "returned"}
  \/ main = "rangeErrors" /\ (errChan > 0 \/ "errors" \in closed)
  \/ main = "rangeCodes" /\ (codeChan # <<>> \/ "codes" \in closed)
CloserCanRun == closer = "closeCodes" \/ (closer = "wait" /\ WaitGroup)
TaskCanRun(s) ==
  \/ task[s] \in {"createCluster", "getPod", "streamLogs", "tearDown", "report"} \cup EnvAccess
  \/ task[s] \in Awaiting /\ pods[s] = "running"
  \/ task[s] = "getStatus" /\ pods[s] = "terminated"
PodCanMove(s) == pods[s] \in {"pending", "running"}

(* Until the coordinator exits there is always someone who can go on: main *)
(* waits for a channel only while the closer will close it, the closer for *)
(* a task only while that task can run or its pod will change, unless some *)
(* task has missed the time in which its pod was ready (lines 95-131).     *)
NeverStuck ==
  Running =>
    \/ MainCanRun \/ CloserCanRun
    \/ \E s \in Suites : TaskCanRun(s) \/ PodCanMove(s) \/ MissedReady(s)

(* The steps that are left: of the iterations that follow, of main, of the *)
(* closer, of the codes that main has to take, and of the tasks and pods.  *)
MainLeft ==
  [forIterations |-> 3, rangeErrors |-> 5, rangeCodes |-> 4, returned |-> 1,
   exited |-> 0, crashed |-> 0]
CloserLeft == [wait |-> 2, closeCodes |-> 1, done |-> 0]
TaskLeft ==
  [createCluster |-> 14, toEnv |-> 13, setNamespace |-> 12, createTestJob |-> 11,
   startTest |-> 8, start |-> 7, getPod |-> 6, streamLogs |-> 5, getStatus |-> 4,
   tearDown |-> 3, report |-> 2, done |-> 0]
PodLeft == [none |-> 0, pending |-> 2, running |-> 1, terminated |-> 0]
SuiteLeft(s) == TaskLeft[task[s]] + PodLeft[pods[s]]
SuiteSteps == {p \in Suites \X (1 .. 16) : p[2] <= SuiteLeft(p[1])}
IterationSteps == 5 + Cardinality(Suites \X (1 .. 16))
StepsLeft ==
  (Iterations - iteration) * IterationSteps + MainLeft[main] + CloserLeft[closer]
    + Len(codeChan) + Cardinality(SuiteSteps)

(* With a number of iterations every step, of whomever and whatever fails, *)
(* brings the process and its pods closer to their end: no call is made    *)
(* twice, no code taken twice and no iteration repeated (lines 53-240).    *)
StepsRunOut ==
  [][Iterations >= 0 => StepsLeft' \in 0 .. StepsLeft - 1]_vars

(* "tear down the cluster if necessary" (line 191), and --no-teardown to   *)
(* ask for the contrary: when the coordinator exits, with an error too,    *)
(* there is no cluster that it could have deleted.  A crash is no exit.    *)
ExitLeavesNoCluster == main = "exited" => clusters \subseteq undeleted

(* "multiple suites within a test image may be run in parallel, each in    *)
(* their own Kubernetes namespace" (docs/testing.md): the pod of a suite   *)
(* runs that suite in the namespace of that suite.                         *)
OwnEnvironment ==
  \A s \in Suites :
    pods[s] # "none" => podEnv[s] = [suite |-> s, namespace |-> s]
=============================================================================
